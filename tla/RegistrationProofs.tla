------------------------- MODULE RegistrationProofs -------------------------
(***************************************************************************)
(* Proofs about Registration, for any systems, types and programs: what    *)
(* the user had before is kept, but for two cases of which the theorem     *)
(* says so, nothing points to what is not there, and a removal reported as *)
(* done has left nothing.                                                  *)
(***************************************************************************)
EXTENDS Registration, TLAPS

-----------------------------------------------------------------------------
(* Where the worker is.                                                    *)

TypeSteps == TakeSteps \cup GiveBackSteps \cup EntrySteps
Ops == {"none", "inspect", "apply", "remove", "upgrade"}
Additions == {"+progid", "+open with", "+capability"}

\* Each step belongs to some systems and operations, and those about a type come
\* while types are left.
PlacedAt(j) ==
  /\ j.op = "none" => j.pc = "done"
  /\ j.pc \in TypeSteps => j.left # {}
  /\ j.pc \in MenuSteps \cup {"-backups", "inspect", "done"} => j.left = {}
  /\ j.op = "remove" /\ j.pc = "-launcher" => j.left = {}
  /\ j.pc \in EntrySteps \cup {"enable", "register", "unregister", "disable"} => os = "windows"
  /\ j.pc \in TakeSteps \cup GiveBackSteps \cup {"load", "-backups"} => os # "windows"
  /\ j.pc = "truncate" => os = "macos"
  /\ j.pc = "clear" => os = "linux"
  /\ j.pc \in TakeSteps \cup Additions => j.op = "apply"
  /\ j.pc \in {"enable", "register", "menu on", "+launcher"} => j.op = "apply"
  /\ j.pc = "-launcher" => j.op = "remove" \/ (j.op = "apply" /\ os = "macos")
  /\ j.pc = "-backups" => j.op = "remove"
  /\ j.pc \in TypeSteps \cup (MenuSteps \ {"unregister"}) \cup {"load"} =>
       j.op \in {"apply", "remove"}
  /\ j.pc = "unregister" => j.op \in {"apply", "remove", "upgrade"}
  /\ j.op # "apply" => j.selected = {} /\ ~j.menu
  /\ j.error => j.pc \in {"inspect", "done"}

Plain == TypeOK /\ PlacedAt(job)

\* Windows has entries and an identity, the others have choices and a file.
Apart ==
  IF os = "windows" THEN backups = NoBackups
  ELSE ~enabled /\ identity = "none" /\ \A t \in Types : keys[t] = {}

-----------------------------------------------------------------------------
(* What the user had before.                                               *)

\* Was(t): somebody had chosen a program for the type.
Was(t) == want[t] # "none"

\* Unless it is being given back, a choice is in force or taken; one that is taken
\* is in the file, and in the worker's hands, which holds the answer it acts on and
\* has it in the file before it takes the type.
ChoiceInv ==
  os # "windows" => \A t \in Types : Was(t) =>
    /\ chosen[t] \in {want[t], "ours"}
         \/ (os = "linux" /\ job.pc = "give back" /\ t = Subject)
    /\ chosen[t] # want[t] =>
         /\ backups[t] = want[t] \/ (os = "macos" /\ job.pc = "keep")
         /\ job.pc \in TakeSteps \cup GiveBackSteps => job.held[t] = want[t]
    /\ job.pc \in Held /\ t = Subject => job.held[t] = want[t]
    /\ job.pc = "take" /\ t = Subject => backups[t] = want[t]

\* A removal has given the types back that it is through with.
Freed ==
  job.op = "remove" /\ ~job.error =>
    \A t \in Types \ job.left :
      IF os = "windows" THEN keys[t] = {} ELSE chosen[t] # "ours"

\* On Linux a type has lost this program before it gets the previous one.
Cleared == os = "linux" /\ job.pc = "give back" => chosen[Subject] # "ours"

-----------------------------------------------------------------------------
(* What points to what.                                                    *)

Rooted ==
  /\ \A t \in Types : keys[t] # {} => "progid" \in keys[t]
  /\ job.pc \in {"+open with", "+capability"} => "progid" \in keys[Subject]
  /\ job.pc \in {"-capability", "-progid"} => "open with" \notin keys[Subject]
  /\ job.pc = "-progid" => "capability" \notin keys[Subject]

Launched ==
  /\ os = "linux" => \A t \in Types : chosen[t] = "ours" => launcher
  /\ job.op = "apply" /\ job.pc \notin {"-launcher", "+launcher", "inspect", "done"} => launcher

-----------------------------------------------------------------------------
(* What a removal leaves.                                                  *)

GoneInv ==
  job.op = "remove" /\ ~job.error =>
    /\ job.pc = "disable" => identity = "none"
    /\ job.pc \in {"menu off", "-launcher", "-backups", "inspect", "done"} =>
         ~enabled /\ identity = "none"
    /\ job.pc \in {"-launcher", "-backups", "inspect", "done"} => menu = "off"
    /\ job.pc \in {"-backups", "inspect", "done"} => ~launcher
    /\ job.pc \in {"inspect", "done"} => backups = NoBackups

-----------------------------------------------------------------------------
(* Where the worker goes.                                                  *)

\* All steps, one by one.
LEMMA AllSteps ==
  /\ Steps = {"ask others", "truncate", "keep", "take", "ask ours", "clear", "give back",
              "+progid", "+open with", "+capability", "-open with", "-capability", "-progid",
              "enable", "register", "unregister", "disable", "menu off", "menu on",
              "-launcher", "+launcher", "load", "-backups", "inspect", "done"}
  /\ Held = {"truncate", "keep", "take", "clear", "give back"}
  /\ TypeSteps = {"ask others", "truncate", "keep", "take", "ask ours", "clear", "give back",
                  "+progid", "+open with", "+capability", "-open with", "-capability", "-progid"}
BY DEF Steps, Held, TypeSteps, TakeSteps, GiveBackSteps, EntrySteps, MenuSteps

\* Coming to the types, or past the last of them.
LEMMA AtTypesPlaces ==
  ASSUME os \in {"linux", "macos", "windows"},
         NEW j \in Jobs, j.op \in {"apply", "remove"}, ~j.error,
         j.op # "apply" => j.selected = {} /\ ~j.menu
  PROVE  /\ [j EXCEPT !.pc = AtTypes(j)] \in Jobs
         /\ PlacedAt([j EXCEPT !.pc = AtTypes(j)])
         /\ AtTypes(j) \in IF j.left = {} THEN {"menu off", "enable", "unregister"}
                           ELSE {"ask others", "ask ours", "+progid", "-open with"}
         /\ AtTypes(j) \in {"menu off", "ask others", "ask ours"} <=> os # "windows"
<1> DEFINE k == [j EXCEPT !.pc = AtTypes(j)]
<1>1. /\ AtTypes(j) \in IF j.left = {} THEN {"menu off", "enable", "unregister"}
                        ELSE {"ask others", "ask ours", "+progid", "-open with"}
      /\ AtTypes(j) \in {"menu off", "ask others", "ask ours"} <=> os # "windows"
      /\ AtTypes(j) \in {"ask others", "+progid", "enable"} => j.op = "apply"
  BY DEF AtTypes, AfterTypes, Jobs
<1>2. AtTypes(j) \in Steps
  BY <1>1, AllSteps
<1>3. /\ k \in Jobs /\ k.pc = AtTypes(j) /\ k.op = j.op /\ k.left = j.left
      /\ k.selected = j.selected /\ k.menu = j.menu /\ k.error = j.error
  BY <1>2 DEF Jobs
<1> HIDE DEF k
<1>4. PlacedAt(k)
  BY <1>1, <1>3 DEF PlacedAt, TypeSteps, TakeSteps, GiveBackSteps, EntrySteps, MenuSteps, Additions
<1> QED
  BY <1>1, <1>3, <1>4 DEF k

\* What a step leaves of the job.
Same(j) ==
  /\ j.op = job.op /\ j.by = job.by /\ j.selected = job.selected /\ j.menu = job.menu
  /\ j.held = job.held /\ j.replace = job.replace /\ j.error = job.error /\ j.seen = job.seen

\* The type in hand is over.
LEMMA NextTypeIs ==
  ASSUME RegistrationAssumption, Plain, job.pc \in TypeSteps
  PROVE  /\ NextType \in Jobs /\ PlacedAt(NextType) /\ Same(NextType)
         /\ NextType.left = job.left \ {Subject}
         /\ Subject \in job.left /\ Subject \in Types
         /\ NextType.pc \in {"menu off", "enable", "unregister", "ask others", "ask ours",
                             "+progid", "-open with"}
         /\ NextType.pc \in {"menu off", "ask others", "ask ours"} <=> os # "windows"
<1> DEFINE j == [job EXCEPT !.left = @ \ {Subject}]
<1>1. /\ j \in Jobs /\ j.left = job.left \ {Subject} /\ Same(j)
  BY DEF Plain, TypeOK, Jobs, Same
<1>2. Subject \in job.left
  BY DEF Plain, PlacedAt, Subject, First
<1>3. os \in {"linux", "macos", "windows"}
  BY DEF Plain, TypeOK, RegistrationAssumption
<1>4. /\ j.op \in {"apply", "remove"} /\ ~j.error
      /\ j.op # "apply" => j.selected = {} /\ ~j.menu
  BY <1>1, AllSteps DEF Plain, PlacedAt, Same
<1>5. NextType = [j EXCEPT !.pc = AtTypes(j)]
  BY DEF NextType
<1> HIDE DEF j
<1>6. /\ NextType \in Jobs /\ PlacedAt(NextType)
      /\ AtTypes(j) \in IF j.left = {} THEN {"menu off", "enable", "unregister"}
                        ELSE {"ask others", "ask ours", "+progid", "-open with"}
      /\ AtTypes(j) \in {"menu off", "ask others", "ask ours"} <=> os # "windows"
  BY <1>1, <1>3, <1>4, <1>5, AtTypesPlaces
<1>7. NextType.pc = AtTypes(j) /\ NextType.left = j.left /\ Same(NextType)
  BY <1>1, <1>5 DEF Jobs, Same
<1>8. Subject \in Types
  BY <1>2 DEF Plain, TypeOK, Jobs
<1> QED
  BY <1>1, <1>2, <1>6, <1>7, <1>8

\* The step after each step, one by one.
LEMMA Follows ==
  ASSUME Plain, job.pc \notin {"inspect", "done"}
  PROVE  /\ job.pc = "ask others" =>
              Onward = [job EXCEPT !.pc = IF os = "macos" THEN "truncate" ELSE "keep"]
         /\ job.pc = "truncate" => Onward = [job EXCEPT !.pc = "keep"]
         /\ job.pc = "keep" => Onward = [job EXCEPT !.pc = "take"]
         /\ job.pc = "ask ours" =>
              Onward = [job EXCEPT !.pc = IF os = "linux" THEN "clear" ELSE "give back"]
         /\ job.pc = "clear" => Onward = [job EXCEPT !.pc = "give back"]
         /\ job.pc = "+progid" => Onward = [job EXCEPT !.pc = "+open with"]
         /\ job.pc = "+open with" => Onward = [job EXCEPT !.pc = "+capability"]
         /\ job.pc = "-open with" => Onward = [job EXCEPT !.pc = "-capability"]
         /\ job.pc = "-capability" => Onward = [job EXCEPT !.pc = "-progid"]
         /\ job.pc \in {"take", "give back", "+capability", "-progid"} => Onward = NextType
         /\ job.pc = "load" => Onward = [job EXCEPT !.pc = AtTypes(job)]
         /\ job.pc = "+launcher" =>
              Onward = [job EXCEPT !.pc = IF os = "windows" THEN AtTypes(job) ELSE "load"]
         /\ job.pc = "enable" => Onward = [job EXCEPT !.pc = "register"]
         /\ job.pc \in {"register", "disable"} => Onward = [job EXCEPT !.pc = "menu off"]
         /\ job.pc = "unregister" =>
              Onward = [job EXCEPT !.pc = IF job.op = "upgrade" THEN "inspect" ELSE "disable"]
         /\ job.pc = "menu off" =>
              Onward = [job EXCEPT !.pc = IF job.menu THEN "menu on"
                                          ELSE IF job.op = "remove" THEN "-launcher" ELSE "inspect"]
         /\ job.pc \in {"menu on", "-backups"} => Onward = [job EXCEPT !.pc = "inspect"]
         /\ job.pc = "-launcher" =>
              Onward = [job EXCEPT !.pc = IF job.op = "apply" THEN "+launcher"
                                          ELSE IF os = "windows" THEN "inspect" ELSE "-backups"]
<1>1. AtTypes(job) # "next type"
  BY DEF AtTypes, AfterTypes
<1>2. job.pc \in TakeSteps => After(job) = AfterTake(job.pc)
  BY DEF After, TakeSteps, GiveBackSteps, EntrySteps, MenuSteps
<1>3. job.pc \in GiveBackSteps => After(job) = AfterGiveBack(job.pc)
  BY DEF After, TakeSteps, GiveBackSteps, EntrySteps, MenuSteps
<1>4. job.pc \in EntrySteps => After(job) = AfterEntry(job.pc)
  BY DEF After, TakeSteps, GiveBackSteps, EntrySteps, MenuSteps
<1>5. job.pc \in MenuSteps => After(job) = AfterMenu(job, job.pc)
  BY DEF After, TakeSteps, GiveBackSteps, EntrySteps, MenuSteps
<1>6. /\ job.pc = "-launcher" => After(job) = AfterLauncher(job)
      /\ job.pc = "+launcher" =>
           After(job) = IF os = "windows" THEN AtTypes(job) ELSE "load"
      /\ job.pc = "load" => After(job) = AtTypes(job)
      /\ job.pc = "-backups" => After(job) = "inspect"
  BY DEF After, TakeSteps, GiveBackSteps, EntrySteps, MenuSteps
<1>7. CASE job.pc \in TakeSteps
  BY <1>2, <1>7 DEF AfterTake, TakeSteps, Onward
<1>8. CASE job.pc \in GiveBackSteps
  BY <1>3, <1>8 DEF AfterGiveBack, GiveBackSteps, Onward
<1>9. CASE job.pc \in EntrySteps
  BY <1>4, <1>9 DEF AfterEntry, EntrySteps, Onward
<1>10. CASE job.pc \in MenuSteps
  BY <1>5, <1>10 DEF AfterMenu, MenuSteps, Onward
<1>11. CASE job.pc \in {"-launcher", "+launcher", "load", "-backups"}
  BY <1>1, <1>6, <1>11 DEF AfterLauncher, Onward
<1> QED
  BY <1>7, <1>8, <1>9, <1>10, <1>11 DEF Plain, TypeOK, Jobs, Steps

\* A step to the next one.
Moves(step) ==
  Onward \in Jobs /\ Same(Onward) /\ Onward.left = job.left /\ Onward.pc = step

LEMMA MovesTo ==
  ASSUME Plain, job.pc \notin {"inspect", "done"}
  PROVE  /\ job.pc = "truncate" => Moves("keep")
         /\ job.pc = "keep" => Moves("take")
         /\ job.pc = "clear" => Moves("give back")
         /\ job.pc = "+progid" => Moves("+open with")
         /\ job.pc = "+open with" => Moves("+capability")
         /\ job.pc = "-open with" => Moves("-capability")
         /\ job.pc = "-capability" => Moves("-progid")
         /\ job.pc = "ask others" /\ os = "macos" => Moves("truncate")
         /\ job.pc = "ask others" /\ os # "macos" => Moves("keep")
         /\ job.pc = "ask ours" /\ os = "linux" => Moves("clear")
         /\ job.pc = "ask ours" /\ os # "linux" => Moves("give back")
         /\ job.pc = "+launcher" /\ os # "windows" => Moves("load")
         /\ job.pc = "enable" => Moves("register")
         /\ job.pc = "register" => Moves("menu off")
         /\ job.pc = "disable" => Moves("menu off")
         /\ job.pc = "unregister" /\ job.op = "upgrade" => Moves("inspect")
         /\ job.pc = "unregister" /\ job.op # "upgrade" => Moves("disable")
         /\ job.pc = "menu off" /\ job.menu => Moves("menu on")
         /\ job.pc = "menu off" /\ ~job.menu /\ job.op = "remove" => Moves("-launcher")
         /\ job.pc = "menu off" /\ ~job.menu /\ job.op # "remove" => Moves("inspect")
         /\ job.pc = "menu on" => Moves("inspect")
         /\ job.pc = "-backups" => Moves("inspect")
         /\ job.pc = "-launcher" /\ job.op = "apply" => Moves("+launcher")
         /\ job.pc = "-launcher" /\ job.op # "apply" /\ os = "windows" => Moves("inspect")
         /\ job.pc = "-launcher" /\ job.op # "apply" /\ os # "windows" => Moves("-backups")
<1>1. ASSUME NEW step \in Steps, Onward = [job EXCEPT !.pc = step] PROVE Moves(step)
  BY <1>1 DEF Moves, Same, Plain, TypeOK, Jobs
<1>2. job.pc = "truncate" => Moves("keep")
  <2>1. job.pc = "truncate" => Onward = [job EXCEPT !.pc = "keep"]
    BY Follows
  <2>2. "keep" \in Steps
    BY AllSteps
  <2> QED
    BY <1>1, <2>1, <2>2
<1>3. job.pc = "keep" => Moves("take")
  <2>1. job.pc = "keep" => Onward = [job EXCEPT !.pc = "take"]
    BY Follows
  <2>2. "take" \in Steps
    BY AllSteps
  <2> QED
    BY <1>1, <2>1, <2>2
<1>4. job.pc = "clear" => Moves("give back")
  <2>1. job.pc = "clear" => Onward = [job EXCEPT !.pc = "give back"]
    BY Follows
  <2>2. "give back" \in Steps
    BY AllSteps
  <2> QED
    BY <1>1, <2>1, <2>2
<1>5. job.pc = "+progid" => Moves("+open with")
  <2>1. job.pc = "+progid" => Onward = [job EXCEPT !.pc = "+open with"]
    BY Follows
  <2>2. "+open with" \in Steps
    BY AllSteps
  <2> QED
    BY <1>1, <2>1, <2>2
<1>6. job.pc = "+open with" => Moves("+capability")
  <2>1. job.pc = "+open with" => Onward = [job EXCEPT !.pc = "+capability"]
    BY Follows
  <2>2. "+capability" \in Steps
    BY AllSteps
  <2> QED
    BY <1>1, <2>1, <2>2
<1>7. job.pc = "-open with" => Moves("-capability")
  <2>1. job.pc = "-open with" => Onward = [job EXCEPT !.pc = "-capability"]
    BY Follows
  <2>2. "-capability" \in Steps
    BY AllSteps
  <2> QED
    BY <1>1, <2>1, <2>2
<1>8. job.pc = "-capability" => Moves("-progid")
  <2>1. job.pc = "-capability" => Onward = [job EXCEPT !.pc = "-progid"]
    BY Follows
  <2>2. "-progid" \in Steps
    BY AllSteps
  <2> QED
    BY <1>1, <2>1, <2>2
<1>9. job.pc = "ask others" /\ os = "macos" => Moves("truncate")
  <2>1. job.pc = "ask others" /\ os = "macos" => Onward = [job EXCEPT !.pc = "truncate"]
    BY Follows
  <2>2. "truncate" \in Steps
    BY AllSteps
  <2> QED
    BY <1>1, <2>1, <2>2
<1>10. job.pc = "ask others" /\ os # "macos" => Moves("keep")
  <2>1. job.pc = "ask others" /\ os # "macos" => Onward = [job EXCEPT !.pc = "keep"]
    BY Follows
  <2>2. "keep" \in Steps
    BY AllSteps
  <2> QED
    BY <1>1, <2>1, <2>2
<1>11. job.pc = "ask ours" /\ os = "linux" => Moves("clear")
  <2>1. job.pc = "ask ours" /\ os = "linux" => Onward = [job EXCEPT !.pc = "clear"]
    BY Follows
  <2>2. "clear" \in Steps
    BY AllSteps
  <2> QED
    BY <1>1, <2>1, <2>2
<1>12. job.pc = "ask ours" /\ os # "linux" => Moves("give back")
  <2>1. job.pc = "ask ours" /\ os # "linux" => Onward = [job EXCEPT !.pc = "give back"]
    BY Follows
  <2>2. "give back" \in Steps
    BY AllSteps
  <2> QED
    BY <1>1, <2>1, <2>2
<1>13. job.pc = "+launcher" /\ os # "windows" => Moves("load")
  <2>1. job.pc = "+launcher" /\ os # "windows" => Onward = [job EXCEPT !.pc = "load"]
    BY Follows
  <2>2. "load" \in Steps
    BY AllSteps
  <2> QED
    BY <1>1, <2>1, <2>2
<1>14. job.pc = "enable" => Moves("register")
  <2>1. job.pc = "enable" => Onward = [job EXCEPT !.pc = "register"]
    BY Follows
  <2>2. "register" \in Steps
    BY AllSteps
  <2> QED
    BY <1>1, <2>1, <2>2
<1>15. job.pc = "register" => Moves("menu off")
  <2>1. job.pc = "register" => Onward = [job EXCEPT !.pc = "menu off"]
    BY Follows
  <2>2. "menu off" \in Steps
    BY AllSteps
  <2> QED
    BY <1>1, <2>1, <2>2
<1>16. job.pc = "disable" => Moves("menu off")
  <2>1. job.pc = "disable" => Onward = [job EXCEPT !.pc = "menu off"]
    BY Follows
  <2>2. "menu off" \in Steps
    BY AllSteps
  <2> QED
    BY <1>1, <2>1, <2>2
<1>17. job.pc = "unregister" /\ job.op = "upgrade" => Moves("inspect")
  <2>1. job.pc = "unregister" /\ job.op = "upgrade" => Onward = [job EXCEPT !.pc = "inspect"]
    BY Follows
  <2>2. "inspect" \in Steps
    BY AllSteps
  <2> QED
    BY <1>1, <2>1, <2>2
<1>18. job.pc = "unregister" /\ job.op # "upgrade" => Moves("disable")
  <2>1. job.pc = "unregister" /\ job.op # "upgrade" => Onward = [job EXCEPT !.pc = "disable"]
    BY Follows
  <2>2. "disable" \in Steps
    BY AllSteps
  <2> QED
    BY <1>1, <2>1, <2>2
<1>19. job.pc = "menu off" /\ job.menu => Moves("menu on")
  <2>1. job.pc = "menu off" /\ job.menu => Onward = [job EXCEPT !.pc = "menu on"]
    BY Follows
  <2>2. "menu on" \in Steps
    BY AllSteps
  <2> QED
    BY <1>1, <2>1, <2>2
<1>20. job.pc = "menu off" /\ ~job.menu /\ job.op = "remove" => Moves("-launcher")
  <2>1. job.pc = "menu off" /\ ~job.menu /\ job.op = "remove" => Onward = [job EXCEPT !.pc = "-launcher"]
    BY Follows
  <2>2. "-launcher" \in Steps
    BY AllSteps
  <2> QED
    BY <1>1, <2>1, <2>2
<1>21. job.pc = "menu off" /\ ~job.menu /\ job.op # "remove" => Moves("inspect")
  <2>1. job.pc = "menu off" /\ ~job.menu /\ job.op # "remove" => Onward = [job EXCEPT !.pc = "inspect"]
    BY Follows
  <2>2. "inspect" \in Steps
    BY AllSteps
  <2> QED
    BY <1>1, <2>1, <2>2
<1>22. job.pc = "menu on" => Moves("inspect")
  <2>1. job.pc = "menu on" => Onward = [job EXCEPT !.pc = "inspect"]
    BY Follows
  <2>2. "inspect" \in Steps
    BY AllSteps
  <2> QED
    BY <1>1, <2>1, <2>2
<1>23. job.pc = "-backups" => Moves("inspect")
  <2>1. job.pc = "-backups" => Onward = [job EXCEPT !.pc = "inspect"]
    BY Follows
  <2>2. "inspect" \in Steps
    BY AllSteps
  <2> QED
    BY <1>1, <2>1, <2>2
<1>24. job.pc = "-launcher" /\ job.op = "apply" => Moves("+launcher")
  <2>1. job.pc = "-launcher" /\ job.op = "apply" => Onward = [job EXCEPT !.pc = "+launcher"]
    BY Follows
  <2>2. "+launcher" \in Steps
    BY AllSteps
  <2> QED
    BY <1>1, <2>1, <2>2
<1>25. job.pc = "-launcher" /\ job.op # "apply" /\ os = "windows" => Moves("inspect")
  <2>1. job.pc = "-launcher" /\ job.op # "apply" /\ os = "windows" => Onward = [job EXCEPT !.pc = "inspect"]
    BY Follows
  <2>2. "inspect" \in Steps
    BY AllSteps
  <2> QED
    BY <1>1, <2>1, <2>2
<1>26. job.pc = "-launcher" /\ job.op # "apply" /\ os # "windows" => Moves("-backups")
  <2>1. job.pc = "-launcher" /\ job.op # "apply" /\ os # "windows" => Onward = [job EXCEPT !.pc = "-backups"]
    BY Follows
  <2>2. "-backups" \in Steps
    BY AllSteps
  <2> QED
    BY <1>1, <2>1, <2>2
<1> QED
  BY <1>2, <1>3, <1>4, <1>5, <1>6, <1>7, <1>8, <1>9, <1>10, <1>11, <1>12, <1>13, <1>14, <1>15, <1>16, <1>17, <1>18, <1>19, <1>20, <1>21, <1>22, <1>23, <1>24, <1>25, <1>26

\* Where a step leads the worker is at its place.
LEMMA OnwardPlaces ==
  ASSUME RegistrationAssumption, Plain, job.pc \notin {"inspect", "done"}
  PROVE  Onward \in Jobs /\ PlacedAt(Onward) /\ Same(Onward)
<1>1. os \in {"linux", "macos", "windows"}
  BY DEF Plain, TypeOK, RegistrationAssumption
<1>2. CASE job.pc \in {"take", "give back", "+capability", "-progid"}
  <2>1. Onward = NextType /\ job.pc \in TypeSteps
    BY <1>2, Follows, AllSteps
  <2> QED
    BY <2>1, NextTypeIs
<1>3. CASE job.pc = "load" \/ (job.pc = "+launcher" /\ os = "windows")
  <2>1. Onward = [job EXCEPT !.pc = AtTypes(job)]
    BY <1>3, Follows
  <2>2. /\ job \in Jobs /\ job.op \in {"apply", "remove"} /\ ~job.error
        /\ job.op # "apply" => job.selected = {} /\ ~job.menu
    BY <1>3 DEF Plain, TypeOK, PlacedAt
  <2>3. Onward \in Jobs /\ PlacedAt(Onward)
    BY <1>1, <2>1, <2>2, AtTypesPlaces
  <2> QED
    BY <2>1, <2>3 DEF Same, Jobs
<1>4. CASE job.pc = "truncate"
  BY <1>1, <1>4, MovesTo DEF Moves, Plain, PlacedAt, Same, TypeSteps, TakeSteps, GiveBackSteps,
                  EntrySteps, MenuSteps, Additions
<1>5. CASE job.pc = "keep"
  BY <1>1, <1>5, MovesTo DEF Moves, Plain, PlacedAt, Same, TypeSteps, TakeSteps, GiveBackSteps,
                  EntrySteps, MenuSteps, Additions
<1>6. CASE job.pc = "clear"
  BY <1>1, <1>6, MovesTo DEF Moves, Plain, PlacedAt, Same, TypeSteps, TakeSteps, GiveBackSteps,
                  EntrySteps, MenuSteps, Additions
<1>7. CASE job.pc = "+progid"
  BY <1>1, <1>7, MovesTo DEF Moves, Plain, PlacedAt, Same, TypeSteps, TakeSteps, GiveBackSteps,
                  EntrySteps, MenuSteps, Additions
<1>8. CASE job.pc = "+open with"
  BY <1>1, <1>8, MovesTo DEF Moves, Plain, PlacedAt, Same, TypeSteps, TakeSteps, GiveBackSteps,
                  EntrySteps, MenuSteps, Additions
<1>9. CASE job.pc = "-open with"
  BY <1>1, <1>9, MovesTo DEF Moves, Plain, PlacedAt, Same, TypeSteps, TakeSteps, GiveBackSteps,
                  EntrySteps, MenuSteps, Additions
<1>10. CASE job.pc = "-capability"
  BY <1>1, <1>10, MovesTo DEF Moves, Plain, PlacedAt, Same, TypeSteps, TakeSteps, GiveBackSteps,
                  EntrySteps, MenuSteps, Additions
<1>11. CASE job.pc = "ask others"
  BY <1>1, <1>11, MovesTo DEF Moves, Plain, PlacedAt, Same, TypeSteps, TakeSteps, GiveBackSteps,
                  EntrySteps, MenuSteps, Additions
<1>12. CASE job.pc = "ask ours"
  BY <1>1, <1>12, MovesTo DEF Moves, Plain, PlacedAt, Same, TypeSteps, TakeSteps, GiveBackSteps,
                  EntrySteps, MenuSteps, Additions
<1>13. CASE job.pc = "+launcher" /\ os # "windows"
  BY <1>1, <1>13, MovesTo DEF Moves, Plain, PlacedAt, Same, TypeSteps, TakeSteps, GiveBackSteps,
                  EntrySteps, MenuSteps, Additions
<1>14. CASE job.pc = "enable"
  BY <1>1, <1>14, MovesTo DEF Moves, Plain, PlacedAt, Same, TypeSteps, TakeSteps, GiveBackSteps,
                  EntrySteps, MenuSteps, Additions
<1>15. CASE job.pc = "register"
  BY <1>1, <1>15, MovesTo DEF Moves, Plain, PlacedAt, Same, TypeSteps, TakeSteps, GiveBackSteps,
                  EntrySteps, MenuSteps, Additions
<1>16. CASE job.pc = "disable"
  BY <1>1, <1>16, MovesTo DEF Moves, Plain, PlacedAt, Same, TypeSteps, TakeSteps, GiveBackSteps,
                  EntrySteps, MenuSteps, Additions
<1>17. CASE job.pc = "unregister"
  BY <1>1, <1>17, MovesTo DEF Moves, Plain, PlacedAt, Same, TypeSteps, TakeSteps, GiveBackSteps,
                  EntrySteps, MenuSteps, Additions
<1>18. CASE job.pc = "menu off"
  BY <1>1, <1>18, MovesTo DEF Moves, Plain, PlacedAt, Same, TypeSteps, TakeSteps, GiveBackSteps,
                  EntrySteps, MenuSteps, Additions
<1>19. CASE job.pc = "menu on"
  BY <1>1, <1>19, MovesTo DEF Moves, Plain, PlacedAt, Same, TypeSteps, TakeSteps, GiveBackSteps,
                  EntrySteps, MenuSteps, Additions
<1>20. CASE job.pc = "-backups"
  BY <1>1, <1>20, MovesTo DEF Moves, Plain, PlacedAt, Same, TypeSteps, TakeSteps, GiveBackSteps,
                  EntrySteps, MenuSteps, Additions
<1>21. CASE job.pc = "-launcher"
  BY <1>1, <1>21, MovesTo DEF Moves, Plain, PlacedAt, Same, TypeSteps, TakeSteps, GiveBackSteps,
                  EntrySteps, MenuSteps, Additions
<1> QED
  BY AllSteps, <1>2, <1>3, <1>4, <1>5, <1>6, <1>7, <1>8, <1>9, <1>10, <1>11, <1>12, <1>13, <1>14, <1>15, <1>16, <1>17, <1>18, <1>19, <1>20, <1>21 DEF Plain, TypeOK, Jobs

-----------------------------------------------------------------------------
(* What changes the job.                                                   *)

Begins ==
  \E op \in {"apply", "remove", "upgrade", "inspect"}, by \in {"window", "installer"},
     replaces \in BOOLEAN, selected \in SUBSET Types, on \in BOOLEAN :
    /\ Idle /\ Begin(op, by, replaces, selected, on)
    /\ op # "apply" => selected = {} /\ ~on
    /\ op = "upgrade" => os = "windows"

Ends == job' = NoJob

Failing ==
  /\ job.pc \notin {"inspect", "done"}
  /\ job' = [job EXCEPT !.pc = "inspect", !.left = {}, !.selected = {}, !.menu = FALSE,
                        !.held = NoBackups, !.error = TRUE]

Looked ==
  /\ job.pc = "inspect"
  /\ \E seen \in Snapshots, failed \in BOOLEAN :
       job' = [job EXCEPT !.pc = "done", !.left = {}, !.selected = {}, !.menu = FALSE,
                          !.held = NoBackups, !.seen = seen, !.error = @ \/ failed]

\* A job that begins is at its first step.
LEMMA BeginPlaces ==
  ASSUME RegistrationAssumption, os \in {"linux", "macos", "windows"},
         NEW op \in {"apply", "remove", "upgrade", "inspect"}, NEW by \in {"window", "installer"},
         NEW replaces \in BOOLEAN, NEW selected \in SUBSET Types, NEW on \in BOOLEAN,
         op # "apply" => selected = {} /\ ~on,
         op = "upgrade" => os = "windows",
         Begin(op, by, replaces, selected, on)
  PROVE  /\ job' \in Jobs /\ PlacedAt(job')
         /\ job'.op = op /\ job'.by = by /\ ~job'.error
         /\ job'.left = IF op \in {"apply", "remove"} THEN Types ELSE {}
         /\ job'.pc \in {"-launcher", "+launcher", "load", "unregister", "-open with", "inspect"}
         /\ op = "apply" <=> job'.pc \in {"-launcher", "+launcher"}
         /\ job'.pc = "inspect" => op = "inspect"
<1> DEFINE j == [NoJob EXCEPT !.op = op, !.by = by, !.replace = replaces, !.menu = on,
                              !.left = IF op \in {"apply", "remove"} THEN Types ELSE {},
                              !.selected = selected]
<1>1. job' = [j EXCEPT !.pc = FirstStep(j)]
  BY DEF Begin
<1>2. NoBackups \in Backups /\ NoSnapshot \in Snapshots /\ "done" \in Steps
  BY AllSteps DEF NoBackups, Backups, NoSnapshot, Snapshots
<1>3. /\ j \in Jobs /\ j.op = op /\ j.by = by /\ j.menu = on /\ j.selected = selected
      /\ j.left = IF op \in {"apply", "remove"} THEN Types ELSE {}
      /\ ~j.error
  BY <1>2 DEF NoJob, Jobs
<1> HIDE DEF j
<1>4. CASE op = "apply"
  <2>1. FirstStep(j) = IF os = "macos" THEN "-launcher" ELSE "+launcher"
    BY <1>3, <1>4 DEF FirstStep
  <2> QED
    BY <1>1, <1>3, <1>4, <2>1, AllSteps, ZenonT(60)
       DEF Jobs, PlacedAt, TypeSteps, TakeSteps, GiveBackSteps, EntrySteps, MenuSteps, Additions
<1>5. CASE op = "remove" /\ os # "windows"
  <2>1. FirstStep(j) = "load"
    BY <1>3, <1>5 DEF FirstStep
  <2> QED
    BY <1>1, <1>3, <1>5, <2>1, AllSteps
       DEF Jobs, PlacedAt, TypeSteps, TakeSteps, GiveBackSteps, EntrySteps, MenuSteps, Additions
<1>6. CASE op = "remove" /\ os = "windows"
  <2>1. FirstStep(j) = AtTypes(j)
    BY <1>3, <1>6 DEF FirstStep
  <2>2. job' \in Jobs /\ PlacedAt(job')
    BY <1>1, <1>3, <1>6, <2>1, AtTypesPlaces
  <2>3. AtTypes(j) \in {"unregister", "-open with"}
    BY <1>3, <1>6 DEF AtTypes, AfterTypes
  <2> QED
    BY <1>1, <1>3, <1>6, <2>1, <2>2, <2>3 DEF Jobs
<1>7. CASE op = "upgrade"
  <2>1. FirstStep(j) = "unregister"
    BY <1>3, <1>7 DEF FirstStep
  <2> QED
    BY <1>1, <1>3, <1>7, <2>1, AllSteps
       DEF Jobs, PlacedAt, TypeSteps, TakeSteps, GiveBackSteps, EntrySteps, MenuSteps, Additions
<1>8. CASE op = "inspect"
  <2>1. FirstStep(j) = "inspect"
    BY <1>3, <1>8 DEF FirstStep
  <2> QED
    BY <1>1, <1>3, <1>8, <2>1, AllSteps
       DEF Jobs, PlacedAt, TypeSteps, TakeSteps, GiveBackSteps, EntrySteps, MenuSteps, Additions
<1> QED
  BY <1>4, <1>5, <1>6, <1>7, <1>8

LEMMA FailingPlaces ==
  ASSUME Plain, Failing
  PROVE  /\ job' \in Jobs /\ PlacedAt(job') /\ job'.op = job.op /\ job'.error
         /\ job'.pc = "inspect" /\ job'.left = {}
<1>1. NoBackups \in Backups /\ "inspect" \in Steps
  BY AllSteps DEF NoBackups, Backups
<1>2. /\ job' \in Jobs /\ job'.op = job.op /\ job'.error /\ job'.pc = "inspect" /\ job'.left = {}
      /\ job'.selected = {} /\ ~job'.menu
  BY <1>1 DEF Failing, Plain, TypeOK, Jobs
<1> QED
  BY <1>2 DEF Failing, Plain, PlacedAt, TypeSteps, TakeSteps, GiveBackSteps, EntrySteps,
              MenuSteps, Additions

LEMMA LookedPlaces ==
  ASSUME Plain, Looked
  PROVE  /\ job' \in Jobs /\ PlacedAt(job') /\ job'.op = job.op /\ job'.pc = "done"
         /\ job'.left = {} /\ job.left = {} /\ (job.error => job'.error)
<1>1. NoBackups \in Backups /\ "done" \in Steps
  BY AllSteps DEF NoBackups, Backups
<1>2. PICK seen \in Snapshots, failed \in BOOLEAN :
        job' = [job EXCEPT !.pc = "done", !.left = {}, !.selected = {}, !.menu = FALSE,
                           !.held = NoBackups, !.seen = seen, !.error = @ \/ failed]
  BY DEF Looked
<1>3. /\ job' \in Jobs /\ job'.op = job.op /\ job'.pc = "done" /\ job'.left = {}
      /\ job'.selected = {} /\ ~job'.menu /\ (job.error => job'.error)
  BY <1>1, <1>2 DEF Plain, TypeOK, Jobs
<1>4. job.left = {} /\ job.op # "none"
  BY DEF Plain, PlacedAt, Looked
<1> QED
  BY <1>3, <1>4 DEF PlacedAt, TypeSteps, TakeSteps, GiveBackSteps, EntrySteps, MenuSteps, Additions

LEMMA EndsPlace ==
  ASSUME Ends
  PROVE  job' \in Jobs /\ PlacedAt(job') /\ job'.op = "none" /\ job'.pc = "done" /\ job'.left = {}
<1>1. NoBackups \in Backups /\ NoSnapshot \in Snapshots /\ "done" \in Steps
  BY AllSteps DEF NoBackups, Backups, NoSnapshot, Snapshots
<1>2. job' \in Jobs
  BY <1>1 DEF Ends, NoJob, Jobs
<1>3. /\ job'.op = "none" /\ job'.pc = "done" /\ job'.left = {} /\ job'.selected = {}
      /\ ~job'.menu /\ ~job'.error
  BY DEF Ends, NoJob
<1> QED
  BY <1>2, <1>3 DEF PlacedAt, TypeSteps, TakeSteps, GiveBackSteps, EntrySteps, MenuSteps, Additions

-----------------------------------------------------------------------------
(* Types and places are kept.                                              *)

\* What the window, the installer and their ends do.
Quiet ==
  /\ UNCHANGED <<os, system, want>>
  /\ UNCHANGED job \/ Begins \/ (Ends /\ job.pc = "done")

\* Every step is the window's or the installer's, the worker's, the user's or a death.
LEMMA StepKinds ==
  ASSUME RegistrationAssumption, Plain, [Next]_vars
  PROVE  Quiet \/ Work \/ UserChooses \/ Dies
<1>1. CASE UNCHANGED vars
  BY <1>1 DEF vars, Quiet, system
<1>2. CASE ShowSettings \/ Refresh \/ Edit \/ AskDialog \/ CancelDialog \/ Discard
  BY <1>2 DEF ShowSettings, Refresh, Edit, AskDialog, CancelDialog, Discard, Quiet
<1>3. ASSUME NEW op \in {"apply", "remove", "inspect"}, NEW selected \in SUBSET Types,
             NEW on \in BOOLEAN, op # "apply" => selected = {} /\ ~on,
             StartIntegration(op, selected, on)
      PROVE  Quiet
  <2> DEFINE replaces == op \in {"apply", "remove"} \/ ~Dirty
  <2>1. Idle /\ Begin(op, "window", replaces, selected, on) /\ UNCHANGED <<os, system, want>>
    BY <1>3 DEF StartIntegration
  <2>2. replaces \in BOOLEAN
    OBVIOUS
  <2> HIDE DEF replaces
  <2>3. Begins
    BY <1>3, <2>1, <2>2 DEF Begins
  <2> QED
    BY <2>1, <2>3 DEF Quiet
<1>4. CASE Reload
  BY <1>3, <1>4 DEF Reload
<1>5. CASE PressApply
  <2>1. WithOuter(draft.types) \in SUBSET Types /\ draft.menu \in BOOLEAN
    BY DEF Plain, TypeOK, Drafts, WithOuter, RegistrationAssumption
  <2> QED
    BY <1>3, <1>5, <2>1 DEF PressApply
<1>6. CASE ConfirmRemove
  BY <1>3, <1>6 DEF ConfirmRemove
<1>7. CASE PollIntegration \/ InstallerEnds
  BY <1>7 DEF PollIntegration, InstallerEnds, Quiet, Ends
<1>8. CASE Installer
  <2>1. WithOuter(Selected) \in SUBSET Types
    <3>1. Selected \in SUBSET Types
      BY DEF Selected
    <3> QED
      BY <3>1 DEF WithOuter, RegistrationAssumption
  <2>2. \/ \E m \in BOOLEAN : Begin("apply", "installer", FALSE, WithOuter(Selected), m)
        \/ Begin("apply", "installer", FALSE, Types, TRUE)
        \/ Begin("remove", "installer", FALSE, {}, FALSE)
        \/ os = "windows" /\ Begin("upgrade", "installer", FALSE, {}, FALSE)
    BY <1>8 DEF Installer
  <2>3. Idle /\ UNCHANGED <<os, system, want>>
    BY <1>8 DEF Installer
  <2>4. Begins
    BY <2>1, <2>2, <2>3 DEF Begins
  <2> QED
    BY <2>3, <2>4 DEF Quiet
<1> QED
  BY <1>1, <1>2, <1>4, <1>5, <1>6, <1>7, <1>8 DEF Next

\* What the worker holds is no matter of its place.
LEMMA HeldOnly ==
  ASSUME NEW j \in Jobs, PlacedAt(j), NEW h \in Backups
  PROVE  LET k == [j EXCEPT !.held = h]
         IN  /\ k \in Jobs /\ PlacedAt(k) /\ k.pc = j.pc /\ k.op = j.op /\ k.left = j.left
             /\ k.held = h /\ k.error = j.error
BY ZenonT(60) DEF Jobs, PlacedAt

\* The worker's steps, but for the end and the failures.
Steady ==
  \/ Load \/ AskOthers \/ AskOurs \/ Truncate \/ Keep \/ Associate \/ Entry \/ Launcher
  \/ DropBackups \/ MenuFiles \/ Modern

\* Programs that are not this one.
LEMMA HandlerIs ==
  ASSUME RegistrationAssumption, TypeOK, NEW t \in Types
  PROVE  /\ Handler(t) \in Programs \cup {"ours"}
         /\ os # "linux" /\ Handler(t) = "ours" => chosen[t] = "ours"
         /\ chosen[t] # "none" => Handler(t) = chosen[t]
         /\ chosen[t] = "none" /\ (os = "linux" => ~launcher) => Handler(t) # "ours"
BY DEF TypeOK, Handler, Effective, Programs, RegistrationAssumption

LEMMA WorkPlaces ==
  ASSUME RegistrationAssumption, Plain, Steady
  PROVE  /\ job' \in Jobs /\ PlacedAt(job') /\ job'.op = job.op /\ job'.error = job.error
         /\ job.pc \notin {"inspect", "done"}
<1>1. job.pc \notin {"inspect", "done"}
  BY DEF Steady, Load, AskOthers, AskOurs, Truncate, Keep, Associate, Clear, Restore, Entry,
         Launcher, DropBackups, MenuFiles, Modern, Doing, Running
<1>2. Onward \in Jobs /\ PlacedAt(Onward) /\ Same(Onward)
  BY <1>1, OnwardPlaces
<1>3. CASE job' = Onward
  BY <1>1, <1>2, <1>3 DEF Same
<1>4. CASE Load
  <2>1. job' = [Onward EXCEPT !.held = backups] /\ backups \in Backups
    BY <1>4 DEF Load, Plain, TypeOK
  <2> QED
    BY <1>1, <1>2, <2>1, HeldOnly DEF Same
<1>5. CASE job' = NextType /\ job.pc \in TypeSteps
  BY <1>1, <1>5, NextTypeIs DEF Same
<1>6. CASE AskOthers /\ Handler(Subject) # "ours"
  <2> DEFINE h == [Onward.held EXCEPT ![Subject] = Handler(Subject)]
  <2>1. job' = [Onward EXCEPT !.held = h]
    BY <1>6 DEF AskOthers
  <2>2. job.pc \in TypeSteps
    BY <1>6 DEF AskOthers, Doing, TypeSteps, TakeSteps
  <2>3. Handler(Subject) \in Programs
    BY <1>6, <2>2, NextTypeIs, HandlerIs DEF Plain
  <2>4. h \in Backups
    BY <1>2, <2>3 DEF Jobs, Backups
  <2> HIDE DEF h
  <2> QED
    BY <1>1, <1>2, <2>1, <2>4, HeldOnly DEF Same
<1>7. \/ Load \/ job' = Onward \/ (job' = NextType /\ job.pc \in TypeSteps)
      \/ (AskOthers /\ Handler(Subject) # "ours")
  BY DEF Steady, Load, AskOthers, AskOurs, Truncate, Keep, Associate, Clear, Restore, Entry,
         Launcher, DropBackups, MenuFiles, Modern, Goes, Skip, Doing, TypeSteps, TakeSteps,
         GiveBackSteps
<1> QED
  BY <1>3, <1>4, <1>5, <1>6, <1>7

\* The worker goes on, looks at what it has done, or fails.
LEMMA WorkKinds ==
  ASSUME Plain, Work
  PROVE  /\ UNCHANGED <<os, window>>
         /\ \/ Steady /\ UNCHANGED want
            \/ Looked /\ UNCHANGED <<system, want>>
            \/ Failing /\ Fail
<1>1. CASE Inspect
  <2>1. job.seen \in Snapshots
    BY DEF Plain, TypeOK, Jobs
  <2>2. Snapshot \in Snapshots
    <3>1. Selected \in SUBSET Types
      BY DEF Selected
    <3> QED
      BY <3>1 DEF Snapshot, Snapshots
  <2>3. NoSnapshot \in Snapshots
    BY DEF NoSnapshot, Snapshots
  <2>4. PICK seen \in {Snapshot, NoSnapshot}, failed \in BOOLEAN :
          job' = [job EXCEPT !.pc = "done", !.left = {}, !.selected = {}, !.menu = FALSE,
                             !.held = NoBackups,
                             !.seen = IF job.by = "window" THEN seen ELSE @, !.error = @ \/ failed]
    BY <1>1 DEF Inspect
  <2> DEFINE told == IF job.by = "window" THEN seen ELSE job.seen
  <2>5. told \in Snapshots
    BY <2>1, <2>2, <2>3
  <2>6. job' = [job EXCEPT !.pc = "done", !.left = {}, !.selected = {}, !.menu = FALSE,
                           !.held = NoBackups, !.seen = told, !.error = @ \/ failed]
    BY <2>4
  <2> HIDE DEF told
  <2>7. Looked
    BY <1>1, <2>5, <2>6 DEF Inspect, Doing, Looked
  <2>8. UNCHANGED <<os, window, want>>
    BY <1>1 DEF Inspect, Doing, Fail, Work
  <2> QED
    BY <1>1, <2>7, <2>8 DEF Inspect
<1>2. CASE Fail
  BY <1>2 DEF Fail, Failing, Running, Work
<1> QED
  BY <1>1, <1>2 DEF Work, Steady

\* The window keeps to its types.
LEMMA WindowTyped ==
  ASSUME RegistrationAssumption, TypeOK, [Next]_vars
  PROVE  /\ dialog' \in {"closed", "open", "close?", "remove?"} /\ reload' \in BOOLEAN
         /\ draft' \in Drafts /\ snapshot' \in Snapshots
<1>1. /\ dialog \in {"closed", "open", "close?", "remove?"} /\ reload \in BOOLEAN
      /\ draft \in Drafts /\ snapshot \in Snapshots /\ job.seen \in Snapshots
  BY DEF TypeOK, Jobs
<1>2. ASSUME NEW s \in Snapshots PROVE Chosen(s) \in Drafts
  BY <1>2 DEF Chosen, Drafts, Snapshots
<1>3. NoSnapshot \in Snapshots /\ [types |-> {}, menu |-> FALSE] \in Drafts
  BY DEF NoSnapshot, Snapshots, Drafts
<1>4. CASE UNCHANGED window
  BY <1>1, <1>4 DEF window
<1>5. CASE Dies /\ ~UNCHANGED window
  BY <1>3, <1>5 DEF Dies
<1>6. CASE ShowSettings \/ Refresh
  BY <1>1, <1>6 DEF ShowSettings, Refresh
<1>7. CASE Reload
  BY <1>1, <1>7 DEF Reload, StartIntegration
<1>8. CASE Edit
  BY <1>1, <1>8 DEF Edit
<1>9. CASE PressApply
  BY <1>1, <1>9 DEF PressApply, StartIntegration
<1>10. CASE AskDialog
  BY <1>1, <1>10 DEF AskDialog
<1>11. CASE CancelDialog
  BY <1>1, <1>11 DEF CancelDialog
<1>12. CASE Discard
  BY <1>1, <1>2, <1>12 DEF Discard
<1>13. CASE ConfirmRemove
  BY <1>1, <1>13 DEF ConfirmRemove, StartIntegration
<1>14. CASE PollIntegration
  BY <1>1, <1>2, <1>14 DEF PollIntegration
<1> QED
  BY <1>4, <1>5, <1>6, <1>7, <1>8, <1>9, <1>10, <1>11, <1>12, <1>13, <1>14
     DEF Next, vars, Work, Installer, InstallerEnds, UserChooses, Dies

SystemTyped ==
  /\ chosen \in [Types -> Programs \cup {"ours"}] /\ backups \in Backups
  /\ keys \in [Types -> SUBSET Entries]
  /\ menu \in {"off", "part", "on"} /\ identity \in {"none", "old", "current"}
  /\ {launcher, enabled} \subseteq BOOLEAN

\* A step of the worker keeps the system to its types.
LEMMA SteadyTyped ==
  ASSUME RegistrationAssumption, Plain, Steady
  PROVE  SystemTyped'
<1>1. /\ SystemTyped /\ NoBackups \in Backups
      /\ job.held \in Backups
  BY DEF Plain, TypeOK, SystemTyped, NoBackups, Backups, Jobs
<1>2. CASE UNCHANGED system
  BY <1>1, <1>2 DEF system, SystemTyped
<1>3. CASE Truncate \/ Keep \/ DropBackups
  BY <1>1, <1>3 DEF Truncate, Keep, DropBackups, SystemTyped
<1>4. CASE Associate
  <2>1. job.pc \in TypeSteps
    BY <1>4 DEF Associate, Clear, Restore, Doing, TypeSteps, TakeSteps, GiveBackSteps
  <2>2. Subject \in Types
    BY <2>1, NextTypeIs
  <2>3. Builtin \in Programs /\ Others \subseteq Programs
    BY <2>2 DEF RegistrationAssumption, Programs
  <2>4. chosen[Subject] \in Programs \cup {"ours"} /\ "none" \in Programs
    BY <1>1, <2>2 DEF SystemTyped, Programs
  <2>5. \E p \in Programs \cup {"ours"} : chosen' = [chosen EXCEPT ![Subject] = p]
    BY <1>4, <2>3, <2>4 DEF Associate, Clear, Restore
  <2>6. chosen' \in [Types -> Programs \cup {"ours"}]
    BY <1>1, <2>5 DEF SystemTyped
  <2> QED
    BY <1>1, <1>4, <2>6 DEF Associate, SystemTyped
<1>5. CASE Entry
  <2>1. job.pc \in TypeSteps
    BY <1>5 DEF Entry, Doing, TypeSteps, EntrySteps
  <2>2. Subject \in Types
    BY <2>1, NextTypeIs
  <2>3. keys[Subject] \subseteq Entries
    BY <1>1, <2>2 DEF SystemTyped
  <2>4. \E e \in SUBSET Entries : keys' = [keys EXCEPT ![Subject] = e]
    <3>1. ASSUME NEW x \in Entries
          PROVE  keys[Subject] \cup {x} \in SUBSET Entries /\ keys[Subject] \ {x} \in SUBSET Entries
      BY <2>3
    <3>2. "progid" \in Entries /\ "open with" \in Entries /\ "capability" \in Entries
      BY DEF Entries
    <3> QED
      BY <1>5, <3>1, <3>2 DEF Entry
  <2>5. keys' \in [Types -> SUBSET Entries]
    BY <1>1, <2>4 DEF SystemTyped
  <2> QED
    BY <1>1, <1>5, <2>5 DEF Entry, SystemTyped
<1>6. CASE Launcher
  BY <1>1, <1>6 DEF Launcher, SystemTyped
<1>7. CASE MenuFiles
  BY <1>1, <1>7 DEF MenuFiles, SystemTyped
<1>8. CASE Modern
  BY <1>1, <1>8 DEF Modern, SystemTyped
<1> QED
  BY <1>2, <1>3, <1>4, <1>5, <1>6, <1>7, <1>8 DEF Steady, Load, AskOthers, AskOurs

\* A step that is cut short too.
LEMMA HalfTyped ==
  ASSUME Plain, Half, enabled' \in BOOLEAN
  PROVE  SystemTyped' /\ want' \in [Types -> Programs]
<1>1. SystemTyped
  BY DEF Plain, TypeOK, SystemTyped
<1>2. menu' \in {"off", "part", "on"} /\ launcher' \in BOOLEAN /\ identity' \in {"none", "old", "current"}
  BY <1>1 DEF Half, SystemTyped
<1>3. SystemTyped'
  BY <1>1, <1>2 DEF Half, SystemTyped
<1>4. want \in [Types -> Programs] /\ "none" \in Programs
  BY DEF Plain, TypeOK, Programs
<1>5. want' \in [Types -> Programs]
  BY <1>4 DEF Half
<1> QED
  BY <1>3, <1>5

\* Every step keeps what is said of types and places.
LEMMA PlainStep ==
  ASSUME RegistrationAssumption, Plain, [Next]_vars
  PROVE  Plain'
<1>1. SystemTyped /\ os \in Systems /\ want \in [Types -> Programs]
  BY DEF Plain, TypeOK, SystemTyped
<1>2. SUFFICES /\ SystemTyped' /\ os' = os /\ want' \in [Types -> Programs]
               /\ job' \in Jobs /\ PlacedAt(job')
  <2>1. PlacedAt(job)'
    BY <1>2 DEF PlacedAt
  <2>2. /\ dialog' \in {"closed", "open", "close?", "remove?"} /\ reload' \in BOOLEAN
        /\ draft' \in Drafts /\ snapshot' \in Snapshots
    BY WindowTyped DEF Plain
  <2> QED
    BY <1>1, <1>2, <2>1, <2>2 DEF Plain, TypeOK, SystemTyped
<1>3. CASE Quiet
  <2>1. SystemTyped' /\ os' = os /\ want' = want
    BY <1>1, <1>3 DEF Quiet, SystemTyped, system
  <2>2. job' \in Jobs /\ PlacedAt(job')
    <3>1. CASE UNCHANGED job
      BY <3>1 DEF Plain, TypeOK
    <3>2. CASE Begins
      <4>1. os \in {"linux", "macos", "windows"}
        BY <1>1 DEF RegistrationAssumption
      <4>2. PICK op \in {"apply", "remove", "upgrade", "inspect"}, by \in {"window", "installer"},
                 replaces \in BOOLEAN, selected \in SUBSET Types, on \in BOOLEAN :
              /\ Begin(op, by, replaces, selected, on)
              /\ op # "apply" => selected = {} /\ ~on
              /\ op = "upgrade" => os = "windows"
        BY <3>2 DEF Begins
      <4> QED
        BY <4>1, <4>2, BeginPlaces
    <3>3. CASE Ends
      BY <3>3, EndsPlace
    <3> QED
      BY <1>3, <3>1, <3>2, <3>3 DEF Quiet
  <2> QED
    BY <1>1, <2>1, <2>2
<1>4. CASE Work
  <2>1. os' = os
    BY <1>4, WorkKinds
  <2>2. CASE Steady /\ UNCHANGED want
    BY <1>1, <2>1, <2>2, WorkPlaces, SteadyTyped
  <2>3. CASE Looked /\ UNCHANGED <<system, want>>
    BY <1>1, <2>1, <2>3, LookedPlaces DEF system, SystemTyped
  <2>4. CASE Failing /\ Fail
    <3>1. Half /\ enabled' \in BOOLEAN
      BY <1>1, <2>4 DEF Fail, SystemTyped
    <3> QED
      BY <1>1, <2>1, <2>4, <3>1, HalfTyped, FailingPlaces
  <2> QED
    BY <1>4, <2>2, <2>3, <2>4, WorkKinds
<1>5. CASE UserChooses
  <2>1. Picks \subseteq Programs
    BY DEF RegistrationAssumption, Programs
  <2>2. PICK t \in Types, p \in Picks :
          /\ chosen' = [chosen EXCEPT ![t] = p]
          /\ want' = [want EXCEPT ![t] = IF job.pc \in Held /\ t = Subject THEN "none" ELSE p]
    BY <1>5 DEF UserChooses
  <2>3. chosen' \in [Types -> Programs \cup {"ours"}]
    BY <1>1, <2>1, <2>2 DEF SystemTyped
  <2>5. want' \in [Types -> Programs]
    <3>1. "none" \in Programs
      BY DEF Programs
    <3> QED
      BY <1>1, <2>1, <2>2, <3>1
  <2>4. job' \in Jobs /\ PlacedAt(job')
    BY <1>5 DEF UserChooses, Plain, TypeOK
  <2> QED
    BY <1>1, <1>5, <2>3, <2>4, <2>5 DEF UserChooses, SystemTyped
<1>6. CASE Dies
  <2>1. Half /\ enabled' = enabled /\ Ends
    BY <1>6 DEF Dies, Ends
  <2>2. enabled' \in BOOLEAN
    BY <1>1, <2>1 DEF SystemTyped
  <2> QED
    BY <1>1, <1>6, <2>1, <2>2, HalfTyped, EndsPlace DEF Dies
<1> QED
  BY <1>3, <1>4, <1>5, <1>6, StepKinds

LEMMA PlainInit ==
  ASSUME RegistrationAssumption, Init
  PROVE  Plain
<1>1. NoBackups \in Backups /\ NoSnapshot \in Snapshots /\ "done" \in Steps
  BY AllSteps DEF NoBackups, Backups, NoSnapshot, Snapshots
<1>2. NoJob \in Jobs /\ PlacedAt(NoJob)
  BY <1>1 DEF NoJob, Jobs, PlacedAt, TypeSteps, TakeSteps, GiveBackSteps, EntrySteps, MenuSteps,
              Additions
<1>3. {"none"} \cup (IF os = "windows" THEN {} ELSE Picks) \subseteq Programs
  BY DEF RegistrationAssumption, Programs
<1>4. chosen \in [Types -> Programs]
  BY <1>3 DEF Init
<1>5. chosen \in [Types -> Programs \cup {"ours"}] /\ want \in [Types -> Programs]
  BY <1>4 DEF Init
<1>6. [types |-> {}, menu |-> FALSE] \in Drafts
  BY DEF Drafts
<1> QED
  BY <1>1, <1>2, <1>5, <1>6 DEF Init, Plain, TypeOK, Entries

-----------------------------------------------------------------------------
(* Where the worker's actions lead.                                        *)

Firsts == {"menu off", "enable", "unregister", "ask others", "ask ours", "+progid", "-open with"}

\* The same type is in hand, or the same rest of the work is left.
Stays(step) == job'.pc = step /\ job'.left = job.left /\ job'.held = job.held

\* The type that was in hand is over.
Over ==
  /\ Subject \in job.left /\ Subject \in Types
  /\ job'.left = job.left \ {Subject} /\ job'.held = job.held
  /\ job'.pc \in Firsts
  /\ job'.pc \in {"menu off", "ask others", "ask ours"} <=> os # "windows"

LEMMA Goings ==
  ASSUME RegistrationAssumption, Plain, Goes, job.pc \notin {"inspect", "done"}
  PROVE  /\ job.pc = "truncate" => Stays("keep")
         /\ job.pc = "keep" => Stays("take")
         /\ job.pc = "clear" => Stays("give back")
         /\ job.pc = "ask ours" => Stays(IF os = "linux" THEN "clear" ELSE "give back")
         /\ job.pc \in {"take", "give back", "+capability", "-progid"} => Over
         /\ job.pc = "+progid" => Stays("+open with")
         /\ job.pc = "+open with" => Stays("+capability")
         /\ job.pc = "-open with" => Stays("-capability")
         /\ job.pc = "-capability" => Stays("-progid")
         /\ job.pc = "+launcher" =>
              \E step \in IF os = "windows" THEN Firsts ELSE {"load"} : Stays(step)
         /\ job.pc = "-launcher" =>
              Stays(IF job.op = "apply" THEN "+launcher"
                    ELSE IF os = "windows" THEN "inspect" ELSE "-backups")
         /\ job.pc = "-backups" => Stays("inspect")
         /\ job.pc = "enable" => Stays("register")
         /\ job.pc = "register" => Stays("menu off")
         /\ job.pc = "unregister" => Stays(IF job.op = "upgrade" THEN "inspect" ELSE "disable")
         /\ job.pc = "disable" => Stays("menu off")
         /\ job.pc = "menu off" =>
              Stays(IF job.menu THEN "menu on"
                    ELSE IF job.op = "remove" THEN "-launcher" ELSE "inspect")
         /\ job.pc = "menu on" => Stays("inspect")
<1>1. ASSUME NEW step, Moves(step) PROVE Stays(step)
  BY <1>1 DEF Moves, Stays, Same, Goes
<1>2. /\ job.pc = "truncate" => Stays("keep")
      /\ job.pc = "keep" => Stays("take")
      /\ job.pc = "clear" => Stays("give back")
      /\ job.pc = "ask ours" => Stays(IF os = "linux" THEN "clear" ELSE "give back")
  BY <1>1, MovesTo
<1>3. job.pc \in {"take", "give back", "+capability", "-progid"} => Over
  <2>1. SUFFICES ASSUME job.pc \in {"take", "give back", "+capability", "-progid"} PROVE Over
    OBVIOUS
  <2>2. job.pc \in TypeSteps
    BY <2>1, AllSteps
  <2>3. Onward = NextType
    BY <2>1, Follows
  <2> QED
    BY <2>2, <2>3, NextTypeIs DEF Over, Firsts, Same, Goes
<1>4. /\ job.pc = "+progid" => Stays("+open with")
      /\ job.pc = "+open with" => Stays("+capability")
      /\ job.pc = "-open with" => Stays("-capability")
      /\ job.pc = "-capability" => Stays("-progid")
  BY <1>1, MovesTo
<1>5. job.pc = "+launcher" =>
        \E step \in IF os = "windows" THEN Firsts ELSE {"load"} : Stays(step)
  <2>1. CASE job.pc = "+launcher" /\ os = "windows"
    <3>1. job' = [job EXCEPT !.pc = AtTypes(job)]
      BY <2>1, Follows DEF Goes
    <3>2. AtTypes(job) \in Firsts
      BY DEF AtTypes, AfterTypes, Firsts
    <3>3. Stays(AtTypes(job))
      BY <3>1 DEF Stays, Plain, TypeOK, Jobs
    <3> QED
      BY <2>1, <3>2, <3>3
  <2>2. CASE job.pc = "+launcher" /\ os # "windows"
    BY <1>1, <2>2, MovesTo
  <2> QED
    BY <2>1, <2>2
<1>6. /\ job.pc = "-launcher" =>
           Stays(IF job.op = "apply" THEN "+launcher"
                 ELSE IF os = "windows" THEN "inspect" ELSE "-backups")
      /\ job.pc = "-backups" => Stays("inspect")
  BY <1>1, MovesTo
<1>7. /\ job.pc = "enable" => Stays("register")
      /\ job.pc = "register" => Stays("menu off")
      /\ job.pc = "unregister" => Stays(IF job.op = "upgrade" THEN "inspect" ELSE "disable")
      /\ job.pc = "disable" => Stays("menu off")
  BY <1>1, MovesTo
<1>8. /\ job.pc = "menu off" =>
           Stays(IF job.menu THEN "menu on"
                 ELSE IF job.op = "remove" THEN "-launcher" ELSE "inspect")
      /\ job.pc = "menu on" => Stays("inspect")
  BY <1>1, MovesTo
<1> QED
  BY <1>2, <1>3, <1>4, <1>5, <1>6, <1>7, <1>8

\* The questions and the file's reading change nothing but the job.
LEMMA Asks ==
  ASSUME RegistrationAssumption, Plain, Load \/ AskOthers \/ AskOurs
  PROVE  /\ UNCHANGED system /\ job'.op = job.op /\ job'.error = job.error
         /\ Load => /\ job'.left = job.left /\ job'.pc \in Firsts /\ job'.held = backups
                    /\ os # "windows"
         /\ AskOthers \/ AskOurs => Subject \in job.left /\ Subject \in Types
         /\ AskOthers =>
              \/ Over /\ Handler(Subject) = "ours"
              \/ /\ Handler(Subject) # "ours" /\ job'.left = job.left
                 /\ job'.held = [job.held EXCEPT ![Subject] = Handler(Subject)]
                 /\ job'.pc = IF os = "macos" THEN "truncate" ELSE "keep"
         /\ AskOurs =>
              \/ Over /\ Handler(Subject) # "ours"
              \/ Stays(IF os = "linux" THEN "clear" ELSE "give back")
<1>1. job' \in Jobs /\ job'.op = job.op /\ job'.error = job.error /\ job.pc \notin {"inspect", "done"}
  BY WorkPlaces DEF Steady
<1>2. UNCHANGED system
  BY DEF Load, AskOthers, AskOurs
<1>3. AskOthers \/ AskOurs => job.pc \in TypeSteps
  BY DEF AskOthers, AskOurs, Doing, TypeSteps, TakeSteps, GiveBackSteps
<1>4. (AskOthers \/ AskOurs) /\ Skip => Over
  BY <1>3, NextTypeIs DEF Over, Skip, Firsts, Same
<1>5. Onward \in Jobs /\ Same(Onward)
  BY <1>1, OnwardPlaces
<1>6. ASSUME Load
      PROVE  job'.left = job.left /\ job'.pc \in Firsts /\ job'.held = backups /\ os # "windows"
  <2>1. job' = [Onward EXCEPT !.held = backups] /\ job.pc = "load"
    BY <1>6 DEF Load, Doing
  <2>2. Onward = [job EXCEPT !.pc = AtTypes(job)]
    BY <1>1, <2>1, Follows
  <2>3. AtTypes(job) \in Firsts
    BY DEF AtTypes, AfterTypes, Firsts
  <2>4. Onward.left = job.left /\ Onward.pc = AtTypes(job)
    BY <2>2 DEF Plain, TypeOK, Jobs
  <2>5. os # "windows"
    BY <2>1 DEF Plain, PlacedAt
  <2> QED
    BY <1>5, <2>1, <2>3, <2>4, <2>5 DEF Jobs
<1>7. ASSUME AskOthers, Handler(Subject) # "ours"
      PROVE  /\ job'.left = job.left
             /\ job'.held = [job.held EXCEPT ![Subject] = Handler(Subject)]
             /\ job'.pc = IF os = "macos" THEN "truncate" ELSE "keep"
  <2>1. /\ job' = [Onward EXCEPT !.held = [@ EXCEPT ![Subject] = Handler(Subject)]]
        /\ job.pc = "ask others"
    BY <1>7 DEF AskOthers, Doing
  <2>2. Onward.pc = (IF os = "macos" THEN "truncate" ELSE "keep") /\ Onward.left = job.left
    BY <1>1, <2>1, MovesTo DEF Moves
  <2> QED
    BY <1>5, <2>1, <2>2 DEF Jobs, Same
<1>8. AskOthers =>
        \/ Over /\ Handler(Subject) = "ours"
        \/ /\ Handler(Subject) # "ours" /\ job'.left = job.left
           /\ job'.held = [job.held EXCEPT ![Subject] = Handler(Subject)]
           /\ job'.pc = IF os = "macos" THEN "truncate" ELSE "keep"
  BY <1>4, <1>7 DEF AskOthers
<1>9. AskOurs =>
        \/ Over /\ Handler(Subject) # "ours"
        \/ Stays(IF os = "linux" THEN "clear" ELSE "give back")
  BY <1>1, <1>4, Goings DEF AskOurs, Doing
<1>10. AskOthers \/ AskOurs => Subject \in job.left /\ Subject \in Types
  BY <1>3, NextTypeIs
<1> QED
  BY <1>1, <1>2, <1>6, <1>8, <1>9, <1>10

-----------------------------------------------------------------------------
(* The steps of all the others.                                            *)

\* The work ends in the middle of a step, with the worker or with the process.
Breaks ==
  /\ Half /\ UNCHANGED os /\ job'.pc \in {"inspect", "done"} /\ job'.left = {}
  /\ job'.op # "none" => job'.op = job.op /\ job'.error
  /\ enabled' = enabled \/ (~enabled' /\ job.pc = "register")

\* A job begins.
Starts ==
  /\ UNCHANGED <<os, system, want>> /\ job.pc = "done"
  /\ job'.left = IF job'.op \in {"apply", "remove"} THEN Types ELSE {}
  /\ job'.pc \in {"-launcher", "+launcher", "load", "unregister", "-open with", "inspect"}
  /\ job'.op = "apply" <=> job'.pc \in {"-launcher", "+launcher"}
  /\ job'.pc = "inspect" => job'.op = "inspect"

\* The work is over, looked at, or taken note of.
Closes ==
  /\ UNCHANGED <<os, system, want>> /\ job.pc \in {"inspect", "done"}
  /\ job'.pc = "done" /\ job'.left = {}
  /\ job'.op # "none" =>
       job.pc = "inspect" /\ job.left = {} /\ job'.op = job.op /\ (job.error => job'.error)

LEMMA Kinds ==
  ASSUME RegistrationAssumption, Plain, [Next]_vars
  PROVE  \/ UNCHANGED <<os, system, want, job>> \/ Starts \/ Closes
         \/ Steady /\ UNCHANGED <<os, want>>
         \/ UserChooses \/ Breaks
<1>1. CASE Quiet
  <2>1. CASE Begins
    <3>1. os \in {"linux", "macos", "windows"}
      BY DEF Plain, TypeOK, RegistrationAssumption
    <3>2. PICK op \in {"apply", "remove", "upgrade", "inspect"}, by \in {"window", "installer"},
               replaces \in BOOLEAN, selected \in SUBSET Types, on \in BOOLEAN :
            /\ Begin(op, by, replaces, selected, on)
            /\ op # "apply" => selected = {} /\ ~on
            /\ op = "upgrade" => os = "windows"
      BY <2>1 DEF Begins
    <3>3. /\ job'.op = op
          /\ job'.left = IF op \in {"apply", "remove"} THEN Types ELSE {}
          /\ job'.pc \in {"-launcher", "+launcher", "load", "unregister", "-open with", "inspect"}
          /\ op = "apply" <=> job'.pc \in {"-launcher", "+launcher"}
          /\ job'.pc = "inspect" => op = "inspect"
      BY <3>1, <3>2, BeginPlaces, ZenonT(60)
    <3> QED
      BY <1>1, <2>1, <3>3 DEF Quiet, Starts, Begins, Idle, Plain, PlacedAt
  <2>2. CASE Ends /\ job.pc = "done"
    BY <1>1, <2>2, EndsPlace DEF Quiet, Closes
  <2> QED
    BY <1>1, <2>1, <2>2 DEF Quiet
<1>2. CASE Work
  <2>1. CASE Looked /\ UNCHANGED <<system, want>>
    BY <1>2, <2>1, LookedPlaces, WorkKinds DEF Closes, Looked
  <2>2. CASE Failing /\ Fail
    <3>1. enabled \in BOOLEAN
      BY DEF Plain, TypeOK
    <3>2. enabled' = enabled \/ (~enabled' /\ job.pc = "register")
      BY <2>2, <3>1 DEF Fail
    <3> QED
      BY <1>2, <2>2, <3>2, FailingPlaces, WorkKinds DEF Breaks, Fail
  <2> QED
    BY <1>2, <2>1, <2>2, WorkKinds
<1>3. CASE Dies
  BY <1>3, EndsPlace DEF Dies, Ends, Breaks
<1> QED
  BY <1>1, <1>2, <1>3, StepKinds

-----------------------------------------------------------------------------
(* What points to what.                                                    *)

\* Entries and the identity are of Windows, choices and the file of the others.
LEMMA ApartStep ==
  ASSUME RegistrationAssumption, Plain, Apart, [Next]_vars
  PROVE  Apart'
<1>1. CASE UNCHANGED <<os, system, want, job>> \/ Starts \/ Closes
  <2>1. UNCHANGED <<os, backups, enabled, identity, keys>>
    BY <1>1 DEF Starts, Closes, system
  <2> QED
    BY <2>1 DEF Apart
<1>2. CASE UserChooses
  BY <1>2 DEF UserChooses, Apart
<1>3. CASE Breaks
  <2>1. job.pc = "register" => os = "windows"
    BY DEF Plain, PlacedAt
  <2>2. UNCHANGED <<os, backups, keys>> /\ (os # "windows" => identity' = identity)
    BY <1>3, <2>1 DEF Breaks, Half
  <2>3. os # "windows" => enabled' = enabled
    BY <1>3, <2>1 DEF Breaks
  <2> QED
    BY <2>2, <2>3 DEF Apart
<1>4. CASE Steady /\ UNCHANGED <<os, want>>
  <2>1. CASE os = "windows"
    <3>1. ~Truncate /\ ~Keep /\ ~DropBackups
      BY <2>1 DEF Plain, PlacedAt, Truncate, Keep, DropBackups, Doing, TakeSteps
    <3>2. backups' = backups
      BY <1>4, <3>1 DEF Steady, Load, AskOthers, AskOurs, Associate, Entry, Launcher, MenuFiles,
                        Modern, system
    <3> QED
      BY <1>4, <2>1, <3>2 DEF Apart
  <2>2. CASE os # "windows"
    <3>1. ~Entry /\ ~Modern
      BY <2>2 DEF Plain, PlacedAt, Entry, Modern, Doing, EntrySteps
    <3>2. UNCHANGED <<keys, enabled, identity>>
      BY <1>4, <3>1 DEF Steady, Load, AskOthers, AskOurs, Truncate, Keep, Associate, Launcher,
                        DropBackups, MenuFiles, system
    <3> QED
      BY <1>4, <2>2, <3>2 DEF Apart
  <2> QED
    BY <2>1, <2>2
<1> QED
  BY <1>1, <1>2, <1>3, <1>4, Kinds

\* The worker's places in the entries of a type.
LEMMA EntryGoes ==
  ASSUME RegistrationAssumption, Plain, Entry
  PROVE  /\ Subject \in job.left /\ Subject \in Types /\ os = "windows"
         /\ job.pc \in {"+progid", "+open with", "-open with", "-capability"} =>
              job'.left = job.left /\ Subject' = Subject
         /\ job.pc = "+progid" => job'.pc = "+open with"
         /\ job.pc = "+open with" => job'.pc = "+capability"
         /\ job.pc = "-open with" => job'.pc = "-capability"
         /\ job.pc = "-capability" => job'.pc = "-progid"
         /\ job.pc \in {"+capability", "-progid"} => Over
<1>1. job.pc \in EntrySteps /\ job.pc \in TypeSteps /\ job.pc \notin {"inspect", "done"} /\ Goes
  BY DEF Entry, Doing, EntrySteps, TypeSteps
<1>2. Subject \in job.left /\ Subject \in Types /\ os = "windows"
  BY <1>1, NextTypeIs DEF Plain, PlacedAt
<1>3. job.pc \in {"+progid", "+open with", "-open with", "-capability"} => job'.left = job.left
  BY <1>1, Goings DEF Stays
<1>4. job.pc \in {"+progid", "+open with", "-open with", "-capability"} => Subject' = Subject
  BY <1>3 DEF Subject
<1> QED
  BY <1>1, <1>2, <1>3, <1>4, Goings DEF Stays

\* What a step does to the entries of a type.
LEMMA RootedStep ==
  ASSUME RegistrationAssumption, Plain, Rooted, [Next]_vars
  PROVE  Rooted'
<1> DEFINE Marked == {"+open with", "+capability", "-capability", "-progid"}
<1>1. keys \in [Types -> SUBSET Entries]
  BY DEF Plain, TypeOK
<1>2. ASSUME keys' = keys, job'.pc \notin Marked PROVE Rooted'
  BY <1>2 DEF Rooted
<1>3. CASE UNCHANGED <<os, system, want, job>>
  BY <1>3 DEF system, Rooted, Subject
<1>4. CASE Starts \/ Closes
  BY <1>2, <1>4 DEF Starts, Closes, system
<1>5. CASE UserChooses
  BY <1>5 DEF UserChooses, Rooted, Subject
<1>6. CASE Breaks
  BY <1>2, <1>6 DEF Breaks, Half
<1>7. CASE Load \/ AskOthers \/ AskOurs
  <2>1. keys' = keys
    BY <1>7, Asks DEF system
  <2>2. job'.pc \notin Marked
    BY <1>7, Asks DEF Firsts, Over, Stays
  <2> QED
    BY <1>2, <2>1, <2>2
<1>8. CASE Truncate \/ Keep \/ DropBackups \/ Associate
  <2>1. /\ keys' = keys /\ Goes
        /\ job.pc \in {"truncate", "keep", "-backups", "take", "clear", "give back"}
    BY <1>8 DEF Truncate, Keep, DropBackups, Associate, Clear, Restore, Doing
  <2>2. job'.pc \notin Marked
    BY <2>1, Goings DEF Firsts, Over, Stays
  <2> QED
    BY <1>2, <2>1, <2>2
<1>9. CASE Launcher \/ MenuFiles \/ Modern
  <2>1. /\ keys' = keys /\ Goes
        /\ job.pc \in {"-launcher", "+launcher"} \cup MenuSteps
    BY <1>9 DEF Launcher, MenuFiles, Modern, Doing, MenuSteps
  <2>2. job'.pc \notin Marked
    BY <2>1, Goings DEF Firsts, Over, Stays, MenuSteps
  <2> QED
    BY <1>2, <2>1, <2>2
<1>10. CASE Entry
  <2>1. /\ Subject \in Types /\ keys[Subject] \subseteq Entries
        /\ \A t \in Types : keys[t] # {} => "progid" \in keys[t]
    BY <1>1, <1>10, EntryGoes DEF Rooted
  <2>2. CASE Doing("+progid")
    <3>1. keys' = [keys EXCEPT ![Subject] = @ \cup {"progid"}]
      BY <1>10, <2>2 DEF Entry, Doing
    <3>2. job'.pc = "+open with" /\ Subject' = Subject
      BY <1>10, <2>2, EntryGoes DEF Doing
    <3> QED
      BY <1>1, <2>1, <3>1, <3>2 DEF Rooted
  <2>3. CASE Doing("+open with")
    <3>1. keys' = [keys EXCEPT ![Subject] = @ \cup {"open with"}]
      BY <1>10, <2>3 DEF Entry, Doing
    <3>2. job'.pc = "+capability" /\ Subject' = Subject
      BY <1>10, <2>3, EntryGoes DEF Doing
    <3>3. "progid" \in keys[Subject]
      BY <2>3 DEF Rooted, Doing
    <3> QED
      BY <1>1, <2>1, <3>1, <3>2, <3>3 DEF Rooted
  <2>4. CASE Doing("+capability")
    <3>1. keys' = [keys EXCEPT ![Subject] = @ \cup {"capability"}]
      BY <1>10, <2>4 DEF Entry, Doing
    <3>2. job'.pc \notin Marked
      BY <1>10, <2>4, EntryGoes DEF Doing, Over, Firsts
    <3>3. "progid" \in keys[Subject]
      BY <2>4 DEF Rooted, Doing
    <3> QED
      BY <1>1, <2>1, <3>1, <3>2, <3>3 DEF Rooted
  <2>5. CASE Doing("-open with")
    <3>1. keys' = [keys EXCEPT ![Subject] = @ \ {"open with"}]
      BY <1>10, <2>5 DEF Entry, Doing
    <3>2. job'.pc = "-capability" /\ Subject' = Subject
      BY <1>10, <2>5, EntryGoes DEF Doing
    <3> QED
      BY <1>1, <2>1, <3>1, <3>2 DEF Rooted
  <2>6. CASE Doing("-capability")
    <3>1. keys' = [keys EXCEPT ![Subject] = @ \ {"capability"}]
      BY <1>10, <2>6 DEF Entry, Doing
    <3>2. job'.pc = "-progid" /\ Subject' = Subject
      BY <1>10, <2>6, EntryGoes DEF Doing
    <3>3. "open with" \notin keys[Subject]
      BY <2>6 DEF Rooted, Doing
    <3> QED
      BY <1>1, <2>1, <3>1, <3>2, <3>3 DEF Rooted
  <2>7. CASE Doing("-progid")
    <3>1. keys' = [keys EXCEPT ![Subject] = @ \ {"progid"}]
      BY <1>10, <2>7 DEF Entry, Doing
    <3>2. job'.pc \notin Marked
      BY <1>10, <2>7, EntryGoes DEF Doing, Over, Firsts
    <3>3. "open with" \notin keys[Subject] /\ "capability" \notin keys[Subject]
      BY <2>7 DEF Rooted, Doing
    <3>4. keys'[Subject] = {}
      BY <1>1, <2>1, <3>1, <3>3 DEF Entries
    <3> QED
      BY <1>1, <2>1, <3>1, <3>2, <3>4 DEF Rooted
  <2> QED
    BY <1>10, <2>2, <2>3, <2>4, <2>5, <2>6, <2>7 DEF Entry
<1> QED
  BY <1>3, <1>4, <1>5, <1>6, <1>7, <1>8, <1>9, <1>10, Kinds DEF Steady

-----------------------------------------------------------------------------
(* What a removal gives back.                                              *)

\* The worker's places in the choices of a type.
LEMMA ChoiceGoes ==
  ASSUME RegistrationAssumption, Plain, Associate
  PROVE  /\ Subject \in job.left /\ Subject \in Types /\ os # "windows"
         /\ job.pc \in {"take", "clear", "give back"}
         /\ job.pc \in {"take", "give back"} => Over
         /\ job.pc = "take" => job.op = "apply"
         /\ job.pc = "clear" => Stays("give back") /\ Subject' = Subject
         /\ job'.op = job.op /\ job'.error = job.error
<1>1. job.pc \in {"take", "clear", "give back"} /\ Goes
  BY DEF Associate, Clear, Restore, Doing
<1>2. job.pc \in TypeSteps
  BY <1>1, AllSteps
<1>3. Subject \in job.left /\ Subject \in Types
  BY <1>2, NextTypeIs
<1>4. os # "windows" /\ (job.pc = "take" => job.op = "apply")
  BY <1>1 DEF Plain, PlacedAt, TakeSteps, GiveBackSteps
<1>5. /\ job.pc \in {"take", "give back"} => Over
      /\ job.pc = "clear" => Stays("give back")
  BY <1>1, Goings
<1>6. job.pc = "clear" => Subject' = Subject
  BY <1>5 DEF Stays, Subject
<1>7. job'.op = job.op /\ job'.error = job.error
  BY WorkPlaces DEF Steady
<1> QED
  BY <1>1, <1>3, <1>4, <1>5, <1>6, <1>7

\* What a choice becomes.
LEMMA ChoiceBecomes ==
  ASSUME RegistrationAssumption, Plain, Associate
  PROVE  /\ \A t \in Types : t # Subject => chosen'[t] = chosen[t]
         /\ job.pc = "take" => chosen'[Subject] = "ours"
         /\ job.pc = "clear" =>
              chosen'[Subject] = IF chosen[Subject] = "ours" THEN "none" ELSE chosen[Subject]
         /\ job.pc = "give back" =>
              chosen'[Subject] = IF job.held[Subject] \in Others THEN job.held[Subject]
                                 ELSE IF os = "macos" THEN Builtin ELSE chosen[Subject]
<1>1. chosen \in [Types -> Programs \cup {"ours"}] /\ Subject \in Types
  BY ChoiceGoes DEF Plain, TypeOK
<1>2. /\ job.pc = "take" => chosen' = [chosen EXCEPT ![Subject] = "ours"]
      /\ job.pc = "clear" =>
           chosen' = [chosen EXCEPT ![Subject] = IF @ = "ours" THEN "none" ELSE @]
      /\ job.pc = "give back" =>
           chosen' = [chosen EXCEPT ![Subject] =
             IF job.held[Subject] \in Others THEN job.held[Subject]
             ELSE IF os = "macos" THEN Builtin ELSE @]
  BY DEF Associate, Clear, Restore, Doing
<1> QED
  BY <1>1, <1>2, ChoiceGoes

\* What is not taken from a type stays given back.
LEMMA FreedStep ==
  ASSUME RegistrationAssumption, Plain, Rooted, Freed, Cleared, [Next]_vars
  PROVE  Freed' /\ Cleared'
<1>1. /\ chosen \in [Types -> Programs \cup {"ours"}] /\ keys \in [Types -> SUBSET Entries]
      /\ job.left \in SUBSET Types
  BY DEF Plain, TypeOK, Jobs
<1>2. Picks \cap {"ours"} = {} /\ Others \cap {"ours"} = {}
  BY DEF RegistrationAssumption
<1>3. ASSUME UNCHANGED <<os, chosen, keys>>, job'.pc # "give back", job'.left = job.left,
             job'.op = job.op, job'.error = job.error
      PROVE  Freed' /\ Cleared'
  BY <1>3 DEF Freed, Cleared
<1>4. CASE UNCHANGED <<os, system, want, job>>
  BY <1>4 DEF system, Freed, Cleared, Subject
<1>5. CASE Starts
  BY <1>5 DEF Starts, Freed, Cleared
<1>6. CASE Closes
  <2>1. Cleared'
    BY <1>6 DEF Closes, Cleared
  <2>2. Freed'
    BY <1>6 DEF Closes, Freed, system
  <2> QED
    BY <2>1, <2>2
<1>7. CASE UserChooses
  <2>1. PICK t \in Types, p \in Picks : chosen' = [chosen EXCEPT ![t] = p]
    BY <1>7 DEF UserChooses
  <2>2. UNCHANGED <<os, keys, job>> /\ os # "windows"
    BY <1>7 DEF UserChooses
  <2>3. Cleared'
    <3>1. os = "linux" /\ job.pc = "give back" => Subject \in Types
      <4>1. job.pc = "give back" => job.pc \in TypeSteps
        BY AllSteps
      <4> QED
        BY <4>1, NextTypeIs
    <3> QED
      BY <1>1, <1>2, <2>1, <2>2, <3>1 DEF Cleared, Subject
  <2>4. Freed'
    BY <1>1, <1>2, <2>1, <2>2 DEF Freed
  <2> QED
    BY <2>3, <2>4
<1>8. CASE Breaks
  BY <1>8 DEF Breaks, Freed, Cleared
<1>9. CASE Steady /\ UNCHANGED <<os, want>>
  <2>1. job'.op = job.op /\ job'.error = job.error
    BY <1>9, WorkPlaces
  <2>2. CASE Load
    <3>1. UNCHANGED <<chosen, keys>> /\ job'.left = job.left /\ job'.pc # "give back"
      BY <2>2, Asks DEF system, Firsts
    <3> QED
      BY <1>3, <1>9, <2>1, <3>1
  <2>3. CASE AskOthers
    <3>1. UNCHANGED <<chosen, keys>>
      BY <2>3, Asks DEF system
    <3>2. job.op = "apply" /\ job'.pc # "give back"
      <4>1. job.pc = "ask others"
        BY <2>3 DEF AskOthers, Doing
      <4> QED
        BY <2>3, <4>1, Asks DEF Plain, PlacedAt, TakeSteps, Over, Firsts
    <3> QED
      BY <2>1, <3>2 DEF Freed, Cleared
  <2>4. CASE AskOurs
    <3>1. UNCHANGED <<chosen, keys>> /\ Subject \in Types
      BY <2>4, Asks DEF system
    <3>2. os # "windows"
      BY <2>4 DEF AskOurs, Doing, Plain, PlacedAt, GiveBackSteps
    <3>3. CASE Over /\ Handler(Subject) # "ours"
      <4>1. chosen[Subject] # "ours"
        BY <3>1, <3>3, HandlerIs DEF Plain
      <4>2. job'.pc # "give back" /\ job'.left = job.left \ {Subject}
        BY <3>3 DEF Over, Firsts
      <4> QED
        BY <1>9, <2>1, <3>1, <3>2, <4>1, <4>2 DEF Freed, Cleared
    <3>4. CASE Stays(IF os = "linux" THEN "clear" ELSE "give back")
      BY <1>9, <2>1, <3>1, <3>2, <3>4 DEF Stays, Freed, Cleared
    <3> QED
      BY <2>4, <3>3, <3>4, Asks
  <2>5. CASE Truncate \/ Keep \/ DropBackups
    <3>1. /\ UNCHANGED <<chosen, keys>> /\ Goes
          /\ job.pc \in {"truncate", "keep", "-backups"}
      BY <2>5 DEF Truncate, Keep, DropBackups, Doing
    <3>2. job'.pc # "give back" /\ job'.left = job.left
      BY <3>1, Goings DEF Stays
    <3> QED
      BY <1>3, <1>9, <2>1, <3>1, <3>2
  <2>6. CASE Launcher \/ MenuFiles \/ Modern
    <3>1. /\ UNCHANGED <<chosen, keys>> /\ Goes
          /\ job.pc \in {"-launcher", "+launcher"} \cup MenuSteps
      BY <2>6 DEF Launcher, MenuFiles, Modern, Doing, MenuSteps
    <3>2. job'.pc # "give back" /\ job'.left = job.left
      BY <3>1, Goings DEF Stays, MenuSteps, Firsts
    <3> QED
      BY <1>3, <1>9, <2>1, <3>1, <3>2
  <2>7. CASE Associate
    <3>1. keys' = keys
      BY <2>7 DEF Associate
    <3>2. CASE job.pc = "take"
      <4>1. job.op = "apply" /\ job'.pc # "give back"
        BY <2>7, <3>2, ChoiceGoes DEF Over, Firsts
      <4> QED
        BY <2>1, <4>1 DEF Freed, Cleared
    <3>3. CASE job.pc = "clear"
      <4>1. chosen'[Subject] # "ours" /\ \A t \in Types : t # Subject => chosen'[t] = chosen[t]
        BY <1>1, <2>7, <3>3, ChoiceBecomes
      <4>2. Subject' = Subject /\ job'.left = job.left /\ os # "windows" /\ Subject \in job.left
        BY <2>7, <3>3, ChoiceGoes DEF Stays
      <4> QED
        BY <1>9, <2>1, <4>1, <4>2 DEF Freed, Cleared
    <3>4. CASE job.pc = "give back"
      <4>1. Builtin # "ours" /\ os \in {"linux", "macos", "windows"}
        BY <2>7, ChoiceGoes DEF RegistrationAssumption, Plain, TypeOK
      <4>2. chosen'[Subject] # "ours" /\ \A t \in Types : t # Subject => chosen'[t] = chosen[t]
        BY <1>2, <2>7, <3>4, <4>1, ChoiceBecomes, ChoiceGoes DEF Cleared
      <4>3. job'.left = job.left \ {Subject} /\ os # "windows" /\ job'.pc # "give back"
        BY <2>7, <3>4, ChoiceGoes DEF Over, Firsts
      <4> QED
        BY <1>9, <2>1, <4>2, <4>3 DEF Freed, Cleared
    <3> QED
      BY <2>7, <3>2, <3>3, <3>4, ChoiceGoes
  <2>8. CASE Entry
    <3>1. os = "windows" /\ Subject \in job.left /\ Subject \in Types
      BY <2>8, EntryGoes
    <3>2. \A t \in Types : t # Subject => keys'[t] = keys[t]
      BY <1>1, <2>8 DEF Entry
    <3>3. Cleared'
      BY <1>9, <3>1 DEF Cleared
    <3>4. CASE job.pc = "-progid"
      <4>1. keys' = [keys EXCEPT ![Subject] = @ \ {"progid"}]
        BY <2>8, <3>4 DEF Entry, Doing
      <4>2. "open with" \notin keys[Subject] /\ "capability" \notin keys[Subject]
        BY <3>4 DEF Rooted
      <4>3. keys'[Subject] = {}
        BY <1>1, <3>1, <4>1, <4>2 DEF Entries
      <4>4. job'.left = job.left \ {Subject}
        BY <2>8, <3>4, EntryGoes DEF Over
      <4> QED
        BY <1>9, <2>1, <3>1, <3>2, <3>3, <4>3, <4>4 DEF Freed
    <3>5. CASE job.pc \in {"-open with", "-capability"}
      <4>1. job'.left = job.left
        BY <2>8, <3>5, EntryGoes
      <4> QED
        BY <1>9, <2>1, <3>1, <3>2, <3>3, <4>1 DEF Freed
    <3>6. CASE job.pc \in Additions
      <4>1. job.op = "apply"
        BY <3>6 DEF Plain, PlacedAt
      <4> QED
        BY <2>1, <3>3, <4>1 DEF Freed
    <3> QED
      BY <2>8, <3>4, <3>5, <3>6 DEF Entry, Doing, Additions
  <2> QED
    BY <1>9, <2>2, <2>3, <2>4, <2>5, <2>6, <2>7, <2>8 DEF Steady
<1> QED
  BY <1>4, <1>5, <1>6, <1>7, <1>8, <1>9, Kinds

-----------------------------------------------------------------------------
(* The desktop entry, and what a removal leaves.                           *)

\* On Linux this program is nobody's default without its desktop entry.
LEMMA LaunchedStep ==
  ASSUME RegistrationAssumption, Plain, Freed, Cleared, Launched, [Next]_vars
  PROVE  Launched'
<1> DEFINE Ahead == {"-launcher", "+launcher", "inspect", "done"}
<1>1. chosen \in [Types -> Programs \cup {"ours"}] /\ launcher \in BOOLEAN
  BY DEF Plain, TypeOK
<1>2. Picks \cap {"ours"} = {} /\ Others \cap {"ours"} = {}
  BY DEF RegistrationAssumption
<1>3. ASSUME UNCHANGED <<os, chosen, launcher>>,
             job'.op = "apply" /\ job'.pc \notin Ahead => job.op = "apply" /\ job.pc \notin Ahead
      PROVE  Launched'
  BY <1>3 DEF Launched
<1>4. CASE UNCHANGED <<os, system, want, job>>
  BY <1>3, <1>4 DEF system
<1>5. CASE Starts
  <2>1. job'.op = "apply" => job'.pc \in Ahead
    BY <1>5 DEF Starts
  <2> QED
    BY <1>3, <1>5, <2>1 DEF Starts, system
<1>6. CASE Closes
  BY <1>3, <1>6 DEF Closes, system
<1>7. CASE UserChooses
  <2>1. PICK t \in Types, p \in Picks : chosen' = [chosen EXCEPT ![t] = p]
    BY <1>7 DEF UserChooses
  <2>2. UNCHANGED <<os, launcher, job>>
    BY <1>7 DEF UserChooses
  <2> QED
    BY <1>1, <1>2, <2>1, <2>2 DEF Launched
<1>8. CASE Breaks
  <2>1. UNCHANGED <<os, chosen>> /\ (launcher => launcher') /\ job'.pc \in Ahead
    BY <1>8 DEF Breaks, Half
  <2> QED
    BY <2>1 DEF Launched
<1>9. CASE Steady /\ UNCHANGED <<os, want>>
  <2>1. job'.op = job.op /\ job'.error = job.error /\ job.pc \notin {"inspect", "done"}
    BY <1>9, WorkPlaces
  <2>2. CASE job.pc \notin {"+launcher", "-launcher"} /\ ~Associate
    <3>1. UNCHANGED <<chosen, launcher>>
      BY <1>9, <2>2 DEF Steady, Load, AskOthers, AskOurs, Truncate, Keep, Entry, Launcher,
                        DropBackups, MenuFiles, Modern, Doing, system
    <3> QED
      BY <1>3, <1>9, <2>1, <2>2, <3>1
  <2>3. CASE Associate
    <3>1. launcher' = launcher /\ job.pc \in {"take", "clear", "give back"}
      BY <2>3, ChoiceGoes DEF Associate
    <3>2. os = "linux" => (chosen'[Subject] = "ours" => launcher)
      <4>1. CASE job.pc = "take"
        BY <2>3, <4>1, ChoiceGoes DEF Launched
      <4>2. CASE job.pc = "clear"
        BY <2>3, <4>2, ChoiceBecomes
      <4>3. CASE job.pc = "give back"
        BY <1>2, <2>3, <4>3, ChoiceBecomes DEF Cleared
      <4> QED
        BY <3>1, <4>1, <4>2, <4>3
    <3>3. \A t \in Types : t # Subject => chosen'[t] = chosen[t]
      BY <2>3, ChoiceBecomes
    <3>4. job'.op = "apply" => launcher
      BY <2>1, <3>1 DEF Launched
    <3> QED
      BY <1>9, <3>1, <3>2, <3>3, <3>4 DEF Launched
  <2>4. CASE job.pc = "+launcher"
    <3>1. chosen' = chosen /\ launcher' = TRUE
      BY <1>9, <2>4 DEF Steady, Load, AskOthers, AskOurs, Truncate, Keep, Entry, Launcher,
                        DropBackups, MenuFiles, Modern, Associate, Clear, Restore, Doing
    <3> QED
      BY <3>1 DEF Launched
  <2>5. CASE job.pc = "-launcher"
    <3>1. chosen' = chosen /\ Goes
      BY <1>9, <2>5 DEF Steady, Load, AskOthers, AskOurs, Truncate, Keep, Entry, Launcher,
                        DropBackups, MenuFiles, Modern, Associate, Clear, Restore, Doing
    <3>2. job'.op = "apply" => job'.pc \in Ahead
      BY <2>1, <2>5, <3>1, Goings DEF Stays
    <3>3. os = "linux" => \A t \in Types : chosen[t] # "ours"
      <4>1. os = "linux" => job.op = "remove" /\ job.left = {} /\ ~job.error
        BY <2>5 DEF Plain, PlacedAt
      <4> QED
        BY <4>1 DEF Freed
    <3> QED
      BY <1>9, <3>1, <3>2, <3>3 DEF Launched
  <2> QED
    BY <2>2, <2>3, <2>4, <2>5
<1> QED
  BY <1>4, <1>5, <1>6, <1>7, <1>8, <1>9, Kinds

\* What a removal is through with stays removed.
LEMMA GoneStep ==
  ASSUME RegistrationAssumption, Plain, Apart, GoneInv, [Next]_vars
  PROVE  GoneInv'
<1> DEFINE Late == {"disable", "menu off", "-launcher", "-backups", "inspect", "done"}
<1>1. ASSUME job'.op = "remove" /\ ~job'.error => job'.pc \notin Late
      PROVE  GoneInv'
  BY <1>1 DEF GoneInv
<1>2. CASE UNCHANGED <<os, system, want, job>>
  BY <1>2 DEF system, GoneInv
<1>3. CASE Starts
  BY <1>1, <1>3 DEF Starts
<1>4. CASE Closes
  <2>1. UNCHANGED <<launcher, menu, backups, enabled, identity>>
    BY <1>4 DEF Closes, system
  <2>2. job'.op = "remove" /\ ~job'.error => job.op = "remove" /\ ~job.error /\ job.pc = "inspect"
    BY <1>4 DEF Closes
  <2> QED
    BY <2>1, <2>2 DEF GoneInv
<1>5. CASE UserChooses
  BY <1>5 DEF UserChooses, GoneInv
<1>6. CASE Breaks
  BY <1>1, <1>6 DEF Breaks
<1>7. CASE Steady /\ UNCHANGED <<os, want>>
  <2>1. SUFFICES ASSUME job.op = "remove", ~job.error PROVE GoneInv'
    BY <1>1, <1>7, WorkPlaces
  <2>2. ~job.menu
    BY <2>1 DEF Plain, PlacedAt
  <2>3. CASE Load \/ AskOthers \/ AskOurs
    <3>1. job'.pc \notin Late \ {"menu off"}
      BY <2>3, Asks DEF Over, Stays, Firsts
    <3>2. os # "windows" /\ UNCHANGED system
      BY <2>3, Asks DEF Load, AskOthers, AskOurs, Doing, Plain, PlacedAt, TakeSteps, GiveBackSteps
    <3> QED
      BY <1>7, <3>1, <3>2 DEF GoneInv, Apart, system
  <2>4. CASE Truncate \/ Keep \/ Associate
    <3>1. job.pc \in {"truncate", "keep", "take", "clear", "give back"} /\ Goes
      BY <2>4 DEF Truncate, Keep, Associate, Clear, Restore, Doing
    <3>2. job'.pc \notin Late \ {"menu off"}
      BY <3>1, Goings DEF Over, Stays, Firsts
    <3>3. os # "windows" /\ UNCHANGED <<enabled, identity>>
      BY <2>4, <3>1 DEF Truncate, Keep, Associate, Plain, PlacedAt, TakeSteps, GiveBackSteps
    <3> QED
      BY <1>7, <3>2, <3>3 DEF GoneInv, Apart
  <2>5. CASE Entry
    <3>1. job'.pc \notin Late
      BY <2>5, EntryGoes DEF Over, Firsts, Entry, Doing
    <3> QED
      BY <1>1, <3>1
  <2>6. CASE Modern
    <3>1. job.pc \in {"unregister", "disable"} /\ Goes
      BY <2>1, <2>6 DEF Modern, Doing, Plain, PlacedAt
    <3>2. CASE job.pc = "unregister"
      <4>1. identity' = "none" /\ job'.pc = "disable"
        BY <2>1, <2>6, <3>1, <3>2, Goings DEF Modern, Doing, Stays
      <4> QED
        BY <4>1 DEF GoneInv
    <3>3. CASE job.pc = "disable"
      <4>1. identity' = "none" /\ ~enabled' /\ job'.pc = "menu off"
        BY <2>1, <2>6, <3>1, <3>3, Goings DEF Modern, Doing, Stays, GoneInv
      <4> QED
        BY <4>1 DEF GoneInv
    <3> QED
      BY <3>1, <3>2, <3>3
  <2>7. CASE MenuFiles
    <3>1. job.pc = "menu off" /\ menu' = "off" /\ Goes /\ UNCHANGED <<enabled, identity>>
      BY <2>1, <2>7 DEF MenuFiles, Doing, Plain, PlacedAt
    <3>2. job'.pc = "-launcher"
      BY <2>1, <2>2, <3>1, Goings DEF Stays
    <3> QED
      BY <2>1, <3>1, <3>2 DEF GoneInv
  <2>8. CASE Launcher
    <3>1. /\ job.pc = "-launcher" /\ launcher' = FALSE /\ Goes
          /\ UNCHANGED <<menu, backups, enabled, identity>>
      BY <2>1, <2>8 DEF Launcher, Doing, Plain, PlacedAt
    <3>2. job'.pc = IF os = "windows" THEN "inspect" ELSE "-backups"
      BY <2>1, <3>1, Goings DEF Stays
    <3> QED
      BY <2>1, <3>1, <3>2 DEF GoneInv, Apart
  <2>9. CASE DropBackups
    <3>1. /\ job.pc = "-backups" /\ backups' = NoBackups /\ Goes
          /\ UNCHANGED <<menu, launcher, enabled, identity>>
      BY <2>9 DEF DropBackups, Doing
    <3>2. job'.pc = "inspect"
      BY <3>1, Goings DEF Stays
    <3> QED
      BY <2>1, <3>1, <3>2 DEF GoneInv
  <2> QED
    BY <1>7, <2>3, <2>4, <2>5, <2>6, <2>7, <2>8, <2>9 DEF Steady
<1> QED
  BY <1>2, <1>3, <1>4, <1>5, <1>6, <1>7, Kinds

-----------------------------------------------------------------------------
(* What the user had before.                                               *)

\* A step between types, or off the types, that leaves choices and file as they are.
LEMMA ChoiceStays ==
  ASSUME TypeOK, ChoiceInv, UNCHANGED <<os, chosen, backups, want>>,
         os = "linux" => job.pc # "give back",
         os = "macos" => job.pc # "keep",
         job'.pc \notin Held,
         \/ job'.pc \notin TakeSteps \cup GiveBackSteps
         \/ job.pc \in TakeSteps \cup GiveBackSteps /\ job'.held = job.held
         \/ job'.held = backups
  PROVE  ChoiceInv'
<1>1. job'.pc # "keep" /\ job'.pc # "give back" /\ job'.pc # "take"
  BY AllSteps
<1> SUFFICES ASSUME os # "windows", NEW t \in Types, Was(t)
             PROVE  /\ chosen[t] \in {want[t], "ours"}
                    /\ chosen[t] # want[t] =>
                         /\ backups[t] = want[t]
                         /\ job'.pc \in TakeSteps \cup GiveBackSteps => job'.held[t] = want[t]
  BY <1>1 DEF ChoiceInv, Was
<1>2. chosen[t] \in {want[t], "ours"}
  BY DEF ChoiceInv
<1>3. chosen[t] # want[t] =>
        /\ backups[t] = want[t]
        /\ job.pc \in TakeSteps \cup GiveBackSteps => job.held[t] = want[t]
  BY DEF ChoiceInv
<1> QED
  BY <1>2, <1>3

\* The questions: who is not asked about was chosen by nobody, or is held.
LEMMA ChoiceAsks ==
  ASSUME RegistrationAssumption, Plain, ChoiceInv, Load \/ AskOthers \/ AskOurs,
         UNCHANGED <<os, want>>
  PROVE  ChoiceInv'
<1>1. /\ UNCHANGED <<os, chosen, backups, want>>
      /\ job.pc \in {"load", "ask others", "ask ours"}
  BY Asks DEF system, Load, AskOthers, AskOurs, Doing
<1>2. Firsts \cap Held = {}
  BY AllSteps DEF Firsts
<1>3. CASE Load
  <2>1. job'.pc \notin Held /\ job'.held = backups
    BY <1>2, <1>3, Asks
  <2> QED
    BY <1>1, <2>1, ChoiceStays DEF Plain
<1>4. CASE (AskOthers \/ AskOurs) /\ Over
  <2>1. /\ job'.pc \notin Held /\ job'.held = job.held
        /\ job.pc \in TakeSteps \cup GiveBackSteps
    BY <1>2, <1>4 DEF Over, AskOthers, AskOurs, Doing, TakeSteps, GiveBackSteps
  <2> QED
    BY <1>1, <2>1, ChoiceStays DEF Plain
<1>5. CASE AskOthers /\ ~Over
  <2>1. /\ Handler(Subject) # "ours" /\ job'.left = job.left
        /\ job'.held = [job.held EXCEPT ![Subject] = Handler(Subject)]
        /\ job'.pc = IF os = "macos" THEN "truncate" ELSE "keep"
        /\ Subject \in Types /\ job.pc = "ask others"
    BY <1>5, Asks DEF AskOthers, Doing
  <2>2. Subject' = Subject /\ job'.pc \in {"truncate", "keep"}
    BY <2>1 DEF Subject
  <2>3. os # "windows" /\ job.held \in Backups
    BY <2>1 DEF Plain, TypeOK, PlacedAt, TakeSteps, Jobs
  <2>4. Was(Subject) => chosen[Subject] = want[Subject] /\ Handler(Subject) = want[Subject]
    <3>1. Was(Subject) => chosen[Subject] \in {want[Subject], "ours"}
      BY <2>1, <2>3 DEF ChoiceInv
    <3>2. chosen[Subject] # "none" => Handler(Subject) = chosen[Subject]
      BY <2>1, HandlerIs DEF Plain
    <3> QED
      BY <2>1, <3>1, <3>2 DEF Was
  <2>5. /\ job'.held[Subject] = Handler(Subject)
        /\ \A t \in Types : t # Subject => job'.held[t] = job.held[t]
    BY <2>1, <2>3 DEF Backups
  <2>6. \A t \in Types : Was(t) =>
          /\ chosen[t] \in {want[t], "ours"}
          /\ chosen[t] # want[t] => backups[t] = want[t] /\ job.held[t] = want[t]
    BY <2>1, <2>3 DEF ChoiceInv, TakeSteps
  <2> QED
    BY <1>1, <2>2, <2>4, <2>5, <2>6 DEF ChoiceInv, Was
<1>6. CASE AskOurs /\ ~Over
  <2>1. Stays(IF os = "linux" THEN "clear" ELSE "give back") /\ job.pc = "ask ours"
    BY <1>6, Asks DEF AskOurs, Doing
  <2>2. Handler(Subject) = "ours" /\ Subject \in Types /\ os # "windows"
    <3>1. Handler(Subject) # "ours" => job' = NextType /\ job.pc \in TypeSteps
      BY <1>6, <2>1, AllSteps DEF AskOurs, Skip
    <3>2. Handler(Subject) # "ours" => Over
      BY <3>1, NextTypeIs DEF Over, Firsts, Same
    <3> QED
      BY <1>6, <2>1, <3>2, Asks DEF Plain, PlacedAt, GiveBackSteps
  <2>3. Subject' = Subject
    BY <2>1 DEF Stays, Subject
  <2>4. \A t \in Types : Was(t) =>
          /\ chosen[t] \in {want[t], "ours"}
          /\ chosen[t] # want[t] => backups[t] = want[t] /\ job.held[t] = want[t]
    BY <2>1, <2>2 DEF ChoiceInv, GiveBackSteps
  <2>5. Was(Subject) => job.held[Subject] = want[Subject]
    <3>1. chosen[Subject] # "none" => Handler(Subject) = chosen[Subject]
      BY <2>2, HandlerIs DEF Plain
    <3>2. want[Subject] # "ours"
      BY <2>2 DEF Plain, TypeOK, Programs, RegistrationAssumption
    <3> QED
      BY <2>2, <2>4, <3>1, <3>2 DEF Was
  <2>6. job'.pc # "take" /\ job'.pc # "keep"
    BY <2>1 DEF Stays
  <2> QED
    BY <1>1, <2>1, <2>2, <2>3, <2>4, <2>5, <2>6 DEF ChoiceInv, Was, Stays
<1> QED
  BY <1>3, <1>4, <1>5, <1>6

\* The file: what is written there is what the worker holds, and it is only dropped
\* when nothing is taken any more.
LEMMA ChoiceFiles ==
  ASSUME RegistrationAssumption, Plain, ChoiceInv, Freed, Truncate \/ Keep \/ DropBackups,
         UNCHANGED <<os, want>>
  PROVE  ChoiceInv'
<1>1. UNCHANGED <<os, chosen, want>> /\ Goes /\ job.pc \in {"truncate", "keep", "-backups"}
  BY DEF Truncate, Keep, DropBackups, Doing
<1>2. /\ job.pc = "truncate" => Stays("keep") /\ os = "macos"
      /\ job.pc = "keep" => Stays("take")
      /\ job.pc = "-backups" => Stays("inspect")
  BY <1>1, Goings DEF Plain, PlacedAt
<1>3. job'.left = job.left
  BY <1>1, <1>2 DEF Stays
<1>4. Subject' = Subject
  BY <1>3 DEF Subject
<1>5. CASE job.pc = "truncate"
  <2>1. job'.pc = "keep" /\ job'.held = job.held /\ os = "macos"
    BY <1>2, <1>5 DEF Stays
  <2>2. \A t \in Types : Was(t) =>
          /\ chosen[t] \in {want[t], "ours"}
          /\ chosen[t] # want[t] => job.held[t] = want[t]
          /\ t = Subject => job.held[t] = want[t]
    BY <1>5, <2>1, AllSteps DEF ChoiceInv, TakeSteps
  <2> QED
    BY <1>1, <1>4, <2>1, <2>2 DEF ChoiceInv, Was
<1>6. CASE job.pc = "keep"
  <2>1. job'.pc = "take" /\ job'.held = job.held /\ backups' = job.held
    BY <1>1, <1>2, <1>6 DEF Stays, Keep, Truncate, DropBackups, Doing
  <2>2. os # "windows" => \A t \in Types : Was(t) =>
          /\ chosen[t] \in {want[t], "ours"}
          /\ chosen[t] # want[t] => job.held[t] = want[t]
          /\ t = Subject => job.held[t] = want[t]
    BY <1>6, AllSteps DEF ChoiceInv, TakeSteps
  <2> QED
    BY <1>1, <1>4, <2>1, <2>2 DEF ChoiceInv, Was
<1>7. CASE job.pc = "-backups"
  <2>1. os # "windows" /\ job.op = "remove" /\ job.left = {} /\ ~job.error
    BY <1>7 DEF Plain, PlacedAt
  <2>2. \A t \in Types : chosen[t] # "ours"
    BY <2>1 DEF Freed
  <2>3. \A t \in Types : Was(t) => chosen[t] = want[t]
    BY <1>7, <2>1, <2>2 DEF ChoiceInv
  <2>4. job'.pc = "inspect"
    BY <1>2, <1>7 DEF Stays
  <2>5. job'.pc \notin Held /\ job'.pc # "take"
    BY <2>4, AllSteps
  <2> QED
    BY <1>1, <2>3, <2>5 DEF ChoiceInv, Was
<1> QED
  BY <1>1, <1>5, <1>6, <1>7

\* A type is taken, or given back.
LEMMA ChoiceAssociate ==
  ASSUME RegistrationAssumption, Plain, ChoiceInv, Associate, UNCHANGED <<os, want>>
  PROVE  ChoiceInv'
<1>1. /\ Subject \in Types /\ os # "windows" /\ job.pc \in {"take", "clear", "give back"}
      /\ backups' = backups
  BY ChoiceGoes DEF Associate
<1>2. \A t \in Types : t # Subject => chosen'[t] = chosen[t]
  BY ChoiceBecomes
<1>3. Firsts \cap Held = {} /\ "take" \in Held /\ "clear" \in Held /\ "give back" \in Held
  BY AllSteps DEF Firsts
<1>4. \A t \in Types : Was(t) =>
        /\ chosen[t] \in {want[t], "ours"} \/ (job.pc = "give back" /\ t = Subject)
        /\ chosen[t] # want[t] => backups[t] = want[t] /\ job.held[t] = want[t]
        /\ t = Subject => job.held[t] = want[t]
        /\ t = Subject /\ job.pc = "take" => backups[t] = want[t]
  BY <1>1, <1>3 DEF ChoiceInv, TakeSteps, GiveBackSteps
<1>5. CASE job.pc = "take"
  <2>1. Over /\ chosen'[Subject] = "ours"
    BY <1>5, ChoiceGoes, ChoiceBecomes
  <2>2. job'.pc \notin Held /\ job'.pc # "take" /\ job'.held = job.held
    BY <1>3, <2>1 DEF Over, Firsts
  <2> QED
    BY <1>1, <1>2, <1>4, <1>5, <2>1, <2>2 DEF ChoiceInv, Was
<1>6. CASE job.pc = "clear"
  <2>1. /\ job'.pc = "give back" /\ job'.held = job.held /\ Subject' = Subject
        /\ chosen'[Subject] = IF chosen[Subject] = "ours" THEN "none" ELSE chosen[Subject]
        /\ os = "linux"
    BY <1>6, ChoiceGoes, ChoiceBecomes DEF Stays, Plain, PlacedAt
  <2>2. want[Subject] # "ours"
    BY <1>1 DEF Plain, TypeOK, Programs, RegistrationAssumption
  <2>3. Was(Subject) => (chosen'[Subject] # want[Subject] => backups[Subject] = want[Subject])
    BY <1>1, <1>4, <1>6, <2>1, <2>2
  <2> QED
    BY <1>1, <1>2, <1>4, <1>6, <2>1, <2>3, ZenonT(60) DEF ChoiceInv, Was
<1>7. CASE job.pc = "give back"
  <2>1. Over
    BY <1>7, ChoiceGoes
  <2>2. job'.pc \notin Held /\ job'.pc # "take" /\ job'.held = job.held
    BY <1>3, <2>1 DEF Over, Firsts
  <2>3. Was(Subject) => chosen'[Subject] = want[Subject]
    <3>1. Was(Subject) => job.held[Subject] = want[Subject] /\ want[Subject] \in Others
      BY <1>1, <1>4 DEF Was, Plain, TypeOK, Programs
    <3> QED
      BY <1>7, <3>1, ChoiceBecomes
  <2> QED
    BY <1>1, <1>2, <1>4, <1>7, <2>2, <2>3 DEF ChoiceInv, Was
<1> QED
  BY <1>1, <1>5, <1>6, <1>7

\* A choice that somebody made is in force, in the file or in the worker's hands, as
\* long as it is answered for.
LEMMA ChoiceStep ==
  ASSUME RegistrationAssumption, Plain, Freed, ChoiceInv, [Next]_vars
  PROVE  ChoiceInv'
<1>1. CASE UNCHANGED <<os, system, want, job>>
  BY <1>1 DEF system, ChoiceInv, Was, Subject
<1>2. CASE Starts
  <2>1. /\ UNCHANGED <<os, chosen, backups, want>> /\ job.pc # "give back" /\ job.pc # "keep"
        /\ job'.pc \in {"-launcher", "+launcher", "load", "unregister", "-open with", "inspect"}
    BY <1>2 DEF Starts, system
  <2>2. job'.pc \notin Held /\ job'.pc \notin TakeSteps \cup GiveBackSteps
    BY <2>1 DEF Held, TakeSteps, GiveBackSteps
  <2> QED
    BY <2>1, <2>2, ChoiceStays DEF Plain
<1>3. CASE Closes
  <2>1. /\ UNCHANGED <<os, chosen, backups, want>> /\ job.pc # "give back" /\ job.pc # "keep"
        /\ job'.pc = "done"
    BY <1>3 DEF Closes, system
  <2>2. job'.pc \notin Held /\ job'.pc \notin TakeSteps \cup GiveBackSteps
    BY <2>1 DEF Held, TakeSteps, GiveBackSteps
  <2> QED
    BY <2>1, <2>2, ChoiceStays DEF Plain
<1>4. CASE UserChooses
  <2>1. PICK t \in Types, p \in Picks :
          /\ chosen' = [chosen EXCEPT ![t] = p]
          /\ want' = [want EXCEPT ![t] = IF job.pc \in Held /\ t = Subject THEN "none" ELSE p]
    BY <1>4 DEF UserChooses
  <2>2. UNCHANGED <<os, backups, job>> /\ Subject' = Subject
    BY <1>4 DEF UserChooses, Subject
  <2>3. /\ chosen \in [Types -> Programs \cup {"ours"}] /\ want \in [Types -> Programs]
        /\ "take" \in Held
    BY AllSteps DEF Plain, TypeOK
  <2>4. chosen'[t] = p
        /\ want'[t] = IF job.pc \in Held /\ t = Subject THEN "none" ELSE p
    BY <2>1, <2>3
  <2>5. \A u \in Types : u # t => chosen'[u] = chosen[u] /\ want'[u] = want[u]
    BY <2>1, <2>3
  <2> QED
    BY <2>1, <2>2, <2>3, <2>4, <2>5 DEF ChoiceInv, Was
<1>5. CASE Breaks
  <2>1. /\ UNCHANGED <<os, chosen, backups>> /\ job'.pc \in {"inspect", "done"}
        /\ want' = [t \in Types |-> IF t \in Risks THEN "none" ELSE want[t]]
    BY <1>5 DEF Breaks, Half
  <2>2. \A t \in Types : Was(t)' => Was(t) /\ want'[t] = want[t] /\ t \notin Risks
    BY <2>1 DEF Was
  <2>3. job'.pc \notin Held /\ job'.pc \notin TakeSteps \cup GiveBackSteps /\ job'.pc # "take"
        /\ job'.pc \notin {"give back", "keep"}
    BY <2>1 DEF Held, TakeSteps, GiveBackSteps
  <2>4. ASSUME os # "windows", NEW t \in Types, Was(t), t \notin Risks
        PROVE  /\ chosen[t] \in {want[t], "ours"}
               /\ chosen[t] # want[t] => backups[t] = want[t]
    <3>1. ~(os = "linux" /\ job.pc = "give back" /\ t = Subject)
      BY <2>4 DEF Risks
    <3>2. chosen[t] \in {want[t], "ours"}
      BY <2>4, <3>1 DEF ChoiceInv
    <3>3. os = "macos" /\ job.pc = "keep" => chosen[t] # "ours"
      BY <2>4 DEF Risks
    <3> QED
      BY <2>4, <3>2, <3>3 DEF ChoiceInv
  <2> QED
    BY <2>1, <2>2, <2>3, <2>4 DEF ChoiceInv
<1>6. CASE Steady /\ UNCHANGED <<os, want>>
  <2>1. CASE Entry
    <3>1. os = "windows"
      BY <2>1, EntryGoes
    <3> QED
      BY <1>6, <3>1 DEF ChoiceInv
  <2>2. CASE Launcher \/ MenuFiles \/ Modern
    <3>1. /\ UNCHANGED <<os, chosen, backups, want>> /\ Goes
          /\ job.pc \in {"-launcher", "+launcher"} \cup MenuSteps
      BY <1>6, <2>2 DEF Launcher, MenuFiles, Modern, Doing, MenuSteps
    <3>2. job.pc # "give back" /\ job.pc # "keep"
      BY <3>1 DEF MenuSteps
    <3>3. CASE os = "windows"
      BY <1>6, <3>3 DEF ChoiceInv
    <3>4. CASE os # "windows"
      <4>1. job'.pc \in {"-launcher", "+launcher", "load", "-backups", "inspect"} \cup MenuSteps
        BY <3>1, <3>4, Goings DEF Stays, MenuSteps
      <4>2. job'.pc \notin Held /\ job'.pc \notin TakeSteps \cup GiveBackSteps
        BY <4>1 DEF Held, TakeSteps, GiveBackSteps, MenuSteps
      <4> QED
        BY <3>1, <3>2, <4>2, ChoiceStays DEF Plain
    <3> QED
      BY <3>3, <3>4
  <2> QED
    BY <1>6, <2>1, <2>2, ChoiceAsks, ChoiceFiles, ChoiceAssociate DEF Steady
<1> QED
  BY <1>1, <1>2, <1>3, <1>4, <1>5, <1>6, Kinds

-----------------------------------------------------------------------------
(* The theorems.                                                           *)

Whole == Plain /\ Apart /\ Rooted /\ Freed /\ Cleared /\ Launched /\ GoneInv

LEMMA WholeInit ==
  ASSUME RegistrationAssumption, Init
  PROVE  Whole /\ ChoiceInv
<1>1. Plain
  BY PlainInit
<1>2. job.op = "none" /\ job.pc = "done" /\ ~job.error
  BY DEF Init, NoJob
<1>3. Apart
  BY DEF Init, Apart
<1>4. Rooted
  BY <1>2 DEF Init, Rooted
<1>5. Freed /\ Cleared /\ GoneInv
  BY <1>2 DEF Freed, Cleared, GoneInv
<1>6. Launched
  <2>1. \A t \in Types : chosen[t] # "ours"
    <3>1. {"none"} \cup (IF os = "windows" THEN {} ELSE Picks) \subseteq Programs
      BY DEF RegistrationAssumption, Programs
    <3>2. "ours" \notin Programs
      BY DEF RegistrationAssumption, Programs
    <3> QED
      BY <3>1, <3>2 DEF Init
  <2> QED
    BY <1>2, <2>1 DEF Launched
<1>7. ChoiceInv
  <2>1. job.pc \notin Held
    BY <1>2, AllSteps
  <2> QED
    BY <1>2, <2>1 DEF Init, ChoiceInv, Was
<1> QED
  BY <1>1, <1>3, <1>4, <1>5, <1>6, <1>7 DEF Whole

LEMMA WholeStep ==
  ASSUME RegistrationAssumption, Whole, [Next]_vars
  PROVE  Whole'
BY PlainStep, ApartStep, RootedStep, FreedStep, LaunchedStep, GoneStep DEF Whole

LEMMA SpecWhole == Spec => []Whole
<1>1. Init => Whole
  BY WholeInit, RegistrationAssumption
<1>2. Whole /\ [Next]_vars => Whole'
  BY WholeStep, RegistrationAssumption
<1> QED
  BY <1>1, <1>2, PTL DEF Spec

\* The settings, the worker and the system keep to their types: no sequence of
\* registrations, failures and deaths leads the worker to a step it has no place for.
THEOREM RegistrationTyping == Spec => []TypeOK
<1>1. Whole => TypeOK
  BY DEF Whole, Plain
<1> QED
  BY <1>1, SpecWhole, PTL

\* On Windows no entry is without its ProgID, and on Linux this program is nobody's
\* default without its desktop entry, whichever step failed or was the last.
THEOREM NothingPointsAstray == Spec => []NothingDangles
<1>1. Whole => NothingDangles
  BY DEF Whole, Rooted, Launched, NothingDangles
<1> QED
  BY <1>1, SpecWhole, PTL

\* A removal reported as done has left no file, no key, no identity and no default of
\* this program, whatever failed before it.
THEOREM RemovalIsComplete == Spec => []RemovedIsGone
<1>1. Whole => RemovedIsGone
  <2> SUFFICES ASSUME Whole, Removed PROVE RemovedIsGone
    BY DEF RemovedIsGone
  <2>1. job.op = "remove" /\ job.pc = "done" /\ ~job.error /\ job.left = {}
    BY DEF Removed, Whole, Plain, PlacedAt
  <2>2. ~launcher /\ menu = "off" /\ backups = NoBackups /\ ~enabled /\ identity = "none"
    BY <2>1 DEF Whole, GoneInv
  <2>3. ASSUME NEW t \in Types PROVE keys[t] = {} /\ (os # "windows" => Handler(t) # "ours")
    <3>1. IF os = "windows" THEN keys[t] = {} ELSE chosen[t] # "ours"
      BY <2>1 DEF Whole, Freed
    <3>2. os # "windows" => keys[t] = {}
      BY DEF Whole, Apart
    <3>3. os # "windows" => Handler(t) # "ours"
      BY <2>2, <3>1, HandlerIs, RegistrationAssumption DEF Whole, Plain
    <3> QED
      BY <3>1, <3>2, <3>3
  <2> QED
    BY <2>2, <2>3 DEF RemovedIsGone
<1> QED
  BY <1>1, SpecWhole, PTL

\* What somebody had chosen before is in force or in the file of previous defaults at
\* every moment, or the very next step puts it there, until it falls between the
\* worker's question and its action or a step cut short takes it, which Risks and
\* UserChooses give up; from the next choice on it holds again.
THEOREM PreviousIsKept == Spec => []PreviousKept
<1>1. Init => Whole /\ ChoiceInv
  BY WholeInit, RegistrationAssumption
<1>2. Whole /\ ChoiceInv /\ [Next]_vars => (Whole /\ ChoiceInv)'
  BY WholeStep, ChoiceStep, RegistrationAssumption DEF Whole
<1>3. Whole /\ ChoiceInv => PreviousKept
  <2> SUFFICES ASSUME Whole, ChoiceInv, os # "windows", NEW t \in Types, want[t] # "none"
               PROVE  \/ want[t] \in {Handler(t), backups[t]}
                      \/ job.pc \in {"keep", "give back"} /\ job.held[t] = want[t]
    BY DEF PreviousKept
  <2>1. chosen[t] # "none" => Handler(t) = chosen[t]
    BY HandlerIs, RegistrationAssumption DEF Whole, Plain
  <2>2. /\ chosen[t] # want[t] => backups[t] = want[t] \/ job.pc = "keep"
        /\ chosen[t] # want[t] /\ job.pc = "keep" => job.held[t] = want[t]
    BY AllSteps DEF ChoiceInv, Was, TakeSteps
  <2> QED
    BY <2>1, <2>2
<1> QED
  BY <1>1, <1>2, <1>3, PTL DEF Spec

=============================================================================
