---------------------------- MODULE AtomicOutput ----------------------------
(***************************************************************************)
(* What write_file promises (extraction.rs:1-4, 82): an entry appears      *)
(* under its name in one step, complete, or not at all; a call that        *)
(* returns anything but success has changed nothing; and without overwrite *)
(* it takes only a name nobody holds.  No temporary files, no partial      *)
(* content, no clean-up.                                                   *)
(***************************************************************************)
EXTENDS Integers

CONSTANTS Writers, Leaves, Outside, NoFile, MaxCalls, MaxOutside

VARIABLES
  store,     \* what each entry name holds: who put it there, in which call
  status,    \* "idle", "running" or "committed"
  outcome,   \* what the last call returned, "none" while one runs
  call, target, overwrite, outs

vars == <<store, status, outcome, call, target, overwrite, outs>>

Init ==
  /\ store \in [Leaves -> {NoFile, [by |-> Outside, call |-> 0]}]
  /\ status = [w \in Writers |-> "idle"]
  /\ outcome = [w \in Writers |-> "none"]
  /\ call = [w \in Writers |-> 0]
  /\ target \in [Writers -> Leaves]
  /\ overwrite = [w \in Writers |-> FALSE]
  /\ outs = 0

Start(w, l, o) ==
  /\ status[w] = "idle" /\ call[w] < MaxCalls
  /\ status' = [status EXCEPT ![w] = "running"]
  /\ outcome' = [outcome EXCEPT ![w] = "none"]
  /\ call' = [call EXCEPT ![w] = @ + 1]
  /\ target' = [target EXCEPT ![w] = l]
  /\ overwrite' = [overwrite EXCEPT ![w] = o]
  /\ UNCHANGED <<store, outs>>

\* The only step of the program that changes the destination.
Commit(w) ==
  /\ status[w] = "running"
  /\ overwrite[w] \/ store[target[w]] = NoFile
  /\ store' = [store EXCEPT ![target[w]] = [by |-> w, call |-> call[w]]]
  /\ status' = [status EXCEPT ![w] = "committed"]
  /\ UNCHANGED <<outcome, call, target, overwrite, outs>>

\* Success is reported if and only if the entry was published.
Finish(w) ==
  /\ status[w] # "idle"
  /\ status' = [status EXCEPT ![w] = "idle"]
  /\ \E r \in IF status[w] = "committed" THEN {"ok"}
              ELSE {"clobber", "traversal", "error"} :
       /\ r = "clobber" => ~overwrite[w]
       /\ outcome' = [outcome EXCEPT ![w] = r]
  /\ UNCHANGED <<store, call, target, overwrite, outs>>

\* Death stops calls on either side of their commit, never inside it.
Die(W) ==
  /\ W # {} /\ \A w \in W : status[w] # "idle"
  /\ status' = [w \in Writers |-> IF w \in W THEN "idle" ELSE status[w]]
  /\ outcome' = [w \in Writers |-> IF w \in W THEN "crashed" ELSE outcome[w]]
  /\ UNCHANGED <<store, call, target, overwrite, outs>>

OutsideChange(l) ==
  /\ outs < MaxOutside
  /\ outs' = outs + 1
  /\ \/ store' = [store EXCEPT ![l] = [by |-> Outside, call |-> outs + 1]]
     \/ store' = [store EXCEPT ![l] = NoFile]
  /\ UNCHANGED <<status, outcome, call, target, overwrite>>

Next ==
  \/ \E w \in Writers, l \in Leaves, o \in BOOLEAN : Start(w, l, o)
  \/ \E w \in Writers : Commit(w) \/ Finish(w)
  \/ \E W \in SUBSET Writers : Die(W)
  \/ \E l \in Leaves : OutsideChange(l)

Spec == Init /\ [][Next]_vars
=============================================================================
