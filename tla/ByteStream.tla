----------------------------- MODULE ByteStream -----------------------------
(***************************************************************************)
(* What a Read + Seek over a split archive promises its caller (a format   *)
(* decoder): one seamless sequence of bytes.  A call returns the bytes at  *)
(* the position and moves past them, reports the end at the end only, or   *)
(* fails and leaves the position where it was.                             *)
(***************************************************************************)
EXTENDS Naturals, Sequences

VARIABLES
  open,   \* FALSE until the content is known
  bytes,  \* the whole content, in order
  pos,    \* how many bytes lie before the position
  res     \* what the last call returned

Data(s) == [kind |-> "data", bytes |-> s]
Moved   == [kind |-> "moved", bytes |-> <<>>]
End     == [kind |-> "end", bytes |-> <<>>]
Failed  == [kind |-> "failed", bytes |-> <<>>]

Init == open = FALSE /\ bytes = <<>> /\ pos = 0 /\ res = Failed

Open ==
  /\ ~open /\ open'
  /\ bytes' \in Seq(Nat)
  /\ pos' = 0 /\ res' = Moved

Read ==
  \/ \E n \in 1..(Len(bytes) - pos) :
       pos' = pos + n /\ res' = Data(SubSeq(bytes, pos + 1, pos + n))
  \/ pos = Len(bytes) /\ res' = End /\ UNCHANGED pos

Seek == pos' \in 0..Len(bytes) /\ res' = Moved

Fail == res' = Failed /\ UNCHANGED pos

Next == Open \/ (open /\ (Read \/ Seek \/ Fail) /\ UNCHANGED <<open, bytes>>)

Spec == Init /\ [][Next]_<<open, bytes, pos, res>>
=============================================================================
