---------------------------- MODULE BoundedQueue ----------------------------
(***************************************************************************)
(* What a byte buffer promises its owner: the bytes pushed and not yet     *)
(* popped come out in order and unchanged, a push is accepted exactly when *)
(* the result fits in Bound bytes, and a refused push changes nothing.     *)
(* It says nothing of where the bytes are kept.                            *)
(***************************************************************************)
EXTENDS Integers, Sequences

CONSTANTS
  Bytes,  \* the values a byte can have
  Bound   \* the number of bytes the queue can hold

VARIABLES
  queue,    \* the bytes pushed and not yet popped
  accepted  \* whether the last push was accepted

vars == <<queue, accepted>>

Init ==
  /\ queue = << >>
  /\ accepted = TRUE

Push(data) ==
  /\ accepted' = (Len(queue) + Len(data) <= Bound)
  /\ queue' = IF accepted' THEN queue \o data ELSE queue

Pop(n) ==
  /\ queue' = SubSeq(queue, n + 1, Len(queue))
  /\ UNCHANGED accepted

Reset ==
  /\ queue' = << >>
  /\ UNCHANGED accepted

Next ==
  \/ \E data \in Seq(Bytes) : Push(data)
  \/ \E n \in Nat : Pop(n)
  \/ Reset

Spec == Init /\ [][Next]_vars
=============================================================================
