-------------------------- MODULE ContinuousBuffer --------------------------
(***************************************************************************)
(* A ContinuousBuffer under every sequence of calls its owner can make,    *)
(* and the queue of bytes it implements.  The proofs about SessionHandler  *)
(* rest on those about this module, hence the prefix of its definitions.   *)
(***************************************************************************)
EXTENDS ContinuousBufferOps

CONSTANTS
  MaxPush,   \* bounds the length of one push (model checking only)
  MaxPop     \* bounds the length of one pop (model checking only)

ASSUME CallAssumption == MaxPush \in Nat /\ MaxPop \in Nat

VARIABLES
  buf,       \* the buffer
  accepted   \* what the last push() returned

bufferVars == <<buf, accepted>>

-----------------------------------------------------------------------------
BufferInit ==
  /\ buf = New(Size)
  /\ accepted = TRUE

Push(data) ==
  /\ accepted' = Pushable(buf, Len(data))
  /\ buf' = AfterPush(buf, data)

Pop(n) ==
  /\ buf' = AfterPop(buf, n)
  /\ UNCHANGED accepted

Reset ==
  /\ buf' = AfterReset(buf)
  /\ UNCHANGED accepted

(* A string of at most MaxPush bytes.                                      *)
Pushed == UNION {[1..n -> Bytes] : n \in 0..MaxPush}

BufferNext ==
  \/ \E data \in Pushed : Push(data)
  \/ \E n \in 0..MaxPop : Pop(n)
  \/ Reset

BufferSpec == BufferInit /\ [][BufferNext]_bufferVars

-----------------------------------------------------------------------------
(* The buffer stays well formed: every cell push() writes and data()       *)
(* exposes is inside the vector (continuousbuffer.hxx:55-92).              *)
BufferTypeOK ==
  /\ WellFormed(buf)
  /\ accepted \in BOOLEAN

Queue == INSTANCE BoundedQueue
           WITH Bound <- MaxOf(Size, Limit), queue <- Contents(buf)

(* A step of the queue, with the inputs the buffer is given here.          *)
QueueStep ==
  \/ \E data \in Pushed : Queue!Push(data)
  \/ \E n \in 0..MaxPop : Queue!Pop(n)
  \/ Queue!Reset

(* The buffer is a queue of at most MaxOf(Size, Limit) bytes: moving,      *)
(* enlarging and popping never lose, repeat, reorder or alter a byte, and  *)
(* push() refuses only what cannot fit even after moving and enlarging     *)
(* (continuousbuffer.hxx:55-98).                                           *)
ImplementsQueue == Queue!Init /\ [][QueueStep]_(Queue!vars)
=============================================================================
