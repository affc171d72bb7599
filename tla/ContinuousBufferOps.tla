------------------------ MODULE ContinuousBufferOps ------------------------
(***************************************************************************)
(* Kes::Util::ContinuousBuffer: a growable byte buffer whose content is    *)
(* always one contiguous range of a vector.  pop() only advances m_start;  *)
(* push() first moves the content to the front, then enlarges the vector,  *)
(* and refuses what would exceed m_limit.                                  *)
(*                                                                         *)
(* A buffer is one record: the vector m_buffer (cells 1..cap here),        *)
(* m_start and m_used.  The operators are the member functions, from the   *)
(* buffer before to the buffer after the call.                             *)
(***************************************************************************)
EXTENDS Integers, Sequences

CONSTANTS
  Bytes,     \* the values a byte can have
  Nul,       \* '\0', the value std::vector<char> gives to new cells
  Size,      \* the initial size of the vector
  Limit      \* m_limit

ASSUME BufferAssumption ==
  /\ Nul \in Bytes
  /\ Size \in Nat
  /\ Limit \in Nat

MaxOf(a, b) == IF a > b THEN a ELSE b

New(size) ==
  [cells |-> [i \in 1..size |-> Nul], cap |-> size, start |-> 0, used |-> 0]

-----------------------------------------------------------------------------
(* The bytes data() points to.                                             *)
Contents(b) == [i \in 1..b.used |-> b.cells[b.start + i]]

(* Mutant: the room in front of the content is counted as free.            *)
FitsBesideStart(b, n) == b.used + n <= b.cap

Fits(b, n) == b.start + b.used + n <= b.cap

(* Mutant: the content is moved and m_start is left where it was.          *)
ToFrontKeepingStart(b) ==
  [b EXCEPT !.cells = [i \in 1..b.cap |->
                         IF i <= b.used THEN b.cells[b.start + i] ELSE b.cells[i]]]

(* memmove of the content to the front of the vector.                      *)
ToFront(b) ==
  [b EXCEPT !.cells = [i \in 1..b.cap |->
                         IF i <= b.used THEN b.cells[b.start + i] ELSE b.cells[i]],
            !.start = 0]

(* m_buffer.resize(n) for n above the current size.                        *)
Resize(b, n) ==
  [b EXCEPT !.cells = [i \in 1..n |-> IF i <= b.cap THEN b.cells[i] ELSE Nul],
            !.cap = n]

(* memcpy of the new bytes behind the content.                             *)
CopyIn(b, data) ==
  [b EXCEPT !.cells = [i \in 1..b.cap |->
                         IF i - (b.start + b.used) \in 1..Len(data)
                         THEN data[i - (b.start + b.used)]
                         ELSE b.cells[i]],
            !.used = b.used + Len(data)]

(* The buffer after the attempt to make room by moving the content.        *)
Shifted(b, n) == IF ~Fits(b, n) /\ b.start > 0 THEN ToFront(b) ELSE b

Pushable(b, n) ==
  LET s == Shifted(b, n)
  IN  Fits(s, n) \/ s.start + s.used + n <= Limit

AfterPush(b, data) ==
  LET n == Len(data)
      s == Shifted(b, n)
      roomy == IF Fits(s, n) THEN s ELSE Resize(s, s.start + s.used + n)
  IN  IF Pushable(b, n) THEN CopyIn(roomy, data) ELSE s

AfterPop(b, n) ==
  LET k == IF n > b.used THEN b.used ELSE n
  IN  [b EXCEPT !.start = b.start + k, !.used = b.used - k]

AfterReset(b) == [b EXCEPT !.start = 0, !.used = 0]

-----------------------------------------------------------------------------
(* The content lies inside the vector, so memcpy, memmove and data() stay  *)
(* in bounds, and the vector is never larger than its initial size or the  *)
(* limit allows.                                                           *)
WellFormed(b) ==
  /\ b \in [cells : [1..b.cap -> Bytes], cap : Size..MaxOf(Size, Limit),
            start : Nat, used : Nat]
  /\ b.start + b.used <= b.cap
=============================================================================
