------------------------ MODULE SessionHandlerProofs ------------------------
(***************************************************************************)
(* What the member functions of ContinuousBuffer do to the content of a    *)
(* well formed buffer, for every size, limit and set of bytes; hence       *)
(* ContinuousBuffer is memory safe and implements a bounded queue of bytes *)
(* for every length of the calls.                                          *)
(*                                                                         *)
(* SessionHandler implements MessageFramer, for every size and limit of    *)
(* the buffer and every length of the chunks: counting from where the last *)
(* call stopped, in a buffer that is moved, grown and parsed in place,     *)
(* comes to the same as counting the whole stream anew.                    *)
(***************************************************************************)
EXTENDS SessionHandler, ContinuousBuffer, SequenceTheorems, FiniteSetTheorems,
        TLAPS

-----------------------------------------------------------------------------
(* The buffer.                                                             *)

(* The content is a string of bytes, as long as m_used says.               *)
LEMMA ContentsIsSeq ==
  ASSUME NEW b, WellFormed(b)
  PROVE  /\ Contents(b) \in Seq(Bytes)
         /\ Len(Contents(b)) = b.used
         /\ \A i \in 1..b.used : Contents(b)[i] = b.cells[b.start + i]
BY BufferAssumption DEF WellFormed, Contents

(* A new buffer is well formed and empty.                                  *)
LEMMA NewBuffer ==
  WellFormed(New(Size)) /\ Contents(New(Size)) = << >>
BY BufferAssumption DEF WellFormed, New, Contents, MaxOf

(* Moving the content to the front keeps it (continuousbuffer.hxx:60-65).  *)
LEMMA ShiftKeepsContent ==
  ASSUME NEW b, WellFormed(b), NEW n \in Nat
  PROVE  /\ WellFormed(Shifted(b, n))
         /\ Contents(Shifted(b, n)) = Contents(b)
         /\ Shifted(b, n).used = b.used
         /\ Shifted(b, n).cap = b.cap
         /\ Fits(Shifted(b, n), n) \/ Shifted(b, n).start = 0
<1>1. CASE ~(~Fits(b, n) /\ b.start > 0)
  <2>1. Shifted(b, n) = b
    BY <1>1 DEF Shifted
  <2> QED BY <1>1, <2>1 DEF WellFormed
<1>2. CASE ~Fits(b, n) /\ b.start > 0
  <2>1. Shifted(b, n) = ToFront(b)
    BY <1>2 DEF Shifted
  <2>2. /\ WellFormed(ToFront(b))
        /\ ToFront(b).used = b.used
        /\ ToFront(b).cap = b.cap
        /\ ToFront(b).start = 0
    <3>1. b \in [cells : [1..b.cap -> Bytes], cap : Size..MaxOf(Size, Limit),
                 start : Nat, used : Nat]
      BY DEF WellFormed
    <3>2. /\ ToFront(b).used = b.used
          /\ ToFront(b).cap = b.cap
          /\ ToFront(b).start = 0
          /\ ToFront(b).cells = [i \in 1..b.cap |->
                                   IF i <= b.used THEN b.cells[b.start + i]
                                                  ELSE b.cells[i]]
      BY <3>1 DEF ToFront
    <3>3. ToFront(b).cells \in [1..b.cap -> Bytes]
      BY <3>2, BufferAssumption DEF WellFormed, MaxOf
    <3>4. ToFront(b) \in [cells : [1..b.cap -> Bytes], cap : Size..MaxOf(Size, Limit),
                          start : Nat, used : Nat]
      BY <3>1, <3>2, <3>3 DEF ToFront
    <3> HIDE DEF ToFront
    <3> QED BY <3>2, <3>4, <1>2, BufferAssumption DEF WellFormed, MaxOf
  <2>3. Contents(ToFront(b)) = Contents(b)
    BY DEF Contents, ToFront, WellFormed
  <2> QED BY <2>1, <2>2, <2>3
<1> QED BY <1>1, <1>2

(* push() accepts exactly what the larger of the vector and the limit can  *)
(* hold (continuousbuffer.hxx:58-75).                                      *)
LEMMA PushableBound ==
  ASSUME NEW b, WellFormed(b), NEW n \in Nat
  PROVE  Pushable(b, n) = (b.used + n <= MaxOf(Size, Limit))
<1> DEFINE s == Shifted(b, n)
<1>1. /\ WellFormed(s)
      /\ s.used = b.used
      /\ Fits(s, n) \/ s.start = 0
  BY ShiftKeepsContent
<1>2. Pushable(b, n) = (Fits(s, n) \/ s.start + s.used + n <= Limit)
  BY DEF Pushable
<1> HIDE DEF s
<1> QED BY <1>1, <1>2, BufferAssumption DEF WellFormed, Fits, MaxOf

(* Writing behind the content where there is room appends to it.           *)
LEMMA CopyInAppends ==
  ASSUME NEW b, WellFormed(b), NEW data \in Seq(Bytes), Fits(b, Len(data))
  PROVE  /\ WellFormed(CopyIn(b, data))
         /\ Contents(CopyIn(b, data)) = Contents(b) \o data
<1> DEFINE c == CopyIn(b, data)
<1>1. /\ c.start = b.start
      /\ c.cap = b.cap
      /\ c.used = b.used + Len(data)
  BY DEF CopyIn, WellFormed
<1>2. c.cells \in [1..b.cap -> Bytes]
  BY DEF CopyIn, WellFormed
<1>3. WellFormed(c)
  <2>1. c \in [cells : [1..b.cap -> Bytes], cap : Size..MaxOf(Size, Limit),
              start : Nat, used : Nat]
    <3>1. b \in [cells : [1..b.cap -> Bytes], cap : Size..MaxOf(Size, Limit),
                 start : Nat, used : Nat]
      BY DEF WellFormed
    <3>2. b.used + Len(data) \in Nat
      BY <3>1
    <3> QED BY <1>2, <3>1, <3>2 DEF CopyIn
  <2> HIDE DEF c
  <2> QED BY <1>1, <2>1, BufferAssumption DEF WellFormed, Fits, MaxOf
<1>4. \A i \in 1..c.used : c.cells[b.start + i] =
                             IF i <= b.used THEN b.cells[b.start + i]
                                            ELSE data[i - b.used]
  BY <1>1 DEF CopyIn, WellFormed, Fits
<1>5. /\ Contents(c) \in Seq(Bytes)
      /\ Len(Contents(c)) = c.used
      /\ \A i \in 1..c.used : Contents(c)[i] = c.cells[b.start + i]
  <2> HIDE DEF c
  <2> QED BY <1>1, <1>3, ContentsIsSeq
<1>6. /\ Contents(b) \in Seq(Bytes)
      /\ Len(Contents(b)) = b.used
      /\ \A i \in 1..b.used : Contents(b)[i] = b.cells[b.start + i]
  BY ContentsIsSeq
<1>7. Contents(c) = Contents(b) \o data
  <2> HIDE DEF c
  <2> b.used \in Nat
    BY DEF WellFormed
  <2>1. Len(Contents(c)) = Len(Contents(b) \o data)
    BY <1>1, <1>5, <1>6
  <2>2. ASSUME NEW i \in 1..Len(Contents(c))
        PROVE  Contents(c)[i] = (Contents(b) \o data)[i]
    BY <1>1, <1>4, <1>5, <1>6
  <2>3. Contents(c) \in Seq(Bytes) /\ Contents(b) \o data \in Seq(Bytes)
    BY <1>5, <1>6
  <2> QED BY ONLY <2>1, <2>2, <2>3, SeqEqual
<1> QED BY <1>3, <1>7

(* Enlarging the vector keeps the content and makes the room asked for.    *)
LEMMA ResizeKeepsContent ==
  ASSUME NEW b, WellFormed(b), NEW n \in b.cap..MaxOf(Size, Limit)
  PROVE  /\ WellFormed(Resize(b, n))
         /\ Contents(Resize(b, n)) = Contents(b)
         /\ Resize(b, n).cap = n
         /\ Resize(b, n).start = b.start
         /\ Resize(b, n).used = b.used
<1> DEFINE r == Resize(b, n)
<1>1. b \in [cells : [1..b.cap -> Bytes], cap : Size..MaxOf(Size, Limit),
            start : Nat, used : Nat]
  BY DEF WellFormed
<1>2. b.cap \in Nat /\ n \in Nat /\ n \in Size..MaxOf(Size, Limit)
  BY <1>1, BufferAssumption DEF MaxOf
<1>3. /\ r.cells = [i \in 1..n |-> IF i <= b.cap THEN b.cells[i] ELSE Nul]
      /\ r.cap = n
      /\ r.start = b.start
      /\ r.used = b.used
  BY <1>1 DEF Resize
<1>4. r.cells \in [1..n -> Bytes]
  BY <1>1, <1>2, <1>3, BufferAssumption
<1>5. r \in [cells : [1..n -> Bytes], cap : Size..MaxOf(Size, Limit),
            start : Nat, used : Nat]
  BY <1>1, <1>2, <1>3, <1>4 DEF Resize
<1>6. Contents(r) = Contents(b)
  BY <1>1, <1>2, <1>3 DEF Contents, WellFormed
<1>7. r.start + r.used <= r.cap
  <2>1. b.start + b.used <= b.cap /\ b.cap <= n
    BY <1>1, <1>2, BufferAssumption DEF WellFormed, MaxOf
  <2> QED BY <1>1, <1>2, <1>3, <2>1
<1>8. WellFormed(r)
  <2>1. r.cap = n
    BY <1>3
  <2> HIDE DEF r
  <2> QED BY <1>5, <1>7, <2>1 DEF WellFormed
<1> QED BY <1>3, <1>6, <1>8

(* push() appends the bytes or leaves the content alone, and keeps the     *)
(* buffer well formed either way (continuousbuffer.hxx:55-81).             *)
LEMMA PushAppends ==
  ASSUME NEW b, WellFormed(b), NEW data \in Seq(Bytes)
  PROVE  /\ WellFormed(AfterPush(b, data))
         /\ Contents(AfterPush(b, data)) =
              IF Pushable(b, Len(data)) THEN Contents(b) \o data ELSE Contents(b)
<1> DEFINE n == Len(data)
           s == Shifted(b, n)
           roomy == IF Fits(s, n) THEN s ELSE Resize(s, s.start + s.used + n)
<1>1. n \in Nat
  OBVIOUS
<1>2. /\ WellFormed(s)
      /\ Contents(s) = Contents(b)
      /\ s.used = b.used
      /\ s.cap = b.cap
      /\ Fits(s, n) \/ s.start = 0
  BY <1>1, ShiftKeepsContent
<1>3. AfterPush(b, data) = IF Pushable(b, n) THEN CopyIn(roomy, data) ELSE s
  BY DEF AfterPush
<1>4. CASE ~Pushable(b, n)
  BY <1>2, <1>3, <1>4
<1>5. CASE Pushable(b, n) /\ Fits(s, n)
  <2>1. AfterPush(b, data) = CopyIn(s, data)
    BY <1>3, <1>5
  <2> HIDE DEF s
  <2> QED BY <1>2, <1>5, <2>1, CopyInAppends
<1>6. CASE Pushable(b, n) /\ ~Fits(s, n)
  <2> DEFINE m == s.start + s.used + n
  <2>1. m \in s.cap..MaxOf(Size, Limit)
    <3>1. b.used + n <= MaxOf(Size, Limit)
      BY <1>1, <1>6, PushableBound
    <3> HIDE DEF s
    <3> QED BY <1>1, <1>2, <1>6, <3>1, BufferAssumption DEF WellFormed, Fits, MaxOf
  <2>2. AfterPush(b, data) = CopyIn(Resize(s, m), data)
    BY <1>3, <1>6
  <2> HIDE DEF s, m
  <2>3. /\ WellFormed(Resize(s, m))
        /\ Contents(Resize(s, m)) = Contents(s)
        /\ Resize(s, m).cap = m
        /\ Resize(s, m).start = s.start
        /\ Resize(s, m).used = s.used
    BY <1>2, <2>1, ResizeKeepsContent
  <2>4. Fits(Resize(s, m), n)
    BY <1>1, <1>2, <2>3 DEF Fits, m, WellFormed
  <2> QED BY <1>2, <1>6, <2>2, <2>3, <2>4, CopyInAppends
<1> QED BY <1>4, <1>5, <1>6

(* pop() drops bytes from the front, all of them when asked for more than  *)
(* there are (continuousbuffer.hxx:83-92).                                 *)
LEMMA PopDrops ==
  ASSUME NEW b, WellFormed(b), NEW n \in Nat
  PROVE  /\ WellFormed(AfterPop(b, n))
         /\ Contents(AfterPop(b, n)) =
              SubSeq(Contents(b), n + 1, Len(Contents(b)))
<1> DEFINE k == IF n > b.used THEN b.used ELSE n
           p == AfterPop(b, n)
<1>1. b \in [cells : [1..b.cap -> Bytes], cap : Size..MaxOf(Size, Limit),
            start : Nat, used : Nat]
  BY DEF WellFormed
<1>2. k \in 0..b.used /\ b.used \in Nat /\ b.start \in Nat
  BY <1>1
<1>3. /\ p.cells = b.cells
      /\ p.cap = b.cap
      /\ p.start = b.start + k
      /\ p.used = b.used - k
  BY <1>1 DEF AfterPop
<1>4. p \in [cells : [1..b.cap -> Bytes], cap : Size..MaxOf(Size, Limit),
            start : Nat, used : Nat]
  <2>1. b.start + k \in Nat /\ b.used - k \in Nat
    BY <1>2
  <2> QED BY <1>1, <2>1 DEF AfterPop
<1>5. WellFormed(p)
  <2>1. p.start + p.used <= p.cap
    BY <1>1, <1>2, <1>3, BufferAssumption DEF WellFormed, MaxOf
  <2>2. p.cap = b.cap
    BY <1>3
  <2> HIDE DEF p
  <2> QED BY <1>4, <2>1, <2>2 DEF WellFormed
<1>6. /\ Contents(p) \in Seq(Bytes)
      /\ Len(Contents(p)) = b.used - k
      /\ \A i \in 1..(b.used - k) : Contents(p)[i] = b.cells[b.start + k + i]
  <2> HIDE DEF p
  <2> QED BY <1>2, <1>3, <1>5, ContentsIsSeq
<1>7. /\ Contents(b) \in Seq(Bytes)
      /\ Len(Contents(b)) = b.used
      /\ \A i \in 1..b.used : Contents(b)[i] = b.cells[b.start + i]
  BY ContentsIsSeq
<1> DEFINE rest == SubSeq(Contents(b), n + 1, Len(Contents(b)))
<1>8. /\ rest \in Seq(Bytes)
      /\ Len(rest) = b.used - k
      /\ \A i \in 1..(b.used - k) : rest[i] = b.cells[b.start + k + i]
  <2> DEFINE c == Contents(b)
  <2>1. c \in Seq(Bytes) /\ Len(c) = b.used
    BY <1>7
  <2>2. \A i \in 1..b.used : c[i] = b.cells[b.start + i]
    BY <1>7
  <2> HIDE DEF c
  <2>3. CASE n < b.used
    <3>1. k = n
      BY <1>2, <2>3
    <3>2. /\ SubSeq(c, n + 1, b.used) \in Seq(Bytes)
          /\ Len(SubSeq(c, n + 1, b.used)) = b.used - n
          /\ \A i \in 1..(b.used - n) : SubSeq(c, n + 1, b.used)[i] = c[n + i]
      BY <1>2, <2>1, <2>3
    <3>3. \A i \in 1..(b.used - n) : c[n + i] = b.cells[b.start + n + i]
      BY <1>2, <2>2, <2>3
    <3> QED BY <2>1, <3>1, <3>2, <3>3 DEF c
  <2>4. CASE n >= b.used
    <3>1. k = b.used
      BY <1>2, <2>4
    <3>2. SubSeq(c, n + 1, b.used) = << >>
      BY <1>2, <2>1, <2>4
    <3> QED BY <1>2, <2>1, <3>1, <3>2 DEF c
  <2> QED BY <1>2, <2>3, <2>4
<1>9. Contents(p) = rest
  <2> HIDE DEF p, rest
  <2>1. Len(Contents(p)) = Len(rest)
    BY <1>6, <1>8
  <2>2. \A i \in 1..Len(Contents(p)) : Contents(p)[i] = rest[i]
    BY <1>6, <1>8
  <2>3. Contents(p) \in Seq(Bytes) /\ rest \in Seq(Bytes)
    BY <1>6, <1>8
  <2> QED BY ONLY <2>1, <2>2, <2>3, SeqEqual
<1> QED BY <1>5, <1>9

(* reset() empties the buffer.                                             *)
LEMMA ResetEmpties ==
  ASSUME NEW b, WellFormed(b)
  PROVE  /\ WellFormed(AfterReset(b))
         /\ Contents(AfterReset(b)) = << >>
<1> DEFINE r == AfterReset(b)
<1>1. b \in [cells : [1..b.cap -> Bytes], cap : Size..MaxOf(Size, Limit),
            start : Nat, used : Nat]
  BY DEF WellFormed
<1>2. /\ r \in [cells : [1..b.cap -> Bytes], cap : Size..MaxOf(Size, Limit),
               start : Nat, used : Nat]
      /\ r.cap = b.cap
      /\ r.start = 0
      /\ r.used = 0
  BY <1>1 DEF AfterReset
<1> HIDE DEF r
<1>3. WellFormed(r) /\ Contents(r) = << >>
  BY <1>1, <1>2, BufferAssumption DEF WellFormed, Contents, MaxOf
<1> QED BY <1>3 DEF r

-----------------------------------------------------------------------------
(* A chunk is a string of bytes.                                           *)
LEMMA PushedIsSeq == Pushed \subseteq Seq(Bytes)
BY CallAssumption DEF Pushed

(* No call leaves the content outside the vector or the vector above its   *)
(* limit (continuousbuffer.hxx:55-98).                                     *)
THEOREM BufferTypeCorrect == BufferSpec => []BufferTypeOK
<1>1. BufferInit => BufferTypeOK
  BY NewBuffer DEF BufferInit, BufferTypeOK
<1>2. BufferTypeOK /\ [BufferNext]_bufferVars => BufferTypeOK'
  <2> SUFFICES ASSUME BufferTypeOK, [BufferNext]_bufferVars
               PROVE  BufferTypeOK'
    OBVIOUS
  <2>1. ASSUME NEW data \in Pushed, Push(data)
        PROVE  BufferTypeOK'
    BY <2>1, PushedIsSeq, PushAppends DEF BufferTypeOK, Push, Pushable
  <2>2. ASSUME NEW n \in 0..MaxPop, Pop(n)
        PROVE  BufferTypeOK'
    BY <2>2, PopDrops, CallAssumption DEF BufferTypeOK, Pop
  <2>3. CASE Reset
    BY <2>3, ResetEmpties DEF BufferTypeOK, Reset
  <2>4. CASE UNCHANGED bufferVars
    BY <2>4 DEF BufferTypeOK, bufferVars
  <2> QED BY <2>1, <2>2, <2>3, <2>4 DEF BufferNext
<1> QED BY <1>1, <1>2, PTL DEF BufferSpec

(* The calls of a well formed buffer are the calls of the queue.           *)
LEMMA CallsImplementQueue ==
  /\ BufferInit => Queue!Init
  /\ BufferTypeOK /\ [BufferNext]_bufferVars => [QueueStep]_(Queue!vars)
<1>1. BufferInit => Queue!Init
  BY NewBuffer DEF BufferInit, Queue!Init
<1>2. ASSUME BufferTypeOK, NEW data \in Pushed, Push(data)
      PROVE  Queue!Push(data)
  <2>1. WellFormed(buf) /\ data \in Seq(Bytes)
    BY <1>2, PushedIsSeq DEF BufferTypeOK
  <2>2. accepted' = (Len(Contents(buf)) + Len(data) <= MaxOf(Size, Limit))
    <3>1. Len(data) \in Nat /\ Len(Contents(buf)) = buf.used
      BY <2>1, ContentsIsSeq
    <3>2. Pushable(buf, Len(data)) = (buf.used + Len(data) <= MaxOf(Size, Limit))
      BY <2>1, <3>1, PushableBound
    <3> QED BY <1>2, <3>1, <3>2 DEF Push
  <2>3. Contents(buf)' = IF accepted' THEN Contents(buf) \o data ELSE Contents(buf)
    BY <1>2, <2>1, PushAppends DEF Push
  <2> QED BY <2>2, <2>3 DEF Queue!Push
<1>3. ASSUME BufferTypeOK, NEW n \in 0..MaxPop, Pop(n)
      PROVE  Queue!Pop(n)
  <2>1. WellFormed(buf) /\ n \in Nat
    BY <1>3, CallAssumption DEF BufferTypeOK
  <2>2. Contents(buf)' = SubSeq(Contents(buf), n + 1, Len(Contents(buf)))
    BY <1>3, <2>1, PopDrops DEF Pop
  <2> QED BY <1>3, <2>2 DEF Pop, Queue!Pop
<1>4. ASSUME BufferTypeOK, Reset
      PROVE  Queue!Reset
  BY <1>4, ResetEmpties DEF BufferTypeOK, Reset, Queue!Reset
<1>5. ASSUME UNCHANGED bufferVars
      PROVE  UNCHANGED Queue!vars
  BY <1>5 DEF bufferVars, Queue!vars
<1> QED BY <1>1, <1>2, <1>3, <1>4, <1>5 DEF BufferNext, QueueStep

(* The buffer implements the queue: it keeps every byte, in order, and     *)
(* refuses only what the larger of its size and limit cannot hold          *)
(* (continuousbuffer.hxx:55-98).                                           *)
THEOREM BufferImplements == BufferSpec => ImplementsQueue
<1>1. BufferInit => Queue!Init
  BY CallsImplementQueue
<1>2. BufferTypeOK /\ [BufferNext]_bufferVars => [QueueStep]_(Queue!vars)
  BY CallsImplementQueue
<1> QED BY <1>1, <1>2, BufferTypeCorrect, PTL DEF BufferSpec, ImplementsQueue

(* In the terms of the abstract specification, whose inputs are unbounded. *)
THEOREM ImplementsQueueSpec == BufferSpec => Queue!Spec
<1>1. BufferInit => Queue!Init
  BY CallsImplementQueue
<1>2. QueueStep => Queue!Next
  BY PushedIsSeq, CallAssumption DEF QueueStep, Queue!Next
<1>3. BufferTypeOK /\ [BufferNext]_bufferVars => [Queue!Next]_(Queue!vars)
  BY <1>2, CallsImplementQueue
<1> QED BY <1>1, <1>3, BufferTypeCorrect, PTL DEF BufferSpec, Queue!Spec

-----------------------------------------------------------------------------
(* The session: its inductive invariant.                                   *)
Depth(s, n) == Framer!Depth(s, n)

(* What the client sends.                                                  *)
Sent == {Open, Close} \cup Text

(* No prefix of what has been counted closes more than it opened.          *)
NestedSoFar == \A n \in 0..Counted : Depth(Contents(buffer), n) >= 0

(* What is left between two calls is no request.                           *)
NotComplete == pc = "idle" => jsonDepth > 0 \/ jsonDepthMax = 0

(* The chunk being worked on is in the content behind posPrev.             *)
ChunkInHand ==
  pc # "idle" =>
    /\ posPrev < posCur /\ posCur <= buffer.used
    /\ posCur - posPrev <= MaxChunk
    /\ \A i \in (posPrev + 1)..posCur : Contents(buffer)[i] \in Sent

Dispatched == pc = "dispatch" => jsonDepth = 0 /\ jsonDepthMax > 0

IInv ==
  /\ TypeOK /\ DepthMatchesContent
  /\ NestedSoFar /\ NotComplete /\ ChunkInHand /\ Dispatched

-----------------------------------------------------------------------------
(* The framer counts with the same cardinality.                            *)
LEMMA SameCardinality ==
  ASSUME NEW S
  PROVE  Framer!Cardinality(S) = Cardinality(S)
BY DEF Framer!Cardinality, Cardinality

(* Where a byte occurs.                                                    *)
Places(byte, s, n) == {i \in 1..n : s[i] = byte}

LEMMA CountIs ==
  ASSUME NEW byte, NEW s, NEW n \in Nat
  PROVE  Framer!Count(byte, s, n) = Cardinality(Places(byte, s, n))
BY SameCardinality DEF Framer!Count, Places

LEMMA PlacesFinite ==
  ASSUME NEW byte, NEW s, NEW n \in Nat
  PROVE  /\ IsFiniteSet(Places(byte, s, n))
         /\ Cardinality(Places(byte, s, n)) \in Nat
<1>1. IsFiniteSet(1..n)
  BY FS_Interval
<1>2. Places(byte, s, n) \in SUBSET (1..n)
  BY DEF Places
<1>3. IsFiniteSet(Places(byte, s, n))
  BY <1>1, <1>2, FS_Subset
<1> QED BY <1>3, FS_CardinalityType

(* One more byte counts if it is the one looked for.                       *)
LEMMA CountNext ==
  ASSUME NEW byte, NEW s, NEW n \in Nat
  PROVE  /\ Framer!Count(byte, s, n) \in Nat
         /\ Framer!Count(byte, s, n + 1) =
              Framer!Count(byte, s, n) + (IF s[n + 1] = byte THEN 1 ELSE 0)
<1> DEFINE S == Places(byte, s, n)
           T == Places(byte, s, n + 1)
<1>1. IsFiniteSet(S) /\ Cardinality(S) \in Nat /\ n + 1 \notin S
  <2>1. n + 1 \notin S
    BY DEF Places
  <2> QED BY <2>1, PlacesFinite
<1>2. s[n + 1] = byte => T = S \cup {n + 1}
  BY DEF Places
<1>3. s[n + 1] # byte => T = S
  BY DEF Places
<1>4. s[n + 1] = byte => Cardinality(T) = Cardinality(S) + 1
  <2> HIDE DEF S, T
  <2>1. Cardinality(S \cup {n + 1}) = Cardinality(S) + 1
    BY <1>1, FS_AddElement
  <2> QED BY <1>2, <2>1
<1>5. s[n + 1] # byte => Cardinality(T) = Cardinality(S)
  BY <1>3
<1>6. /\ Framer!Count(byte, s, n) = Cardinality(S)
      /\ Framer!Count(byte, s, n + 1) = Cardinality(T)
  BY CountIs
<1> HIDE DEF S, T
<1>7. CASE s[n + 1] = byte
  BY <1>1, <1>4, <1>6, <1>7
<1>8. CASE s[n + 1] # byte
  BY <1>1, <1>5, <1>6, <1>8
<1> QED BY <1>7, <1>8

LEMMA DepthNext ==
  ASSUME NEW s, NEW n \in Nat
  PROVE  /\ Depth(s, n) \in Int
         /\ s[n + 1] = Open => Depth(s, n + 1) = Depth(s, n) + 1
         /\ s[n + 1] = Close => Depth(s, n + 1) = Depth(s, n) - 1
         /\ s[n + 1] \notin {Open, Close} => Depth(s, n + 1) = Depth(s, n)
<1>1. /\ Framer!Count(Open, s, n) \in Nat
      /\ Framer!Count(Close, s, n) \in Nat
  BY CountNext
<1>2. /\ Framer!Count(Open, s, n + 1) =
           Framer!Count(Open, s, n) + (IF s[n + 1] = Open THEN 1 ELSE 0)
      /\ Framer!Count(Close, s, n + 1) =
           Framer!Count(Close, s, n) + (IF s[n + 1] = Close THEN 1 ELSE 0)
  BY CountNext
<1>3. Open # Close
  BY HandlerAssumption
<1> QED BY <1>1, <1>2, <1>3 DEF Depth, Framer!Depth

(* The depth of a prefix depends on the prefix only.                       *)
LEMMA DepthSame ==
  ASSUME NEW s, NEW t, NEW n \in Nat, \A i \in 1..n : s[i] = t[i]
  PROVE  Depth(s, n) = Depth(t, n)
<1>1. \A byte : Places(byte, s, n) = Places(byte, t, n)
  BY DEF Places
<1> QED BY <1>1, CountIs DEF Depth, Framer!Depth

LEMMA DepthOfNothing ==
  ASSUME NEW s
  PROVE  Depth(s, 0) = 0
<1>1. \A byte : Places(byte, s, 0) = {}
  BY DEF Places
<1>2. \A byte : Framer!Count(byte, s, 0) = 0
  BY <1>1, CountIs, FS_EmptySet
<1> QED BY <1>2 DEF Depth, Framer!Depth

-----------------------------------------------------------------------------
LEMMA InitInv == Init => IInv
<1> SUFFICES ASSUME Init PROVE IInv
  OBVIOUS
<1>1. WellFormed(buffer) /\ Contents(buffer) = << >> /\ buffer.used = 0
  BY NewBuffer DEF Init, New
<1>2. TypeOK
  BY <1>1 DEF Init, TypeOK
<1>3. Depth(Contents(buffer), 0) = 0
  BY DepthOfNothing
<1>4. DepthMatchesContent /\ NestedSoFar
  BY <1>1, <1>3 DEF Init, DepthMatchesContent, NestedSoFar, Counted, Depth
<1> QED BY <1>2, <1>4 DEF IInv, Init, NotComplete, ChunkInHand, Dispatched

(* What a buffer holds, and the size of it.                                *)
LEMMA BufferHolds ==
  ASSUME IInv
  PROVE  /\ WellFormed(buffer) /\ buffer.used \in Nat
         /\ buffer.used <= MaxOf(Size, Limit)
         /\ Contents(buffer) \in Seq(Bytes) /\ Len(Contents(buffer)) = buffer.used
<1>1. WellFormed(buffer)
  BY DEF IInv, TypeOK
<1>2. buffer.used \in Nat /\ buffer.used <= MaxOf(Size, Limit)
  BY <1>1, BufferAssumption DEF WellFormed, MaxOf
<1> QED BY <1>1, <1>2, ContentsIsSeq

(* The catch block leaves an empty buffer and no depth.                    *)
LEMMA AbortInv ==
  ASSUME IInv, NEW b, WellFormed(b), Abort(b)
  PROVE  IInv'
<1>1. WellFormed(buffer') /\ Contents(buffer') = << >> /\ buffer'.used = 0
  BY ResetEmpties, ContentsIsSeq DEF Abort
<1>2. TypeOK'
  BY <1>1 DEF Abort, IInv, TypeOK, locals
<1>3. Depth(Contents(buffer'), 0) = 0
  BY DepthOfNothing
<1>4. DepthMatchesContent' /\ NestedSoFar'
  BY <1>1, <1>3 DEF Abort, DepthMatchesContent, NestedSoFar, Counted, Depth
<1> QED BY <1>2, <1>4 DEF IInv, Abort, NotComplete, ChunkInHand, Dispatched

(* A chunk is a string of bytes.                                           *)
LEMMA ChunkIsSent ==
  ASSUME NEW data \in Chunk
  PROVE  /\ data \in Seq(Bytes) /\ Len(data) \in 0..MaxChunk
         /\ \A i \in 1..Len(data) : data[i] \in Sent
<1>1. PICK n \in 0..MaxChunk : data \in [1..n -> Sent]
  BY DEF Chunk, Sent
<1>2. n \in Nat /\ Sent \subseteq Bytes
  BY HandlerAssumption DEF Sent
<1> QED BY <1>1, <1>2

LEMMA NothingNewInv ==
  ASSUME IInv, NEW data \in Chunk, NothingNew(data)
  PROVE  IInv'
<1>1. /\ WellFormed(buffer') /\ Contents(buffer') = Contents(buffer)
      /\ Contents(buffer') \in Seq(Bytes)
  <2>1. Contents(buffer) \o data = Contents(buffer)
    BY ChunkIsSent, BufferHolds, ConcatEmptySeq, EmptySeq DEF NothingNew
  <2> QED BY <2>1, ChunkIsSent, BufferHolds, PushAppends DEF NothingNew
<1>2. buffer'.used = buffer.used
  BY <1>1, BufferHolds, ContentsIsSeq
<1>3. /\ pc = "idle" /\ pc' = "idle" /\ verdict' = "more"
      /\ UNCHANGED <<jsonDepth, jsonDepthMax, locals, request>>
  BY DEF NothingNew
<1>4. TypeOK'
  BY <1>1, <1>3 DEF IInv, TypeOK, locals
<1>5. DepthMatchesContent' /\ NestedSoFar'
  BY <1>1, <1>2, <1>3 DEF IInv, DepthMatchesContent, NestedSoFar, Counted, Depth
<1> QED BY <1>3, <1>4, <1>5 DEF IInv, NotComplete, ChunkInHand, Dispatched

(* What has been counted stays so when only what follows it changes.       *)
LEMMA CountedKept ==
  ASSUME IInv, Counted' = Counted, UNCHANGED <<jsonDepth, jsonDepthMax>>,
         \A i \in 1..Counted : Contents(buffer')[i] = Contents(buffer)[i]
  PROVE  DepthMatchesContent' /\ NestedSoFar'
<1> DEFINE c == Contents(buffer)
           d == Contents(buffer')
<1>1. Counted \in Nat
  BY BufferHolds DEF Counted, IInv, TypeOK
<1>2. \A n \in 0..Counted : Depth(c, n) = Depth(d, n)
  <2> SUFFICES ASSUME NEW n \in 0..Counted PROVE Depth(c, n) = Depth(d, n)
    OBVIOUS
  <2>1. n \in Nat /\ \A i \in 1..n : c[i] = d[i]
    BY <1>1
  <2> HIDE DEF c, d
  <2> QED BY <2>1, DepthSame
<1>3. /\ jsonDepth = Depth(c, Counted) /\ jsonDepthMax >= jsonDepth
      /\ jsonDepthMax > 0 <=> \E i \in 1..Counted : c[i] = Open
      /\ \A n \in 0..Counted : Depth(c, n) >= 0
  BY DEF IInv, DepthMatchesContent, NestedSoFar, Depth
<1>4. /\ jsonDepth' = Depth(d, Counted') /\ jsonDepthMax' >= jsonDepth'
      /\ jsonDepthMax' > 0 <=> \E i \in 1..Counted' : d[i] = Open
      /\ \A n \in 0..Counted' : Depth(d, n) >= 0
  <2> HIDE DEF c, d
  <2>1. Counted \in 0..Counted
    BY <1>1
  <2>2. \A i \in 1..Counted : c[i] = d[i]
    BY DEF c, d
  <2> QED BY <1>2, <1>3, <2>1, <2>2
<1> QED BY <1>4 DEF DepthMatchesContent, NestedSoFar, Depth

LEMMA ReceiveInv ==
  ASSUME IInv, NEW data \in Chunk, Receive(data)
  PROVE  IInv'
<1> DEFINE c == Contents(buffer)
<1>1. /\ WellFormed(buffer') /\ Contents(buffer') = c \o data
      /\ Contents(buffer') \in Seq(Bytes)
  BY ChunkIsSent, BufferHolds, PushAppends, ContentsIsSeq DEF Receive
<1>2. /\ Len(data) \in Nat /\ Len(data) > 0 /\ Len(data) <= MaxChunk
      /\ c \in Seq(Bytes) /\ Len(c) = buffer.used /\ buffer.used \in Nat
      /\ data \in Seq(Bytes) /\ \A i \in 1..Len(data) : data[i] \in Sent
  BY ChunkIsSent, BufferHolds, HandlerAssumption DEF Receive
<1>3. /\ buffer'.used = buffer.used + Len(data)
      /\ \A i \in 1..buffer.used : Contents(buffer')[i] = c[i]
      /\ \A i \in (buffer.used + 1)..(buffer.used + Len(data)) :
           Contents(buffer')[i] \in Sent
  <2> HIDE DEF c
  <2>1. Len(c \o data) = buffer.used + Len(data)
    BY <1>2, ConcatProperties
  <2>2. buffer'.used = Len(c \o data)
    BY <1>1, ContentsIsSeq
  <2>3. \A i \in 1..(buffer.used + Len(data)) :
          (c \o data)[i] = IF i <= buffer.used THEN c[i] ELSE data[i - buffer.used]
    BY <1>2, ConcatProperties
  <2> QED BY <1>1, <1>2, <2>1, <2>2, <2>3
<1>4. /\ pc = "idle" /\ pc' = "scan"
      /\ posPrev' = buffer.used /\ cur' = buffer.used
      /\ posCur' = buffer.used + Len(data)
      /\ UNCHANGED <<jsonDepth, jsonDepthMax, request, verdict>>
  BY DEF Receive
<1> HIDE DEF c
<1>5. TypeOK'
  BY <1>1, <1>2, <1>3, <1>4 DEF IInv, TypeOK
<1>6. DepthMatchesContent' /\ NestedSoFar'
  <2>1. Counted = buffer.used /\ Counted' = buffer.used
    BY <1>4 DEF Counted
  <2> QED BY <1>3, <1>4, <2>1, CountedKept DEF c
<1>7. ChunkInHand'
  BY <1>2, <1>3, <1>4 DEF ChunkInHand
<1> QED BY <1>4, <1>5, <1>6, <1>7 DEF IInv, NotComplete, Dispatched

-----------------------------------------------------------------------------
(* A turn of the loop counts one byte.                                     *)
LEMMA ScanInv ==
  ASSUME IInv, ScanOpen \/ ScanClose \/ ScanOther
  PROVE  IInv'
<1> DEFINE c == Contents(buffer)
           byte == c[cur + 1]
<1>1. /\ pc = "scan" /\ cur < posCur /\ cur' = cur + 1
      /\ UNCHANGED <<buffer, pc, posPrev, posCur, request, verdict>>
  BY DEF ScanOpen, ScanClose, ScanOther, Scanning
<1>2. \/ byte = Open /\ jsonDepth' = jsonDepth + 1
           /\ jsonDepthMax' = MaxOf(jsonDepthMax, jsonDepth + 1)
      \/ byte = Close /\ jsonDepth > 0 /\ jsonDepth' = jsonDepth - 1
           /\ jsonDepthMax' = jsonDepthMax
      \/ byte \notin {Open, Close} /\ jsonDepth' = jsonDepth
           /\ jsonDepthMax' = jsonDepthMax
  BY DEF ScanOpen, ScanClose, ScanOther, Scanned
<1>3. /\ cur \in Nat /\ posCur \in Nat /\ posPrev \in Nat
      /\ jsonDepth \in Nat /\ jsonDepthMax \in Nat
  BY DEF IInv, TypeOK
<1>4. Open # Close
  BY HandlerAssumption
<1>5. /\ jsonDepth = Depth(c, cur) /\ jsonDepthMax >= jsonDepth
      /\ jsonDepthMax > 0 <=> \E i \in 1..cur : c[i] = Open
      /\ \A n \in 0..cur : Depth(c, n) >= 0
  BY <1>1 DEF IInv, DepthMatchesContent, NestedSoFar, Counted, Depth
<1> HIDE DEF c
<1>6. jsonDepth' \in Nat /\ jsonDepthMax' \in Nat
  BY <1>2, <1>3 DEF MaxOf
<1>7. TypeOK'
  BY <1>1, <1>3, <1>6 DEF IInv, TypeOK
<1>8. jsonDepth' = Depth(c, cur + 1) /\ jsonDepthMax' >= jsonDepth'
  BY <1>2, <1>3, <1>4, <1>5, DepthNext DEF MaxOf
<1>9. jsonDepthMax' > 0 <=> \E i \in 1..(cur + 1) : c[i] = Open
  <2>1. (\E i \in 1..(cur + 1) : c[i] = Open)
          <=> byte = Open \/ \E i \in 1..cur : c[i] = Open
    BY <1>3
  <2>2. jsonDepthMax' > 0 <=> byte = Open \/ jsonDepthMax > 0
    BY <1>2, <1>3, <1>4 DEF MaxOf
  <2> QED BY <1>5, <2>1, <2>2
<1>10. \A n \in 0..(cur + 1) : Depth(c, n) >= 0
  <2>1. \A n \in 0..(cur + 1) : n \in 0..cur \/ n = cur + 1
    BY <1>3
  <2> QED BY <1>5, <1>6, <1>8, <2>1
<1>11. DepthMatchesContent' /\ NestedSoFar'
  BY <1>1, <1>8, <1>9, <1>10 DEF DepthMatchesContent, NestedSoFar, Counted, Depth, c
<1>12. ChunkInHand' /\ NotComplete' /\ Dispatched'
  BY <1>1 DEF IInv, ChunkInHand, NotComplete, Dispatched
<1> QED BY <1>7, <1>11, <1>12 DEF IInv

(* process() stops scanning, and waits for more or hands the request over. *)
LEMMA PartialInv ==
  ASSUME IInv, Partial
  PROVE  IInv'
<1>1. /\ pc = "scan" /\ cur = posCur /\ pc' = "idle" /\ verdict' = "more"
      /\ jsonDepth > 0 \/ jsonDepthMax = 0
      /\ UNCHANGED <<buffer, jsonDepth, jsonDepthMax, locals, request>>
  BY DEF Partial
<1>2. TypeOK'
  BY <1>1 DEF IInv, TypeOK, locals
<1>3. Counted' = Counted
  BY <1>1 DEF Counted, IInv, TypeOK
<1>4. DepthMatchesContent' /\ NestedSoFar'
  BY <1>1, <1>3, CountedKept
<1> QED BY <1>1, <1>2, <1>4 DEF IInv, NotComplete, ChunkInHand, Dispatched

(* The content after the terminator was appended, or was not.              *)
LEMMA CompleteAppends ==
  ASSUME IInv, Complete
  PROVE  /\ WellFormed(buffer')
         /\ posCur = buffer.used /\ buffer'.used \in {posCur, posCur + 1}
         /\ \A i \in 1..posCur : Contents(buffer')[i] = Contents(buffer)[i]
<1> DEFINE c == Contents(buffer)
           d == Contents(buffer')
<1>1. <<Nul>> \in Seq(Bytes) /\ Len(<<Nul>>) = 1
  BY BufferAssumption
<1>2. WellFormed(buffer') /\ d \in {c, c \o <<Nul>>}
  BY <1>1, BufferHolds, PushAppends DEF Complete
<1>3. buffer'.used = Len(d) /\ buffer.used = Len(c) /\ c \in Seq(Bytes)
  BY <1>2, BufferHolds, ContentsIsSeq
<1>4. posCur = buffer.used
  BY DEF Complete, IInv, TypeOK
<1> HIDE DEF c, d
<1>5. /\ Len(d) \in {Len(c), Len(c) + 1}
      /\ \A i \in 1..Len(c) : d[i] = c[i]
  BY <1>1, <1>2, <1>3, ConcatProperties
<1> QED BY <1>2, <1>3, <1>4, <1>5 DEF c, d

LEMMA CompleteInv ==
  ASSUME IInv, Complete
  PROVE  IInv'
<1>1. /\ pc = "scan" /\ cur = posCur /\ pc' = "dispatch"
      /\ jsonDepth = 0 /\ jsonDepthMax > 0
      /\ UNCHANGED <<jsonDepth, jsonDepthMax, locals, request, verdict>>
  BY DEF Complete
<1>2. TypeOK'
  BY <1>1, CompleteAppends DEF IInv, TypeOK, locals
<1>3. DepthMatchesContent' /\ NestedSoFar'
  <2>1. Counted = posCur /\ Counted' = posCur
    BY <1>1 DEF Counted, locals
  <2> QED BY <1>1, <2>1, CompleteAppends, CountedKept
<1>4. ChunkInHand'
  <2>1. /\ posPrev < posCur /\ posCur - posPrev <= MaxChunk
        /\ \A i \in (posPrev + 1)..posCur : Contents(buffer)[i] \in Sent
    BY <1>1 DEF IInv, ChunkInHand
  <2>2. posPrev \in Nat /\ posCur \in Nat
    BY DEF IInv, TypeOK
  <2>3. \A i \in (posPrev + 1)..posCur : i \in 1..posCur
    BY <2>2
  <2>4. \A i \in (posPrev + 1)..posCur : Contents(buffer')[i] \in Sent
    BY <2>1, <2>3, CompleteAppends
  <2>5. posCur <= buffer'.used
    BY <2>2, CompleteAppends
  <2> QED BY <1>1, <2>1, <2>4, <2>5 DEF ChunkInHand, locals
<1> QED BY <1>1, <1>2, <1>3, <1>4 DEF IInv, NotComplete, Dispatched

(* Parsing in place keeps the buffer well formed.                          *)
LEMMA ParsedIsWellFormed ==
  ASSUME NEW b, WellFormed(b), NEW n \in Nat
  PROVE  WellFormed(Parsed(b, n)) /\ Parsed(b, n).used = b.used
<1> DEFINE cells == [i \in 1..b.cap |-> IF i - b.start \in 1..n THEN Junk ELSE b.cells[i]]
           p == Parsed(b, n)
<1>1. b \in [cells : [1..b.cap -> Bytes], cap : Size..MaxOf(Size, Limit),
            start : Nat, used : Nat]
  BY DEF WellFormed
<1>2. cells \in [1..b.cap -> Bytes]
  BY <1>1, HandlerAssumption
<1>3. /\ p.cells = cells /\ p.cap = b.cap /\ p.start = b.start /\ p.used = b.used
      /\ p \in [cells : [1..b.cap -> Bytes], cap : Size..MaxOf(Size, Limit),
                start : Nat, used : Nat]
  <2>1. p = [b EXCEPT !.cells = cells]
    BY DEF Parsed
  <2> HIDE DEF cells, p
  <2> QED BY <1>1, <1>2, <2>1
<1> HIDE DEF p, cells
<1>4. WellFormed(p)
  BY <1>3 DEF WellFormed
<1> QED BY <1>3, <1>4 DEF p

(* The request goes with its terminator, and nothing is left.              *)
LEMMA DispatchEmpties ==
  ASSUME IInv, Dispatch
  PROVE  /\ WellFormed(buffer') /\ Contents(buffer') = << >> /\ buffer'.used = 0
         /\ request' = SubSeq(Contents(buffer), 1, posCur)
         /\ request' \in Seq(Bytes)
<1> DEFINE p == Parsed(buffer, posCur)
           q == AfterPop(p, posCur + 1)
<1>1. /\ posCur \in Nat /\ buffer.used \in {posCur, posCur + 1}
      /\ buffer' = q
  BY DEF IInv, TypeOK, Dispatch
<1>2. WellFormed(p) /\ p.used = buffer.used
  BY <1>1, BufferHolds, ParsedIsWellFormed
<1>3. /\ WellFormed(q) /\ Contents(q) = SubSeq(Contents(p), posCur + 2, Len(Contents(p)))
  <2> HIDE DEF p
  <2>1. posCur + 1 \in Nat /\ (posCur + 1) + 1 = posCur + 2
    BY <1>1
  <2> QED BY <1>2, <2>1, PopDrops
<1>4. Contents(p) \in Seq(Bytes) /\ Len(Contents(p)) < posCur + 2
  <2> HIDE DEF p
  <2> QED BY <1>1, <1>2, ContentsIsSeq
<1> HIDE DEF p, q
<1>5. Contents(q) = << >>
  BY <1>1, <1>3, <1>4, SubSeqEmpty
<1>6. q.used = 0
  BY <1>3, <1>5, ContentsIsSeq
<1>7. request' = SubSeq(Contents(buffer), 1, posCur)
  BY DEF Dispatch
<1>8. SubSeq(Contents(buffer), 1, posCur) \in Seq(Bytes)
  BY <1>1, BufferHolds, SubSeqProperties
<1> QED BY <1>1, <1>3, <1>5, <1>6, <1>7, <1>8

LEMMA DispatchInv ==
  ASSUME IInv, Dispatch
  PROVE  IInv'
<1>1. /\ pc = "dispatch" /\ pc' = "idle" /\ verdict' = "request"
      /\ jsonDepthMax' = 0 /\ jsonDepth' = 0
      /\ UNCHANGED locals
  BY DEF Dispatch, IInv, Dispatched
<1>2. TypeOK'
  BY <1>1, DispatchEmpties DEF IInv, TypeOK, locals
<1>3. Depth(Contents(buffer'), 0) = 0
  BY DepthOfNothing
<1>4. DepthMatchesContent' /\ NestedSoFar'
  BY <1>1, <1>3, DispatchEmpties DEF DepthMatchesContent, NestedSoFar, Counted, Depth
<1> QED BY <1>1, <1>2, <1>4 DEF IInv, NotComplete, ChunkInHand, Dispatched

LEMMA StepInv == IInv /\ [Next]_vars => IInv'
<1> SUFFICES ASSUME IInv, [Next]_vars
             PROVE  IInv'
  OBVIOUS
<1>1. ASSUME NEW data \in Chunk, TooLong(data) PROVE IInv'
  <2>1. WellFormed(AfterPush(buffer, data))
    BY <1>1, BufferHolds, ChunkIsSent, PushAppends
  <2> QED BY <1>1, <2>1, AbortInv DEF TooLong
<1>2. ASSUME NEW data \in Chunk, NothingNew(data) PROVE IInv'
  BY <1>2, NothingNewInv
<1>3. ASSUME NEW data \in Chunk, Receive(data) PROVE IInv'
  BY <1>3, ReceiveInv
<1>4. CASE ScanOpen \/ ScanClose \/ ScanOther
  BY <1>4, ScanInv
<1>5. CASE InvalidJson
  BY <1>5, BufferHolds, AbortInv DEF InvalidJson
<1>6. CASE Partial
  BY <1>6, PartialInv
<1>7. CASE Complete
  BY <1>7, CompleteInv
<1>8. CASE Dispatch
  BY <1>8, DispatchInv
<1>9. CASE UNCHANGED vars
  BY <1>9 DEF vars, locals, IInv, TypeOK, DepthMatchesContent, NestedSoFar,
              NotComplete, ChunkInHand, Dispatched, Counted
<1> QED BY <1>1, <1>2, <1>3, <1>4, <1>5, <1>6, <1>7, <1>8, <1>9 DEF Next

(* No turn of the scan and no way out of process() breaks the invariant.   *)
THEOREM Inductive == Spec => []IInv
BY InitInv, StepInv, PTL DEF Spec

(* The offsets of process() stay inside the content, whichever path it     *)
(* leaves by (sessionhandler.cxx:38-98).                                   *)
THEOREM TypeCorrect == Spec => []TypeOK
<1>1. IInv => TypeOK
  BY DEF IInv
<1> QED BY Inductive, <1>1, PTL

(* The depth kept from call to call is that of the bytes counted           *)
(* (sessionhandler.cxx:52-79, 86-94).                                      *)
THEOREM DepthMatches == Spec => []DepthMatchesContent
<1>1. IInv => DepthMatchesContent
  BY DEF IInv
<1> QED BY Inductive, <1>1, PTL

-----------------------------------------------------------------------------
(* The refinement.  How the framer judges a stream, in terms of Depth.     *)
Acceptable(s) ==
  Len(s) <= MaxOf(Size, Limit) /\ \A n \in 0..Len(s) : Depth(s, n) >= 0
IsRequest(s) ==
  Depth(s, Len(s)) = 0 /\ \E i \in DOMAIN s : s[i] = Open

LEMMA FramerReceives ==
  ASSUME NEW data, NEW s, s = Committed \o data,
         \/ ~Acceptable(s) /\ Committed' = << >> /\ verdict' = "abort"
              /\ request' = request
         \/ Acceptable(s) /\ IsRequest(s) /\ Committed' = << >>
              /\ verdict' = "request" /\ request' = s
         \/ Acceptable(s) /\ ~IsRequest(s) /\ Committed' = s
              /\ verdict' = "more" /\ request' = request
  PROVE  Framer!Receive(data)
BY DEF Framer!Receive, Framer!Nested, Framer!Opened, Acceptable, IsRequest, Depth

(* The chunk being worked on, and the stream with it.                      *)
LEMMA StreamInHand ==
  ASSUME IInv, pc # "idle"
  PROVE  LET c == Contents(buffer)
             data == SubSeq(c, posPrev + 1, posCur)
             s == SubSeq(c, 1, posCur)
         IN  /\ data \in Chunk
             /\ s = Committed \o data
             /\ s \in Seq(Bytes) /\ Len(s) = posCur /\ posCur \in Nat
             /\ posCur <= MaxOf(Size, Limit)
             /\ \A i \in 1..posCur : s[i] = c[i]
             /\ \A n \in 0..posCur : Depth(s, n) = Depth(c, n)
<1> DEFINE c == Contents(buffer)
           data == SubSeq(c, posPrev + 1, posCur)
           s == SubSeq(c, 1, posCur)
<1>1. /\ posPrev \in Nat /\ posCur \in Nat
      /\ posPrev < posCur /\ posCur <= buffer.used
      /\ posCur - posPrev <= MaxChunk
      /\ \A i \in (posPrev + 1)..posCur : c[i] \in Sent
  BY DEF IInv, TypeOK, ChunkInHand
<1>2. c \in Seq(Bytes) /\ Len(c) = buffer.used /\ buffer.used \in Nat
  BY BufferHolds
<1>3. posCur <= MaxOf(Size, Limit)
  BY <1>1, BufferHolds, BufferAssumption DEF MaxOf
<1>4. Committed = SubSeq(c, 1, posPrev)
  BY DEF Committed
<1> HIDE DEF c
<1>5. /\ data \in Seq(Bytes) /\ Len(data) = posCur - posPrev
      /\ \A i \in 1..(posCur - posPrev) : data[i] = c[posPrev + i]
  <2>1. posPrev + 1 \in 1..(Len(c) + 1) /\ posCur \in 0..Len(c)
    BY <1>1, <1>2
  <2> QED BY <1>1, <1>2, <2>1, SubSeqProperties
<1>6. data \in Chunk
  <2>1. \A i \in 1..(posCur - posPrev) : data[i] \in Sent
    BY <1>1, <1>5
  <2>2. posCur - posPrev \in 0..MaxChunk
    BY <1>1, HandlerAssumption
  <2>3. data \in [1..(posCur - posPrev) -> Sent]
    <3> HIDE DEF data
    <3> QED BY <1>5, <2>1
  <2> HIDE DEF data
  <2> QED BY <2>2, <2>3 DEF Chunk, Sent
<1>7. s = Committed \o data
  <2>1. posPrev \in 0..Len(c) /\ posCur \in 0..Len(c)
    BY <1>1, <1>2
  <2> QED BY <1>1, <1>2, <1>4, <2>1, ConcatAdjacentSubSeq
<1>8. /\ s \in Seq(Bytes) /\ Len(s) = posCur
      /\ \A i \in 1..posCur : s[i] = c[i]
  BY <1>1, <1>2, SubSeqProperties
<1>9. \A n \in 0..posCur : Depth(s, n) = Depth(c, n)
  <2> SUFFICES ASSUME NEW n \in 0..posCur PROVE Depth(s, n) = Depth(c, n)
    OBVIOUS
  <2>1. n \in Nat /\ \A i \in 1..n : s[i] = c[i]
    BY <1>1, <1>8
  <2> HIDE DEF s
  <2> QED BY <2>1, DepthSame
<1> HIDE DEF s, data
<1>10. /\ data \in Chunk
       /\ s = Committed \o data
       /\ s \in Seq(Bytes) /\ Len(s) = posCur /\ posCur \in Nat
       /\ posCur <= MaxOf(Size, Limit)
       /\ \A i \in 1..posCur : s[i] = c[i]
       /\ \A n \in 0..posCur : Depth(s, n) = Depth(c, n)
  BY <1>1, <1>3, <1>6, <1>7, <1>8, <1>9
<1> QED BY <1>10 DEF c, s, data

LEMMA TooLongRefines ==
  ASSUME IInv, NEW data \in Chunk, TooLong(data)
  PROVE  Framer!Receive(data)
<1> DEFINE c == Contents(buffer)
           s == c \o data
<1>1. /\ Committed = c /\ Committed' = << >>
      /\ verdict' = "abort" /\ request' = request
  <2>1. WellFormed(AfterPush(buffer, data))
    BY BufferHolds, ChunkIsSent, PushAppends
  <2>2. Contents(buffer') = << >>
    BY <2>1, ResetEmpties DEF TooLong, Abort
  <2> QED BY <2>2 DEF TooLong, Abort, Committed
<1>2. /\ c \in Seq(Bytes) /\ Len(c) = buffer.used /\ buffer.used \in Nat
      /\ data \in Seq(Bytes) /\ Len(data) \in Nat /\ WellFormed(buffer)
  BY BufferHolds, ChunkIsSent
<1>3. ~(buffer.used + Len(data) <= MaxOf(Size, Limit))
  BY <1>2, PushableBound DEF TooLong
<1>4. Len(s) = buffer.used + Len(data)
  <2> HIDE DEF c
  <2> QED BY <1>2, ConcatProperties
<1>5. ~Acceptable(s)
  <2> HIDE DEF s
  <2> QED BY <1>3, <1>4 DEF Acceptable
<1> QED BY <1>1, <1>5, FramerReceives

LEMMA NothingNewRefines ==
  ASSUME IInv, NEW data \in Chunk, NothingNew(data)
  PROVE  Framer!Receive(data)
<1> DEFINE c == Contents(buffer)
<1>1. /\ c \in Seq(Bytes) /\ Len(c) = buffer.used /\ buffer.used \in Nat
      /\ buffer.used <= MaxOf(Size, Limit) /\ WellFormed(buffer)
  BY BufferHolds
<1>2. c \o data = c
  <2> HIDE DEF c
  <2> QED BY <1>1, ChunkIsSent, ConcatEmptySeq, EmptySeq DEF NothingNew
<1>3. /\ Committed = c /\ Committed' = c
      /\ verdict' = "more" /\ request' = request
  <2>1. Contents(buffer') = c
    BY <1>1, <1>2, ChunkIsSent, PushAppends DEF NothingNew
  <2> QED BY <2>1 DEF NothingNew, Committed
<1>4. /\ jsonDepth = Depth(c, Len(c)) /\ \A n \in 0..Len(c) : Depth(c, n) >= 0
      /\ jsonDepthMax > 0 <=> \E i \in 1..Len(c) : c[i] = Open
      /\ jsonDepth > 0 \/ jsonDepthMax = 0
      /\ jsonDepth \in Nat /\ jsonDepthMax \in Nat
  BY <1>1 DEF NothingNew, IInv, TypeOK, DepthMatchesContent, NestedSoFar, NotComplete,
              Counted, Depth
<1>5. Acceptable(c) /\ ~IsRequest(c)
  <2>1. DOMAIN c = 1..Len(c)
    BY <1>1
  <2> HIDE DEF c
  <2> QED BY <1>1, <1>4, <2>1 DEF Acceptable, IsRequest
<1> QED BY <1>2, <1>3, <1>5, FramerReceives

LEMMA InvalidRefines ==
  ASSUME IInv, InvalidJson
  PROVE  \E data \in Chunk : Framer!Receive(data)
<1> DEFINE c == Contents(buffer)
           data == SubSeq(c, posPrev + 1, posCur)
           s == SubSeq(c, 1, posCur)
<1>1. /\ pc = "scan" /\ cur < posCur /\ jsonDepth = 0
      /\ c[cur + 1] = Close
      /\ verdict' = "abort" /\ request' = request
  BY DEF InvalidJson, Scanning, Scanned, Abort
<1>2. Committed' = << >>
  <2>1. Contents(buffer') = << >>
    BY BufferHolds, ResetEmpties DEF InvalidJson, Abort
  <2> QED BY <2>1 DEF InvalidJson, Abort, Committed
<1>3. /\ data \in Chunk /\ s = Committed \o data
      /\ Len(s) = posCur /\ posCur \in Nat
      /\ \A n \in 0..posCur : Depth(s, n) = Depth(c, n)
  BY <1>1, StreamInHand
<1>4. cur \in Nat /\ Depth(c, cur) = 0
  BY <1>1 DEF IInv, TypeOK, DepthMatchesContent, Counted, Depth
<1> HIDE DEF c
<1>5. Depth(c, cur + 1) = -1
  BY <1>1, <1>4, DepthNext
<1>6. ~Acceptable(s)
  <2> HIDE DEF s, data
  <2>1. cur + 1 \in 0..Len(s)
    BY <1>1, <1>3, <1>4
  <2>2. Depth(s, cur + 1) = -1
    BY <1>3, <1>5, <2>1
  <2> QED BY <2>1, <2>2 DEF Acceptable
<1> HIDE DEF s, data
<1> QED BY <1>1, <1>2, <1>3, <1>6, FramerReceives

LEMMA PartialRefines ==
  ASSUME IInv, Partial
  PROVE  \E data \in Chunk : Framer!Receive(data)
<1> DEFINE c == Contents(buffer)
           data == SubSeq(c, posPrev + 1, posCur)
           s == SubSeq(c, 1, posCur)
<1>1. /\ pc = "scan" /\ cur = posCur
      /\ jsonDepth > 0 \/ jsonDepthMax = 0
      /\ verdict' = "more" /\ request' = request
      /\ pc' = "idle" /\ buffer' = buffer /\ posCur = buffer.used
  BY DEF Partial, IInv, TypeOK
<1>2. /\ data \in Chunk /\ s = Committed \o data /\ s \in Seq(Bytes)
      /\ Len(s) = posCur /\ posCur \in Nat /\ posCur <= MaxOf(Size, Limit)
      /\ \A i \in 1..posCur : s[i] = c[i]
      /\ \A n \in 0..posCur : Depth(s, n) = Depth(c, n)
  BY <1>1, StreamInHand
<1>3. c \in Seq(Bytes) /\ Len(c) = posCur
  BY <1>1, BufferHolds
<1>4. /\ jsonDepth = Depth(c, posCur) /\ \A n \in 0..posCur : Depth(c, n) >= 0
      /\ jsonDepthMax > 0 <=> \E i \in 1..posCur : c[i] = Open
      /\ jsonDepth \in Nat /\ jsonDepthMax \in Nat
  BY <1>1 DEF IInv, TypeOK, DepthMatchesContent, NestedSoFar, Counted, Depth
<1>5. Committed' = c
  BY <1>1 DEF Committed
<1> HIDE DEF c, s, data
<1>6. s = c
  BY <1>2, <1>3, SeqEqual
<1>7. Acceptable(s) /\ ~IsRequest(s)
  <2>1. DOMAIN s = 1..posCur /\ posCur \in 0..posCur
    BY <1>2
  <2>2. Depth(s, posCur) = jsonDepth /\ \A n \in 0..posCur : Depth(s, n) >= 0
    BY <1>2, <1>4, <2>1
  <2>3. jsonDepthMax > 0 <=> \E i \in DOMAIN s : s[i] = Open
    BY <1>2, <1>4, <2>1
  <2>4. jsonDepth > 0 \/ ~(jsonDepthMax > 0)
    BY <1>1, <1>4
  <2> QED BY <1>2, <1>4, <2>2, <2>3, <2>4 DEF Acceptable, IsRequest
<1> QED BY <1>1, <1>2, <1>5, <1>6, <1>7, FramerReceives

LEMMA DispatchRefines ==
  ASSUME IInv, Dispatch
  PROVE  \E data \in Chunk : Framer!Receive(data)
<1> DEFINE c == Contents(buffer)
           data == SubSeq(c, posPrev + 1, posCur)
           s == SubSeq(c, 1, posCur)
<1>1. /\ pc = "dispatch" /\ cur = posCur /\ pc' = "idle"
      /\ jsonDepth = 0 /\ jsonDepthMax > 0
      /\ verdict' = "request"
  BY DEF Dispatch, IInv, TypeOK, Dispatched
<1>2. Committed' = << >> /\ request' = s
  BY <1>1, DispatchEmpties DEF Committed
<1>3. /\ data \in Chunk /\ s = Committed \o data /\ s \in Seq(Bytes)
      /\ Len(s) = posCur /\ posCur \in Nat /\ posCur <= MaxOf(Size, Limit)
      /\ \A i \in 1..posCur : s[i] = c[i]
      /\ \A n \in 0..posCur : Depth(s, n) = Depth(c, n)
  BY <1>1, StreamInHand
<1>4. /\ jsonDepth = Depth(c, posCur) /\ \A n \in 0..posCur : Depth(c, n) >= 0
      /\ jsonDepthMax > 0 <=> \E i \in 1..posCur : c[i] = Open
  BY <1>1 DEF IInv, DepthMatchesContent, NestedSoFar, Counted, Depth
<1> HIDE DEF c, s, data
<1>5. Acceptable(s) /\ IsRequest(s)
  <2>1. DOMAIN s = 1..posCur /\ posCur \in 0..posCur
    BY <1>3
  <2>2. Depth(s, posCur) = 0 /\ \A n \in 0..posCur : Depth(s, n) >= 0
    BY <1>1, <1>3, <1>4, <2>1
  <2>3. \E i \in DOMAIN s : s[i] = Open
    BY <1>1, <1>3, <1>4, <2>1
  <2> QED BY <1>3, <2>2, <2>3 DEF Acceptable, IsRequest
<1> QED BY <1>1, <1>2, <1>3, <1>5, FramerReceives

LEMMA ConcatBegins ==
  ASSUME NEW S, NEW a \in Seq(S), NEW b \in Seq(S)
  PROVE  /\ Len(a \o b) = Len(a) + Len(b) /\ Len(b) \in Nat
         /\ \A i \in 1..Len(a) : (a \o b)[i] = a[i]
<1>1. Len(a \o b) = Len(a) + Len(b)
  BY ConcatProperties
<1>2. Len(a) \in Nat /\ Len(b) \in Nat
  OBVIOUS
<1>3. \A i \in 1..Len(a) : (a \o b)[i] = a[i]
  <2> TAKE i \in 1..Len(a)
  <2>1. i \in 1..(Len(a) + Len(b)) /\ i <= Len(a)
    BY <1>2
  <2> QED BY <2>1, ConcatProperties
<1> QED BY <1>1, <1>2, <1>3

(* The other steps are internal.                                           *)
LEMMA InternalRefines ==
  ASSUME IInv,
         \/ \E data \in Chunk : Receive(data)
         \/ ScanOpen \/ ScanClose \/ ScanOther \/ Complete
         \/ UNCHANGED vars
  PROVE  UNCHANGED <<Committed, request, verdict>>
<1>1. ASSUME NEW data \in Chunk, Receive(data)
      PROVE  UNCHANGED <<Committed, request, verdict>>
  <2> DEFINE c == Contents(buffer)
             d == Contents(buffer')
  <2>1. /\ pc = "idle" /\ pc' = "scan" /\ posPrev' = buffer.used
        /\ UNCHANGED <<request, verdict>>
    BY <1>1 DEF Receive
  <2>2. /\ c \in Seq(Bytes) /\ Len(c) = buffer.used /\ buffer.used \in Nat
        /\ data \in Seq(Bytes) /\ d = c \o data
    BY <1>1, BufferHolds, ChunkIsSent, PushAppends DEF Receive
  <2>3. Committed = c /\ Committed' = SubSeq(d, 1, buffer.used)
    BY <2>1 DEF Committed
  <2> HIDE DEF c, d
  <2>4. /\ Len(d) = Len(c) + Len(data) /\ Len(data) \in Nat
        /\ \A i \in 1..Len(c) : d[i] = c[i]
    BY <2>2, ConcatBegins
  <2>5. \A i \in 1..Len(c) : d[i] \in Bytes
    BY <2>2, <2>4
  <2>6. /\ SubSeq(d, 1, buffer.used) \in Seq(Bytes)
        /\ Len(SubSeq(d, 1, buffer.used)) = buffer.used
        /\ \A i \in 1..buffer.used : SubSeq(d, 1, buffer.used)[i] = d[i]
    <3> DEFINE n == buffer.used
    <3>1. n \in Nat /\ \A i \in 1..n : d[i] \in Bytes
      BY <2>2, <2>5
    <3> HIDE DEF n
    <3>2. /\ SubSeq(d, 1, n) \in Seq(Bytes)
          /\ Len(SubSeq(d, 1, n)) = IF 1 <= n THEN n - 1 + 1 ELSE 0
          /\ \A i \in 1..(n - 1 + 1) : SubSeq(d, 1, n)[i] = d[1 + i - 1]
      BY <3>1, SubSeqProperties
    <3>3. Len(SubSeq(d, 1, n)) = n
      BY <3>1, <3>2
    <3>4. \A i \in 1..n : SubSeq(d, 1, n)[i] = d[i]
      <4> TAKE i \in 1..n
      <4>1. i \in 1..(n - 1 + 1) /\ 1 + i - 1 = i
        BY <3>1
      <4> QED BY <3>2, <4>1
    <3> QED BY <3>2, <3>3, <3>4 DEF n
  <2>7. SubSeq(d, 1, buffer.used) = c
    BY <2>2, <2>4, <2>6, SeqEqual
  <2> QED BY <2>1, <2>3, <2>7
<1>2. ASSUME ScanOpen \/ ScanClose \/ ScanOther \/ UNCHANGED vars
      PROVE  UNCHANGED <<Committed, request, verdict>>
  BY <1>2 DEF ScanOpen, ScanClose, ScanOther, Scanning, vars, locals, Committed
<1>3. ASSUME Complete
      PROVE  UNCHANGED <<Committed, request, verdict>>
  <2> DEFINE c == Contents(buffer)
             d == Contents(buffer')
  <2>1. /\ pc = "scan" /\ pc' = "dispatch"
        /\ UNCHANGED <<posPrev, posCur, request, verdict>>
    BY <1>3 DEF Complete, locals
  <2>2. Committed = SubSeq(c, 1, posPrev) /\ Committed' = SubSeq(d, 1, posPrev)
    BY <2>1 DEF Committed
  <2>3. /\ posPrev \in Nat /\ posCur \in Nat /\ posPrev < posCur
        /\ posCur = buffer.used
        /\ c \in Seq(Bytes) /\ Len(c) = buffer.used
        /\ \A i \in 1..posCur : d[i] = c[i]
    BY <1>3, <2>1, BufferHolds, CompleteAppends DEF IInv, TypeOK, ChunkInHand
  <2> HIDE DEF c, d
  <2>4. \A i \in 1..posPrev : c[i] \in Bytes /\ d[i] = c[i]
    BY <2>3
  <2>5. SubSeq(c, 1, posPrev) = SubSeq(d, 1, posPrev)
    BY <2>3, <2>4
  <2> QED BY <2>1, <2>2, <2>5
<1> QED BY <1>1, <1>2, <1>3

(* Every chunk is handled as the framer handles it, however the stream is  *)
(* cut, and no byte of an earlier request, no terminator and nothing that  *)
(* parsing left behind gets into a later one (sessionhandler.cxx:32-99).   *)
THEOREM Implements == Spec => ImplementsFramer
<1>1. Init => Framer!Init
  BY NewBuffer DEF Init, Framer!Init, Committed
<1>2. IInv /\ [Next]_vars => [\E data \in Chunk : Framer!Receive(data)]_(Framer!vars)
  <2> SUFFICES ASSUME IInv, [Next]_vars
               PROVE  \/ \E data \in Chunk : Framer!Receive(data)
                      \/ UNCHANGED <<Committed, request, verdict>>
    BY DEF Framer!vars
  <2> QED
    BY TooLongRefines, NothingNewRefines, InvalidRefines, PartialRefines,
       DispatchRefines, InternalRefines DEF Next
<1> QED BY Inductive, <1>1, <1>2, PTL DEF Spec, ImplementsFramer
=============================================================================
