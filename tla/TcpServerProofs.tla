-------------------------- MODULE TcpServerProofs --------------------------
(***************************************************************************)
(* Proofs about TcpServer, for any number of sessions, chunks and failed   *)
(* accepts: the chunks of a client reach its session handler in order and  *)
(* none of them twice.  And, for any sizes of responses and any room in    *)
(* the sockets: a client that waits for its responses gets them whole and  *)
(* in order, and as they were written when they fit.                       *)
(***************************************************************************)
EXTENDS TcpServer, SequenceTheorems, TLAPS

Held == sessions \cup queued

(* A session that was never started has no read, no write and no chunk.    *)
Unstarted(s) ==
  s \notin started => got[s] = << >> /\ read[s] = "none"

(* The chunks on their way are those sent, and counted off in order.       *)
Intact(s) ==
  /\ Len(Stream(s)) <= sent[s]
  /\ InOrder(got[s])
  /\ s \in Held => InOrder(Stream(s))
  /\ s \in up \cap Held => Len(Stream(s)) = sent[s]

Queues ==
  /\ queued \cap (sessions \cup started) = {}
  /\ io \in Ids => io \in started

IInv ==
  /\ SessionsOK /\ Queues
  /\ \A s \in Ids : Unstarted(s) /\ Intact(s)

-----------------------------------------------------------------------------
LEMMA Regroup ==
  ASSUME NEW a \in Seq(Nat), NEW b \in Seq(Nat), NEW c \in Seq(Nat)
  PROVE  (a \o b) \o c = a \o (b \o c)
BY ConcatAssociative

LEMMA SeqOfNaturals ==
  ASSUME NEW T \in SUBSET Nat, NEW q \in Seq(T)
  PROVE  q \in Seq(Nat)
<1>1. q \in [1..Len(q) -> T] /\ Len(q) \in Nat
  OBVIOUS
<1>2. q \in [1..Len(q) -> Nat]
  BY <1>1
<1> QED BY <1>1, <1>2, SeqDef

(* A chunk on its way from the client to the handler passes one place      *)
(* after the other and keeps its place among the others: it is read,     *)
(* swapped and processed.                                                  *)
LEMMA Reading ==
  ASSUME NEW g \in Seq(Nat), NEW p \in Seq(Nat), NEW k \in Seq(Nat), k # << >>
  PROVE  (g \o (p \o <<Head(k)>>)) \o Tail(k) = (g \o (p \o << >>)) \o k
<1>1. Head(k) \in Nat /\ Tail(k) \in Seq(Nat) /\ <<Head(k)>> \in Seq(Nat)
  <2>1. Head(k) \in Nat /\ Tail(k) \in Seq(Nat)
    BY HeadTailProperties
  <2> QED BY <2>1
<1>2. k = <<Head(k)>> \o Tail(k)
  BY <1>1, HeadTailProperties, SeqEqual, ConcatProperties
<1>3. g \o (p \o <<Head(k)>>) = (g \o p) \o <<Head(k)>> /\ g \o p \in Seq(Nat)
  <2>1. g \o p \in Seq(Nat)
    BY ConcatProperties
  <2>2. (g \o p) \o <<Head(k)>> = g \o (p \o <<Head(k)>>)
    BY <1>1, Regroup
  <2> QED BY <2>1, <2>2
<1>4. ((g \o p) \o <<Head(k)>>) \o Tail(k) = (g \o p) \o (<<Head(k)>> \o Tail(k))
  BY <1>1, <1>3, Regroup
<1>5. p \o << >> = p
  BY ConcatEmptySeq
<1> QED BY <1>2, <1>3, <1>4, <1>5

LEMMA Processing ==
  ASSUME NEW g \in Seq(Nat), NEW q \in Seq(Nat), NEW x \in Nat
  PROVE  (g \o <<x>>) \o (<< >> \o q) = g \o (<<x>> \o q)
<1>1. <<x>> \in Seq(Nat)
  OBVIOUS
<1>2. << >> \o q = q
  BY ConcatEmptySeq
<1>3. (g \o <<x>>) \o q = g \o (<<x>> \o q)
  BY <1>1, Regroup
<1> QED BY <1>2, <1>3

LEMMA Swapping ==
  ASSUME NEW x \in Nat
  PROVE  <<x>> \o << >> = << >> \o <<x>>
<1>1. <<x>> \in Seq(Nat)
  OBVIOUS
<1> QED BY <1>1, ConcatEmptySeq

(* Sequences of chunks.                                                    *)
LEMMA ChunkSeqs ==
  ASSUME SessionsOK, NEW s \in Ids
  PROVE  /\ got[s] \in Seq(Nat) /\ kernel[s] \in Seq(Nat)
         /\ InHand(s) \in Seq(Nat) /\ Stream(s) \in Seq(Nat)
         /\ Chunk(s) \in Nat /\ slots[s][active[s]] \in Nat
         /\ Len(Stream(s)) = Len(got[s]) + Len(InHand(s)) + Len(kernel[s])
<1>1. 1..MaxChunks \subseteq Nat /\ 0..MaxChunks \subseteq Nat
  BY ServerAssumption
<1>2. got[s] \in Seq(Nat) /\ kernel[s] \in Seq(Nat)
  <2>1. got[s] \in Seq(1..MaxChunks) /\ kernel[s] \in Seq(1..MaxChunks)
    BY DEF SessionsOK
  <2> QED BY <1>1, <2>1, SeqOfNaturals
<1>3. Chunk(s) \in Nat /\ slots[s][active[s]] \in Nat
  <2>1. slots[s] \in [0..1 -> 0..MaxChunks] /\ active[s] \in 0..1 /\ 1 - active[s] \in 0..1
    BY DEF SessionsOK
  <2> QED BY <1>1, <2>1 DEF Chunk
<1>4. InHand(s) \in Seq(Nat)
  <2>1. /\ (IF io = s THEN <<Chunk(s)>> ELSE << >>) \in Seq(Nat)
        /\ (IF read[s] = "done" THEN <<slots[s][active[s]]>> ELSE << >>) \in Seq(Nat)
    BY <1>3
  <2> QED BY <2>1, ConcatProperties DEF InHand
<1>5. /\ got[s] \o InHand(s) \in Seq(Nat)
      /\ Len(got[s] \o InHand(s)) = Len(got[s]) + Len(InHand(s))
  BY <1>2, <1>4, ConcatProperties
<1> QED BY <1>2, <1>3, <1>4, <1>5, ConcatProperties DEF Stream

-----------------------------------------------------------------------------
LEMMA InitInv == Init => IInv
<1> SUFFICES ASSUME Init PROVE IInv
  OBVIOUS
<1>1. SessionsOK
  BY ServerAssumption DEF Init, SessionsOK
<1>2. Queues
  BY ServerAssumption DEF Init, Queues
<1>3. ASSUME NEW s \in Ids PROVE Unstarted(s) /\ Intact(s)
  <2>1. /\ got[s] = << >> /\ kernel[s] = << >> /\ read[s] = "none" /\ io # s
        /\ sent[s] = 0 /\ s \notin Held
    BY <1>3, ServerAssumption DEF Init, Held
  <2>2. Stream(s) = (<< >> \o (<< >> \o << >>)) \o << >>
    BY <2>1 DEF Stream, InHand
  <2>3. Stream(s) = << >>
    BY <2>2, ConcatEmptySeq, EmptySeq
  <2> QED BY <2>1, <2>3 DEF Unstarted, Intact, InOrder
<1> QED BY <1>1, <1>2, <1>3 DEF IInv

-----------------------------------------------------------------------------
(* What is in hand, as the two halves it comes from.                       *)
InProcess(s) == IF io = s THEN <<Chunk(s)>> ELSE << >>
InRead(s) == IF read[s] = "done" THEN <<slots[s][active[s]]>> ELSE << >>

LEMMA Halves ==
  ASSUME SessionsOK, NEW s \in Ids
  PROVE  /\ Stream(s) = (got[s] \o (InProcess(s) \o InRead(s))) \o kernel[s]
         /\ Stream(s)' = (got'[s] \o (InProcess(s)' \o InRead(s)')) \o kernel'[s]
         /\ InProcess(s) \in Seq(Nat) /\ InRead(s) \in Seq(Nat)
<1>1. Chunk(s) \in Nat /\ slots[s][active[s]] \in Nat
  BY ChunkSeqs
<1>2. InProcess(s) \in Seq(Nat) /\ InRead(s) \in Seq(Nat)
  BY <1>1 DEF InProcess, InRead
<1> QED BY <1>2 DEF Stream, InHand, InProcess, InRead

(* The stream of a session depends on what is its own only.                *)
LEMMA SameStream ==
  ASSUME NEW s \in Ids, got'[s] = got[s], kernel'[s] = kernel[s],
         slots'[s] = slots[s], active'[s] = active[s],
         io' = s <=> io = s, read'[s] = "done" <=> read[s] = "done"
  PROVE  Stream(s)' = Stream(s)
BY DEF Stream, InHand, Chunk

LEMMA IntactKept ==
  ASSUME NEW s \in Ids, Intact(s), Stream(s)' = Stream(s),
         sent'[s] = sent[s], InOrder(got'[s]),
         s \in Held' => s \in Held, s \in up' => s \in up
  PROVE  Intact(s)'
BY DEF Intact

(* The steps of a session, of an accept and of the outside leave the other *)
(* sessions alone.                                                         *)
LEMMA OthersKept ==
  ASSUME IInv, NEW s \in Ids, NEW t \in Ids, t # s,
         got'[t] = got[t], kernel'[t] = kernel[t], slots'[t] = slots[t],
         active'[t] = active[t], read'[t] = read[t],
         sent'[t] = sent[t], io' = t <=> io = t,
         t \in started' <=> t \in started,
         t \in Held' => t \in Held, t \in up' => t \in up
  PROVE  Unstarted(t)' /\ Intact(t)'
<1>1. Unstarted(t) /\ Intact(t)
  BY DEF IInv
<1>2. Stream(t)' = Stream(t)
  BY SameStream
<1>3. InOrder(got'[t])
  BY <1>1 DEF Intact
<1> QED BY <1>1, <1>2, <1>3, IntactKept DEF Unstarted

(* What io holds between handlers and after a crash is no session.         *)
LEMMA IdleIsNoSession ==
  ASSUME NEW t \in Ids
  PROVE  t # 0 /\ t # -1
BY ServerAssumption

-----------------------------------------------------------------------------
LEMMA ConnectStep ==
  ASSUME IInv, NEW s \in Ids, Connect(s)
  PROVE  IInv'
<1>1. /\ s \notin up \cup queued \cup sessions \cup started /\ sent[s] = 0
      /\ up' = up \cup {s} /\ queued' = queued \cup {s}
      /\ UNCHANGED <<sent, acceptVars, sessionVars, readVars, got, io>>
  BY DEF Connect, New
<1>2. SessionsOK' /\ Queues'
  BY <1>1 DEF IInv, SessionsOK, Queues, acceptVars, sessionVars, readVars
<1>3. Unstarted(s)' /\ Intact(s)'
  <2>1. Unstarted(s) /\ Intact(s)
    BY DEF IInv
  <2>2. Stream(s)' = Stream(s)
    BY <1>1, SameStream DEF readVars
  <2>3. Stream(s) \in Seq(Nat) /\ Len(Stream(s)) = 0
    <3>1. Stream(s) \in Seq(Nat)
      BY ChunkSeqs DEF IInv
    <3>2. Len(Stream(s)) \in Nat /\ Len(Stream(s)) <= 0
      BY <1>1, <2>1, <3>1, LenProperties DEF Intact
    <3> QED BY <3>1, <3>2
  <2>4. InOrder(Stream(s))
    BY <2>3 DEF InOrder
  <2> QED BY <1>1, <2>1, <2>2, <2>3, <2>4
             DEF Unstarted, Intact, sessionVars, readVars
<1>4. ASSUME NEW t \in Ids, t # s PROVE Unstarted(t)' /\ Intact(t)'
  BY <1>1, <1>4, OthersKept DEF Held, acceptVars, sessionVars, readVars
<1> QED BY <1>2, <1>3, <1>4 DEF IInv

LEMMA SendStep ==
  ASSUME IInv, NEW s \in Ids, Send(s)
  PROVE  IInv'
<1> DEFINE x == sent[s] + 1
<1>1. /\ s \in up /\ x \in 1..MaxChunks /\ sent[s] \in Nat
      /\ sent' = [sent EXCEPT ![s] = x]
      /\ kernel' = [kernel EXCEPT ![s] = Append(@, x)]
      /\ UNCHANGED <<up, queued, acceptVars, sessionVars, read, slots, active, got, io>>
  BY ServerAssumption DEF Send, IInv, SessionsOK
<1>2. /\ sent'[s] = x /\ kernel'[s] = Append(kernel[s], x)
      /\ \A t \in Ids : t # s => sent'[t] = sent[t] /\ kernel'[t] = kernel[t]
  BY <1>1 DEF IInv, SessionsOK
<1>3. SessionsOK' /\ Queues'
  <2>1. Append(kernel[s], x) \in Seq(1..MaxChunks)
    BY <1>1 DEF IInv, SessionsOK
  <2>2. kernel' \in [Ids -> Seq(1..MaxChunks)] /\ sent' \in [Ids -> 0..MaxChunks]
    BY <1>1, <2>1 DEF IInv, SessionsOK
  <2> QED BY <1>1, <2>2 DEF IInv, SessionsOK, Queues, acceptVars, sessionVars
<1>4. Unstarted(s)' /\ Intact(s)'
  <2> DEFINE st == Stream(s)
  <2>1. Unstarted(s) /\ Intact(s) /\ st \in Seq(Nat)
    BY ChunkSeqs DEF IInv
  <2>2. Stream(s)' = Append(st, x)
    <3> DEFINE h == got[s] \o InHand(s)
    <3>1. SessionsOK
      BY DEF IInv
    <3>2. Stream(s) = h \o kernel[s] /\ Stream(s)' = h \o Append(kernel[s], x)
      BY <1>1, <1>2 DEF Stream, InHand, Chunk
    <3>3. h \in Seq(Nat) /\ kernel[s] \in Seq(Nat) /\ x \in Nat /\ <<x>> \in Seq(Nat)
      <4>1. x \in Nat /\ <<x>> \in Seq(Nat)
        BY <1>1
      <4>2. h \in Seq(Nat) /\ kernel[s] \in Seq(Nat)
        BY <3>1, ChunkSeqs, ConcatProperties
      <4> QED BY <4>1, <4>2
    <3> DEFINE k == kernel[s]
    <3>4. st = h \o k /\ Stream(s)' = h \o Append(k, x) /\ k \in Seq(Nat)
      BY <3>2, <3>3
    <3> HIDE DEF h, x, k, st
    <3>5. Append(k, x) = k \o <<x>>
      BY <3>3, <3>4, AppendIsConcat
    <3>6. h \o (k \o <<x>>) = (h \o k) \o <<x>>
      BY <3>3, <3>4, Regroup
    <3>7. Append(st, x) = st \o <<x>>
      BY <2>1, <3>3, AppendIsConcat
    <3> QED BY <3>4, <3>5, <3>6, <3>7
  <2> HIDE DEF st
  <2>3. /\ Len(Append(st, x)) = Len(st) + 1
        /\ Len(st) = sent[s] /\ InOrder(st) => InOrder(Append(st, x))
    BY <1>1, <2>1 DEF InOrder
  <2>4. /\ Len(st) <= sent[s] /\ Len(st) \in Nat
        /\ s \in Held => InOrder(st) /\ Len(st) = sent[s]
        /\ Held' = Held
    BY <1>1, <2>1 DEF Intact, st, Held, sessionVars
  <2>5. Intact(s)'
    BY <1>1, <1>2, <2>1, <2>2, <2>3, <2>4 DEF Intact
  <2> QED BY <1>1, <2>1, <2>5 DEF Unstarted, sessionVars
<1>5. ASSUME NEW t \in Ids, t # s PROVE Unstarted(t)' /\ Intact(t)'
  BY <1>1, <1>2, <1>5, OthersKept DEF Held, sessionVars
<1> QED BY <1>3, <1>4, <1>5 DEF IInv

(* What comes first in a stream is in order if the stream is.              *)
LEMMA Beginning ==
  ASSUME NEW a \in Seq(Nat), NEW b \in Seq(Nat)
  PROVE  /\ InOrder(a \o b) => InOrder(a)
         /\ Len(a) <= Len(a \o b)
<1>1. /\ Len(a) \in Nat /\ Len(b) \in Nat
      /\ Len(a \o b) = Len(a) + Len(b)
      /\ \A i \in 1..Len(a) : i \in 1..Len(a \o b) /\ (a \o b)[i] = a[i]
      /\ DOMAIN a = 1..Len(a) /\ DOMAIN (a \o b) = 1..Len(a \o b)
  BY ConcatProperties, LenProperties
<1> QED BY <1>1 DEF InOrder

LEMMA HangupStep ==
  ASSUME IInv, NEW s \in Ids, Hangup(s)
  PROVE  IInv'
<1>1. /\ s \in up /\ up' = up \ {s}
      /\ UNCHANGED <<queued, sent, acceptVars, sessionVars, read, slots, active, got, io>>
  BY DEF Hangup
<1>2. PICK lost \in BOOLEAN : kernel' = [kernel EXCEPT ![s] = IF lost THEN << >> ELSE @]
  BY DEF Hangup
<1>3. /\ kernel'[s] = << >> \/ kernel'[s] = kernel[s]
      /\ \A t \in Ids : t # s => kernel'[t] = kernel[t]
  BY <1>2 DEF IInv, SessionsOK
<1>4. SessionsOK' /\ Queues'
  <2>1. kernel \in [Ids -> Seq(1..MaxChunks)] /\ << >> \in Seq(1..MaxChunks)
    BY DEF IInv, SessionsOK
  <2>2. kernel' \in [Ids -> Seq(1..MaxChunks)]
    <3>1. CASE lost
      BY <1>2, <2>1, <3>1
    <3>2. CASE ~lost
      BY <1>2, <2>1, <3>2
    <3> QED BY <3>1, <3>2
  <2> QED BY <1>1, <2>2 DEF IInv, SessionsOK, Queues, acceptVars, sessionVars
<1>5. Unstarted(s)' /\ Intact(s)'
  <2>1. Unstarted(s) /\ Intact(s) /\ SessionsOK
    BY DEF IInv
  <2> DEFINE h == got[s] \o InHand(s)
             k == kernel[s]
  <2>2. h \in Seq(Nat) /\ k \in Seq(Nat)
    BY <2>1, ChunkSeqs, ConcatProperties
  <2>3. Stream(s) = h \o k /\ Stream(s)' = h \o kernel'[s]
    BY <1>1 DEF Stream, InHand, Chunk
  <2>4. /\ Len(Stream(s)') <= Len(Stream(s))
        /\ InOrder(Stream(s)) => InOrder(Stream(s)')
        /\ Len(Stream(s)) \in Nat /\ Len(Stream(s)') \in Nat
    <3> HIDE DEF h, k
    <3>1. Len(h) \in Nat /\ h \o k \in Seq(Nat) /\ Len(h \o k) \in Nat
      BY <2>2, ConcatProperties, LenProperties
    <3>2. h \o << >> = h
      BY <2>2, ConcatEmptySeq
    <3>3. kernel'[s] = << >> \/ kernel'[s] = k
      BY <1>3 DEF k
    <3>4. CASE kernel'[s] = k
      BY <2>3, <3>1, <3>4
    <3>5. CASE kernel'[s] = << >>
      <4>1. Stream(s)' = h
        BY <2>3, <3>2, <3>5
      <4> QED BY <2>2, <2>3, <3>1, <4>1, Beginning
    <3> QED BY <3>3, <3>4, <3>5
  <2>5. sent[s] \in Nat
    BY <2>1, ServerAssumption DEF SessionsOK
  <2>6. Intact(s)'
    BY <1>1, <2>1, <2>4, <2>5 DEF Intact, Held, sessionVars
  <2> QED BY <1>1, <2>1, <2>6 DEF Unstarted, sessionVars
<1>6. ASSUME NEW t \in Ids, t # s PROVE Unstarted(t)' /\ Intact(t)'
  BY <1>1, <1>3, <1>6, OthersKept DEF Held, sessionVars
<1> QED BY <1>4, <1>5, <1>6 DEF IInv

-----------------------------------------------------------------------------
(* When no stream is touched, sessions may only come out of the queue.     *)
LEMMA StreamsKept ==
  ASSUME IInv, UNCHANGED <<sent, kernel, slots, active, got>>,
         NEW t \in Ids, io' = t <=> io = t, read'[t] = "done" <=> read[t] = "done",
         t \in Held' => t \in Held, t \in up' => t \in up
  PROVE  Intact(t)'
<1>1. Intact(t)
  BY DEF IInv
<1>2. Stream(t)' = Stream(t)
  BY SameStream
<1> QED BY <1>1, <1>2, IntactKept DEF Intact

LEMMA AcceptStep ==
  ASSUME IInv, AcceptFails \/ Retry
  PROVE  IInv'
<1>1. UNCHANGED <<clientVars, sessionVars, readVars, got, io>>
  BY DEF AcceptFails, Retry
<1>2. accepting' \in {"pending", "retry"} /\ failures' \in 0..MaxFailures
  BY ServerAssumption DEF AcceptFails, Retry, IInv, SessionsOK
<1>3. SessionsOK' /\ Queues'
  BY <1>1, <1>2 DEF IInv, SessionsOK, Queues, clientVars, sessionVars, readVars
<1>4. ASSUME NEW t \in Ids PROVE Unstarted(t)' /\ Intact(t)'
  <2>1. Intact(t)'
    BY <1>1, StreamsKept DEF Held, clientVars, sessionVars, readVars
  <2> QED BY <1>1, <2>1 DEF IInv, Unstarted, sessionVars, readVars
<1> QED BY <1>3, <1>4 DEF IInv

LEMMA StartStep ==
  ASSUME IInv, NEW s \in Ids, Accept(s)
  PROVE  IInv'
<1>1. /\ s \in queued /\ io = 0
      /\ queued' = queued \ {s}
      /\ sessions' = sessions \cup {s} /\ started' = started \cup {s}
      /\ read' = [read EXCEPT ![s] = "pending"]
      /\ UNCHANGED <<up, sent, acceptVars, kernel, slots, active, got, io>>
  BY DEF Accept, Idle
<1>2. read[s] = "none"
  BY <1>1 DEF IInv, Queues, Unstarted
<1>3. SessionsOK' /\ Queues'
  <2>1. read' \in [Ids -> {"none", "pending", "done", "error"}] /\ io \notin Ids
    BY <1>1, ServerAssumption DEF IInv, SessionsOK
  <2> QED BY <1>1, <2>1 DEF IInv, SessionsOK, Queues, acceptVars
<1>4. ASSUME NEW t \in Ids PROVE Unstarted(t)' /\ Intact(t)'
  <2>1. read'[t] = "done" <=> read[t] = "done"
    BY <1>1, <1>2 DEF IInv, SessionsOK
  <2>2. Intact(t)'
    BY <1>1, <2>1, StreamsKept DEF Held
  <2>3. Unstarted(t)'
    BY <1>1 DEF IInv, SessionsOK, Unstarted
  <2> QED BY <2>2, <2>3
<1> QED BY <1>3, <1>4 DEF IInv

LEMMA StartFailsStep ==
  ASSUME IInv, NEW s \in Ids, StartFails(s)
  PROVE  IInv'
<1>1. /\ s \in queued /\ io = 0
      /\ queued' = queued \ {s}
      /\ UNCHANGED <<up, sent, acceptVars, started, readVars, got, io>>
  BY DEF StartFails, Idle
<1>2. sessions' \subseteq sessions \cup {s}
  BY DEF StartFails
<1>3. SessionsOK' /\ Queues'
  <2>1. io \notin Ids
    BY <1>1, ServerAssumption
  <2> QED BY <1>1, <1>2, <2>1 DEF IInv, SessionsOK, Queues, acceptVars, readVars
<1>4. ASSUME NEW t \in Ids PROVE Unstarted(t)' /\ Intact(t)'
  <2>1. Intact(t)'
    BY <1>1, <1>2, StreamsKept DEF Held, readVars
  <2> QED BY <1>1, <2>1 DEF IInv, Unstarted, readVars
<1> QED BY <1>3, <1>4 DEF IInv

-----------------------------------------------------------------------------
LEMMA ReadCompletesStep ==
  ASSUME IInv, NEW s \in Ids, ReadCompletes(s)
  PROVE  IInv'
<1> DEFINE k == kernel[s]
<1>1. /\ read[s] = "pending" /\ k # << >>
      /\ slots' = [slots EXCEPT ![s][active[s]] = Head(k)]
      /\ kernel' = [kernel EXCEPT ![s] = Tail(k)]
      /\ read' = [read EXCEPT ![s] = "done"]
      /\ UNCHANGED <<clientVars, acceptVars, sessionVars, active, got, io>>
  BY DEF ReadCompletes
<1>2. /\ SessionsOK /\ Unstarted(s) /\ Intact(s)
      /\ k \in Seq(Nat) /\ got[s] \in Seq(Nat)
      /\ active[s] \in 0..1 /\ 1 - active[s] \in 0..1
  <2>1. SessionsOK /\ Unstarted(s) /\ Intact(s)
    BY DEF IInv
  <2>2. active[s] \in 0..1 /\ 1 - active[s] \in 0..1
    BY <2>1 DEF SessionsOK
  <2> QED BY <2>1, <2>2, ChunkSeqs
<1>3. Head(k) \in 1..MaxChunks /\ Tail(k) \in Seq(1..MaxChunks)
  <2>1. k \in Seq(1..MaxChunks)
    BY <1>2 DEF SessionsOK
  <2> HIDE DEF k
  <2> QED BY <1>1, <2>1, HeadTailProperties
<1>4. /\ read'[s] = "done" /\ kernel'[s] = Tail(k)
      /\ slots'[s][active[s]] = Head(k)
      /\ slots'[s][1 - active[s]] = slots[s][1 - active[s]]
      /\ \A t \in Ids : t # s =>
           read'[t] = read[t] /\ kernel'[t] = kernel[t] /\ slots'[t] = slots[t]
  <2>1. /\ slots \in [Ids -> [0..1 -> 0..MaxChunks]] /\ 1 - active[s] # active[s]
        /\ read \in [Ids -> {"none", "pending", "done", "error"}]
        /\ kernel \in [Ids -> Seq(1..MaxChunks)]
    BY <1>2 DEF SessionsOK
  <2> HIDE DEF k
  <2> QED BY <1>1, <1>2, <2>1
<1>5. SessionsOK' /\ Queues'
  <2>1. slots' \in [Ids -> [0..1 -> 0..MaxChunks]]
    <3>1. Head(k) \in 0..MaxChunks
      BY <1>3, ServerAssumption
    <3> HIDE DEF k
    <3> QED BY <1>1, <1>2, <3>1 DEF SessionsOK
  <2>2. kernel' \in [Ids -> Seq(1..MaxChunks)]
    <3> HIDE DEF k
    <3> QED BY <1>1, <1>2, <1>3 DEF SessionsOK
  <2>3. read' \in [Ids -> {"none", "pending", "done", "error"}]
    BY <1>1, <1>2 DEF SessionsOK
  <2>4. io' \in Ids => io' \in sessions' /\ read'[io'] # "none"
    BY <1>1, <1>2, <1>4 DEF SessionsOK, sessionVars
  <2> QED BY <1>1, <2>1, <2>2, <2>3, <2>4
             DEF IInv, SessionsOK, Queues, clientVars, acceptVars, sessionVars
<1>6. Unstarted(s)' /\ Intact(s)'
  <2>1. s \in started
    BY <1>1, <1>2 DEF Unstarted
  <2>2. Stream(s)' = Stream(s)
    <3> DEFINE p == InProcess(s)
               g == got[s]
    <3>1. InProcess(s)' = p /\ InRead(s)' = <<Head(k)>> /\ InRead(s) = << >>
      BY <1>1, <1>4 DEF InProcess, InRead, Chunk
    <3>2. p \in Seq(Nat) /\ g \in Seq(Nat) /\ got'[s] = g
      BY <1>1, <1>2, Halves
    <3>3. /\ Stream(s) = (g \o (p \o << >>)) \o k
          /\ Stream(s)' = (g \o (p \o <<Head(k)>>)) \o Tail(k)
      BY <1>2, <1>4, <3>1, <3>2, Halves
    <3> HIDE DEF p, g, k
    <3> QED BY <1>1, <1>2, <3>2, <3>3, Reading
  <2>3. Intact(s)'
    BY <1>1, <1>2, <2>2, IntactKept DEF Intact, Held, clientVars, sessionVars
  <2> QED BY <1>1, <2>1, <2>3 DEF Unstarted, sessionVars
<1>7. ASSUME NEW t \in Ids, t # s PROVE Unstarted(t)' /\ Intact(t)'
  BY <1>1, <1>4, <1>7, OthersKept DEF Held, clientVars, sessionVars
<1> QED BY <1>5, <1>6, <1>7 DEF IInv

LEMMA ReadFailsStep ==
  ASSUME IInv, NEW s \in Ids, ReadFails(s)
  PROVE  IInv'
<1>1. /\ read[s] = "pending"
      /\ read' = [read EXCEPT ![s] = "error"]
      /\ UNCHANGED <<clientVars, acceptVars, sessionVars, kernel, slots, active, got, io>>
  BY DEF ReadFails
<1>2. SessionsOK' /\ Queues'
  <2>1. read' \in [Ids -> {"none", "pending", "done", "error"}]
    BY <1>1 DEF IInv, SessionsOK
  <2>2. io' \in Ids => io' \in sessions' /\ read'[io'] # "none"
    BY <1>1 DEF IInv, SessionsOK, sessionVars
  <2> QED BY <1>1, <2>1, <2>2
             DEF IInv, SessionsOK, Queues, clientVars, acceptVars, sessionVars
<1>3. ASSUME NEW t \in Ids PROVE Unstarted(t)' /\ Intact(t)'
  <2>1. read'[t] = "done" <=> read[t] = "done"
    BY <1>1 DEF IInv, SessionsOK
  <2>2. Intact(t)'
    BY <1>1, <2>1, StreamsKept DEF Held, clientVars, sessionVars
  <2>3. Unstarted(t)'
    BY <1>1 DEF IInv, SessionsOK, Unstarted, sessionVars
  <2> QED BY <2>2, <2>3
<1> QED BY <1>2, <1>3 DEF IInv

-----------------------------------------------------------------------------
LEMMA OnReadStep ==
  ASSUME IInv, NEW s \in Ids, OnRead(s)
  PROVE  IInv'
<1>1. /\ io = 0 /\ io # s /\ s \in sessions /\ read[s] = "done"
      /\ active' = [active EXCEPT ![s] = 1 - active[s]]
      /\ read' = [read EXCEPT ![s] = "pending"]
      /\ io' = s
      /\ UNCHANGED <<clientVars, acceptVars, sessionVars, kernel, slots, got>>
  BY IdleIsNoSession DEF OnRead, Idle
<1>2. /\ SessionsOK /\ Unstarted(s) /\ Intact(s)
      /\ active[s] \in 0..1 /\ 1 - active[s] \in 0..1 /\ 1 - (1 - active[s]) = active[s]
  BY DEF IInv, SessionsOK
<1>3. /\ active'[s] = 1 - active[s] /\ read'[s] = "pending"
      /\ \A t \in Ids : t # s => read'[t] = read[t] /\ active'[t] = active[t]
  BY <1>1, <1>2 DEF SessionsOK
<1>4. s \in started
  BY <1>1, <1>2 DEF Unstarted
<1>5. SessionsOK' /\ Queues'
  <2>1. active' \in [Ids -> 0..1] /\ read' \in [Ids -> {"none", "pending", "done", "error"}]
    BY <1>1, <1>2 DEF SessionsOK
  <2> QED BY <1>1, <1>2, <1>3, <1>4, <2>1
             DEF IInv, SessionsOK, Queues, clientVars, acceptVars, sessionVars
<1>6. Unstarted(s)' /\ Intact(s)'
  <2>1. Stream(s)' = Stream(s)
    <3> DEFINE x == slots[s][active[s]]
    <3>1. /\ InProcess(s) = << >> /\ InRead(s) = <<x>>
          /\ InProcess(s)' = <<x>> /\ InRead(s)' = << >>
      BY <1>1, <1>2, <1>3 DEF InProcess, InRead, Chunk
    <3>2. x \in Nat
      BY <1>2, ChunkSeqs
    <3>3. /\ Stream(s) = (got[s] \o (InProcess(s) \o InRead(s))) \o kernel[s]
          /\ Stream(s)' = (got[s] \o (InProcess(s)' \o InRead(s)')) \o kernel[s]
      BY <1>1, <1>2, Halves
    <3> HIDE DEF x
    <3>4. <<x>> \o << >> = << >> \o <<x>>
      BY <3>2, Swapping
    <3> QED BY <3>1, <3>3, <3>4
  <2>2. Intact(s)'
    BY <1>1, <1>2, <2>1, IntactKept DEF Intact, Held, clientVars, sessionVars
  <2> QED BY <1>1, <1>4, <2>2 DEF Unstarted, sessionVars
<1>7. ASSUME NEW t \in Ids, t # s PROVE Unstarted(t)' /\ Intact(t)'
  <2>1. io' = t <=> io = t
    BY <1>1, <1>7, IdleIsNoSession
  <2> QED BY <1>1, <1>3, <1>7, <2>1, OthersKept DEF Held, clientVars, sessionVars
<1> QED BY <1>5, <1>6, <1>7 DEF IInv

LEMMA Closing ==
  ASSUME NEW s \in Ids, CloseAndRemove(s)
  PROVE  /\ sessions' \subseteq sessions
         /\ io' \in {-1, 0} /\ io' \notin Ids
BY ServerAssumption DEF CloseAndRemove, Crash

LEMMA OnReadErrorStep ==
  ASSUME IInv, NEW s \in Ids, OnReadError(s)
  PROVE  IInv'
<1>1. /\ io = 0 /\ read[s] = "error"
      /\ read' = [read EXCEPT ![s] = "none"]
      /\ UNCHANGED <<clientVars, acceptVars, started, kernel, slots, active, got>>
  BY DEF OnReadError, Idle
<1>2. sessions' \subseteq sessions /\ io' \in {-1, 0} /\ io' \notin Ids
  BY Closing DEF OnReadError
<1>3. SessionsOK' /\ Queues'
  <2>1. read' \in [Ids -> {"none", "pending", "done", "error"}]
    BY <1>1 DEF IInv, SessionsOK
  <2> QED BY <1>1, <1>2, <2>1 DEF IInv, SessionsOK, Queues, clientVars, acceptVars
<1>4. ASSUME NEW t \in Ids PROVE Unstarted(t)' /\ Intact(t)'
  <2>1. /\ read'[t] = "done" <=> read[t] = "done"
        /\ read'[t] = "none" \/ read'[t] = read[t]
    BY <1>1 DEF IInv, SessionsOK
  <2>2. io' = t <=> io = t
    BY <1>1, <1>2, IdleIsNoSession
  <2>3. Intact(t)'
    BY <1>1, <1>2, <2>1, <2>2, StreamsKept DEF Held, clientVars
  <2>4. Unstarted(t)'
    BY <1>1, <2>1 DEF IInv, Unstarted
  <2> QED BY <2>3, <2>4
<1> QED BY <1>3, <1>4 DEF IInv

(* The chunk that is processed is the next one of its session's stream.    *)
LEMMA ChunkIsNext ==
  ASSUME IInv, NEW s \in Ids, io = s
  PROVE  /\ Chunk(s) = Len(got[s]) + 1
         /\ Len(got[s]) + 1 <= sent[s]
<1>1. SessionsOK /\ Intact(s) /\ s \in Held /\ InOrder(Stream(s))
  BY DEF IInv, SessionsOK, Intact, Held
<1> DEFINE g == got[s]
           x == Chunk(s)
           q == InRead(s)
           k == kernel[s]
<1>2. /\ g \in Seq(Nat) /\ q \in Seq(Nat) /\ k \in Seq(Nat) /\ x \in Nat
      /\ <<x>> \in Seq(Nat)
      /\ Stream(s) = (g \o (<<x>> \o q)) \o k
  <2>1. InProcess(s) = <<x>>
    BY DEF InProcess
  <2> QED BY <1>1, <2>1, ChunkSeqs, Halves
<1>3. sent[s] \in Nat /\ Len(Stream(s)) <= sent[s]
  BY <1>1, ServerAssumption DEF Intact, SessionsOK
<1> HIDE DEF g, x, q, k
<1>4. <<x>> \o q \in Seq(Nat) /\ Len(<<x>> \o q) = 1 + Len(q) /\ (<<x>> \o q)[1] = x
  BY <1>2, ConcatProperties
<1> DEFINE r == <<x>> \o q
<1>5. r \in Seq(Nat) /\ Len(r) = 1 + Len(q) /\ r[1] = x
  BY <1>4
<1>6. Len(q) \in Nat /\ Len(g) \in Nat /\ Len(k) \in Nat
  BY <1>2, LenProperties
<1>7. Stream(s) = (g \o r) \o k
  BY <1>2
<1> HIDE DEF r
<1>8. /\ g \o r \in Seq(Nat) /\ Len(g \o r) = Len(g) + 1 + Len(q)
      /\ (g \o r)[Len(g) + 1] = x
  <2>1. /\ g \o r \in Seq(Nat) /\ Len(g \o r) = Len(g) + Len(r)
        /\ \A i \in 1..Len(g) + Len(r) :
             (g \o r)[i] = IF i <= Len(g) THEN g[i] ELSE r[i - Len(g)]
    <3>1. g \o r \in Seq(Nat) /\ Len(g \o r) = Len(g) + Len(r)
      BY <1>2, <1>5, ConcatProperties
    <3>2. ASSUME NEW i \in 1..Len(g) + Len(r)
          PROVE  (g \o r)[i] = IF i <= Len(g) THEN g[i] ELSE r[i - Len(g)]
      BY <1>2, <1>5, <3>2, ConcatProperties
    <3> QED BY <3>1, <3>2
  <2>2. Len(g) + 1 \in 1..Len(g) + Len(r) /\ ~(Len(g) + 1 <= Len(g))
        /\ (Len(g) + 1) - Len(g) = 1
    BY <1>5, <1>6
  <2>3. (g \o r)[Len(g) + 1] = r[1]
    BY <2>1, <2>2
  <2> QED BY <1>5, <1>6, <2>1, <2>3
<1> DEFINE h == g \o r
<1>9. /\ h \in Seq(Nat) /\ Len(h) = Len(g) + 1 + Len(q) /\ h[Len(g) + 1] = x
      /\ Stream(s) = h \o k
  BY <1>7, <1>8
<1> HIDE DEF h
<1>10. /\ Len(h \o k) \in Nat /\ Len(g) + 1 <= Len(h \o k)
       /\ DOMAIN (h \o k) = 1..Len(h \o k)
       /\ (h \o k)[Len(g) + 1] = x
  BY <1>2, <1>6, <1>9, ConcatProperties
<1>11. x = Len(g) + 1
  BY <1>1, <1>6, <1>9, <1>10 DEF InOrder
<1> QED BY <1>3, <1>6, <1>9, <1>10, <1>11 DEF g, x

LEMMA ProcessStep ==
  ASSUME IInv, NEW s \in Ids, Process(s) \/ ProcessAborts(s)
  PROVE  IInv'
<1> DEFINE x == Chunk(s)
           g == got[s]
<1>1. /\ io = s
      /\ got' = [got EXCEPT ![s] = Append(g, x)]
      /\ UNCHANGED <<clientVars, acceptVars, started, readVars>>
  BY DEF Process, ProcessAborts, sessionVars
<1>2. /\ sessions' \subseteq sessions /\ io' \in {-1, 0} /\ io' \notin Ids
  <2>1. CASE Process(s)
    BY <2>1, ServerAssumption DEF Process, sessionVars
  <2>2. CASE ProcessAborts(s)
    BY <2>2, Closing DEF ProcessAborts
  <2> QED BY <2>1, <2>2
<1>3. /\ SessionsOK /\ Unstarted(s) /\ Intact(s) /\ s \in started
      /\ g \in Seq(Nat) /\ x \in Nat /\ kernel[s] \in Seq(Nat)
      /\ sent[s] \in 0..MaxChunks
      /\ got \in [Ids -> Seq(1..MaxChunks)]
  <2>1. SessionsOK /\ Unstarted(s) /\ Intact(s) /\ s \in started
    BY <1>1 DEF IInv, Queues
  <2> QED BY <2>1, ChunkSeqs DEF SessionsOK
<1>4. x = Len(g) + 1 /\ x <= sent[s] /\ Len(g) \in Nat /\ x \in 1..MaxChunks
  <2>1. x = Len(g) + 1 /\ Len(g) + 1 <= sent[s]
    BY <1>1, ChunkIsNext
  <2>2. Len(g) \in Nat
    BY <1>3, LenProperties
  <2> HIDE DEF x, g
  <2> QED BY <1>3, <2>1, <2>2, ServerAssumption
<1>5. /\ got'[s] = Append(g, x)
      /\ \A t \in Ids : t # s => got'[t] = got[t]
  BY <1>1, <1>2, <1>3, ServerAssumption
<1>6. /\ Len(Append(g, x)) = Len(g) + 1 /\ InOrder(Append(g, x))
      /\ Append(g, x) \in Seq(1..MaxChunks)
  <2>1. InOrder(g) /\ g \in Seq(1..MaxChunks)
    BY <1>3 DEF Intact
  <2> HIDE DEF x, g
  <2> QED BY <1>4, <2>1 DEF InOrder
<1>8. SessionsOK' /\ Queues'
  <2>1. got' \in [Ids -> Seq(1..MaxChunks)]
    <3> HIDE DEF x, g
    <3> QED BY <1>1, <1>3, <1>6
  <2> QED BY <1>1, <1>2, <1>3, <2>1
             DEF IInv, SessionsOK, Queues, clientVars, acceptVars, readVars
<1>9. Unstarted(s)' /\ Intact(s)'
  <2>1. Stream(s)' = Stream(s)
    <3> DEFINE q == InRead(s)
    <3>1. /\ InProcess(s) = <<x>> /\ InProcess(s)' = << >> /\ InRead(s)' = q
          /\ kernel'[s] = kernel[s] /\ q \in Seq(Nat)
      <4>1. InProcess(s) = <<x>> /\ InProcess(s)' = << >>
        BY <1>1, <1>2 DEF InProcess
      <4>2. InRead(s)' = q /\ kernel'[s] = kernel[s]
        BY <1>1 DEF InRead, readVars
      <4> QED BY <1>3, <4>1, <4>2, Halves
    <3>2. /\ Stream(s) = (g \o (<<x>> \o q)) \o kernel[s]
          /\ Stream(s)' = (Append(g, x) \o (<< >> \o q)) \o kernel[s]
      BY <1>3, <1>5, <3>1, Halves
    <3> HIDE DEF q, x, g
    <3>3. Append(g, x) = g \o <<x>>
      BY <1>3, AppendIsConcat
    <3>4. (g \o <<x>>) \o (<< >> \o q) = g \o (<<x>> \o q)
      BY <1>3, <3>1, Processing
    <3> QED BY <3>2, <3>3, <3>4
  <2>2. Intact(s)'
    BY <1>1, <1>2, <1>3, <1>5, <1>6, <2>1, IntactKept DEF Held, clientVars
  <2> QED BY <1>1, <1>3, <2>2 DEF Unstarted
<1>10. ASSUME NEW t \in Ids, t # s PROVE Unstarted(t)' /\ Intact(t)'
  <2>1. io' = t <=> io = t
    BY <1>1, <1>2, <1>10
  <2> QED BY <1>1, <1>2, <1>5, <1>10, <2>1, OthersKept DEF Held, clientVars, readVars
<1> QED BY <1>8, <1>9, <1>10 DEF IInv

(* The steps of writes and of clients that receive.                        *)
LEMMA WriteStep ==
  ASSUME IInv, UNCHANGED <<clientVars, acceptVars, started, readVars, got>>,
         UNCHANGED <<sessions, io>>
           \/ (io = 0 /\ io' \in {-1, 0} /\ sessions' \subseteq sessions)
  PROVE  IInv'
<1>1. ASSUME NEW t \in Ids PROVE io' = t <=> io = t
  BY <1>1, IdleIsNoSession
<1>2. sessions' \subseteq sessions /\ (io' \in Ids => io' = io /\ sessions' = sessions)
  BY ServerAssumption
<1>3. SessionsOK' /\ Queues'
  <2>1. io' \in {-1, 0} \cup Ids
    BY DEF IInv, SessionsOK
  <2> QED BY <1>2, <2>1 DEF IInv, SessionsOK, Queues, clientVars, acceptVars, readVars
<1>4. ASSUME NEW t \in Ids PROVE Unstarted(t)' /\ Intact(t)'
  <2>1. Intact(t)'
    BY <1>1, <1>2, StreamsKept DEF Held, clientVars, readVars
  <2> QED BY <2>1 DEF IInv, Unstarted, readVars
<1> QED BY <1>3, <1>4 DEF IInv

LEMMA OnWriteStep ==
  ASSUME IInv, NEW s \in Ids, NEW k \in 1..MaxChunks,
         WriteMore(s, k) \/ OnWrite(s, k) \/ OrphanWrite(s, k)
  PROVE  IInv'
<1>1. CASE WriteMore(s, k)
  BY <1>1, WriteStep DEF WriteMore, sessionVars
<1>2. CASE OnWrite(s, k)
  <2>1. io = 0 /\ io' \in {-1, 0} /\ sessions' \subseteq sessions
    BY <1>2, Closing DEF OnWrite, Idle
  <2> QED BY <1>2, <2>1, WriteStep DEF OnWrite
<1>3. CASE OrphanWrite(s, k)
  BY <1>3, WriteStep DEF OrphanWrite, Idle, Crash, sessionVars
<1> QED BY <1>1, <1>2, <1>3

LEMMA ReceiveStep ==
  ASSUME IInv, NEW s \in Ids, Receive(s)
  PROVE  IInv'
BY WriteStep DEF Receive, sessionVars

(* A session that was started and is not there any more takes no part in   *)
(* what is kept in order, and a read that is given up only shortens it.    *)
LEMMA OrphanStep ==
  ASSUME IInv, NEW s \in Ids, OrphanRead(s)
  PROVE  IInv'
<1>1. /\ io = 0 /\ s \in started /\ s \notin sessions
      /\ io' \in {-1, 0} /\ io' \notin Ids
      /\ UNCHANGED <<clientVars, acceptVars, sessionVars, kernel, slots, active, got>>
  BY ServerAssumption DEF OrphanRead, Idle, Crash
<1>2. read' = [read EXCEPT ![s] = "none"]
  BY DEF OrphanRead
<1>3. /\ SessionsOK /\ Unstarted(s) /\ Intact(s) /\ s \notin Held
      /\ read \in [Ids -> {"none", "pending", "done", "error"}]
      /\ got[s] \in Seq(Nat) /\ kernel[s] \in Seq(Nat)
  <2>1. SessionsOK /\ Unstarted(s) /\ Intact(s) /\ s \notin Held
    BY <1>1 DEF IInv, Queues, Held
  <2> QED BY <2>1, ChunkSeqs DEF SessionsOK
<1>4. /\ read' \in [Ids -> {"none", "pending", "done", "error"}]
      /\ read'[s] = "none"
      /\ \A t \in Ids : t # s => read'[t] = read[t]
  BY <1>2, <1>3
<1>5. SessionsOK' /\ Queues'
  BY <1>1, <1>3, <1>4 DEF IInv, SessionsOK, Queues, clientVars, acceptVars, sessionVars
<1>6. Unstarted(s)' /\ Intact(s)'
  <2>1. Len(Stream(s)') <= Len(Stream(s)) /\ Len(Stream(s)) \in Nat
        /\ Len(Stream(s)') \in Nat
    <3>1. InHand(s)' = << >>
      <4>1. io # s /\ io' # s
        BY <1>1, IdleIsNoSession
      <4>2. (IF io' = s THEN <<Chunk(s)'>> ELSE << >>) = << >>
            /\ (IF io = s THEN <<Chunk(s)>> ELSE << >>) = << >>
        BY <4>1
      <4>3. InHand(s)' = << >> \o << >>
        BY <1>4, <4>2 DEF InHand
      <4> QED BY <4>3, ConcatEmptySeq, EmptySeq
    <3>2. /\ InHand(s) \in Seq(Nat)
          /\ Len(Stream(s)) = Len(got[s]) + Len(InHand(s)) + Len(kernel[s])
      BY <1>3, ChunkSeqs
    <3>3. /\ Len(InHand(s)') <= Len(InHand(s)) /\ InHand(s)' \in Seq(Nat)
          /\ Len(InHand(s)') \in Nat /\ Len(InHand(s)) \in Nat
      <4>1. Len(InHand(s)) \in Nat
        BY <3>2, LenProperties
      <4>2. << >> \in Seq(Nat) /\ Len(<< >>) = 0
        OBVIOUS
      <4>3. Len(InHand(s)') = 0 /\ InHand(s)' \in Seq(Nat)
        BY <3>1, <4>2
      <4> QED BY <3>2, <4>1, <4>3
    <3>4. Len(Stream(s)') = Len(got[s]) + Len(InHand(s)') + Len(kernel[s])
      BY <1>1, <1>3, <3>3, ConcatProperties DEF Stream
    <3>5. Len(got[s]) \in Nat /\ Len(kernel[s]) \in Nat
      BY <1>3, LenProperties
    <3> DEFINE a == Len(got[s])
               b == Len(kernel[s])
               c == Len(InHand(s))
               d == Len(InHand(s)')
    <3>6. /\ a \in Nat /\ b \in Nat /\ c \in Nat /\ d \in Nat /\ d <= c
          /\ Len(Stream(s)) = a + c + b /\ Len(Stream(s)') = a + d + b
      BY <3>2, <3>3, <3>4, <3>5
    <3> HIDE DEF a, b, c, d
    <3> QED BY <3>6
  <2>2. sent[s] \in Nat /\ Len(got[s]) \in Nat
    BY <1>3, <1>4, ServerAssumption, LenProperties DEF SessionsOK
  <2>3. Intact(s)'
    BY <1>1, <1>3, <1>4, <2>1, <2>2 DEF Intact, Held, clientVars, sessionVars
  <2> QED BY <1>1, <2>3 DEF Unstarted, sessionVars
<1>7. ASSUME NEW t \in Ids, t # s PROVE Unstarted(t)' /\ Intact(t)'
  <2>1. io' = t <=> io = t
    BY <1>1, IdleIsNoSession
  <2> QED BY <1>1, <1>4, <1>7, <2>1, OthersKept DEF Held, clientVars, sessionVars
<1> QED BY <1>5, <1>6, <1>7 DEF IInv

-----------------------------------------------------------------------------
LEMMA StepInv == IInv /\ [Next]_vars => IInv'
<1> SUFFICES ASSUME IInv, [Next]_vars PROVE IInv'
  OBVIOUS
<1>1. CASE UNCHANGED vars
  <2>1. SessionsOK' /\ Queues'
    BY <1>1 DEF IInv, SessionsOK, Queues, vars, clientVars, acceptVars, sessionVars, readVars
  <2>2. ASSUME NEW t \in Ids PROVE Unstarted(t)' /\ Intact(t)'
    <3>1. Intact(t)'
      BY <1>1, StreamsKept DEF Held, vars, clientVars, sessionVars, readVars
    <3> QED BY <1>1, <3>1 DEF IInv, Unstarted, vars, sessionVars, readVars
  <2> QED BY <2>1, <2>2 DEF IInv
<1>2. CASE \E s \in Ids : Connect(s) \/ Send(s) \/ Receive(s) \/ Hangup(s)
  BY <1>2, ConnectStep, SendStep, ReceiveStep, HangupStep
<1>3. CASE AcceptFails \/ Retry
  BY <1>3, AcceptStep
<1>4. CASE \E s \in Ids : Accept(s) \/ StartFails(s)
  BY <1>4, StartStep, StartFailsStep
<1>5. CASE \E s \in Ids : SocketStep(s) \/ ReadStep(s) \/ OrphanRead(s)
  BY <1>5, ReadCompletesStep, ReadFailsStep, OnReadStep, OnReadErrorStep, ProcessStep,
     OrphanStep DEF SocketStep, ReadStep
<1>6. CASE \E s \in Ids, k \in 1..MaxChunks :
             WriteMore(s, k) \/ OnWrite(s, k) \/ OrphanWrite(s, k)
  BY <1>6, OnWriteStep
<1> QED BY <1>1, <1>2, <1>3, <1>4, <1>5, <1>6 DEF Next

LEMMA Inductive == Spec => []IInv
BY InitInv, StepInv, PTL DEF Spec

(* The state is well formed, and what is being processed belongs to a      *)
(* session that is there, with its next read started (onRead()).           *)
LEMMA SessionsCorrect == Spec => []SessionsOK
<1>1. IInv => SessionsOK
  BY DEF IInv
<1> QED BY <1>1, Inductive, PTL

(* Chunks are neither repeated nor overtaken nor lost on their way through *)
(* the two halves of the buffer, however reads, processing and writes      *)
(* interleave (onRead(), ReadBuffer::swap()).                              *)
THEOREM StreamsArriveIntact == Spec => []StreamIsIntact
<1>1. IInv => StreamIsIntact
  BY DEF IInv, Intact, StreamIsIntact, Held
<1> QED BY <1>1, Inductive, PTL

-----------------------------------------------------------------------------
(* The writes.                                                             *)
OnWire(s, k, p) == \E i \in DOMAIN wire[s] : wire[s][i].chunk = k /\ wire[s][i].part = p
Received(s, k, p) ==
  \E i \in DOMAIN wire[s] : i <= received[s] /\ wire[s][i].chunk = k /\ wire[s][i].part = p

(* The socket is not overfull, ...                                         *)
RoomKept(s) == received[s] <= Len(wire[s]) /\ Len(wire[s]) <= received[s] + Room

(* ... it took parts of responses to chunks that were processed, ...       *)
PartsKnown(s) ==
  \A i \in DOMAIN wire[s] :
    /\ wire[s][i].chunk \in 1..Len(got[s])
    /\ wire[s][i].part \in 1..Size[s][wire[s][i].chunk]

(* ... and of an outstanding write, the first ones.                        *)
WritesCounted(s) ==
  \A k \in Outstanding(s) :
    /\ k <= Len(got[s]) /\ left[s][k] <= Size[s][k]
    /\ \A p \in 1..Size[s][k] : OnWire(s, k, p) <=> p <= Size[s][k] - left[s][k]

Open(s) == s \in sessions \cap up /\ io # -1

WritesEnded(s) ==
  Open(s) => \A k \in 1..Len(got[s]) :
    k \in Outstanding(s) \/ \A p \in 1..Size[s][k] : OnWire(s, k, p)

Wires(s) == RoomKept(s) /\ PartsKnown(s) /\ WritesCounted(s) /\ WritesEnded(s)

(* A patient client has all the responses but the last one, ...            *)
HasResponses(s) ==
  \A k \in 1..MaxChunks : k < sent[s] => \A p \in 1..Size[s][k] : Received(s, k, p)

InPartOrder(s) ==
  \A i, j \in DOMAIN wire[s] : i < j => Precedes(wire[s][i], wire[s][j])

(* ... so that what fits was taken at once.                                *)
FittingTaken(s) ==
  s \in up => \A k \in Outstanding(s) : Fits(Size[s][k]) => left[s][k] = 0

FittingIntact(s) ==
  \A i \in DOMAIN wire[s] : Fits(Size[s][wire[s][i].chunk]) => wire[s][i].intact

Waits(s) ==
  s \in patient => HasResponses(s) /\ InPartOrder(s) /\ FittingTaken(s) /\ FittingIntact(s)

JInv ==
  /\ IInv /\ WritesOK
  /\ \A s \in Ids : Wires(s) /\ Waits(s)

-----------------------------------------------------------------------------
(* What the constants and the types say of one session.                    *)
LEMMA OneSession ==
  ASSUME JInv, NEW s \in Ids
  PROVE  /\ wire[s] \in Seq(Part) /\ Len(wire[s]) \in Nat /\ DOMAIN wire[s] = 1..Len(wire[s])
         /\ received[s] \in Nat /\ Room \in Nat \ {0} /\ MaxChunks \in Nat
         /\ Len(got[s]) \in Nat /\ sent[s] \in 0..MaxChunks /\ Len(got[s]) <= sent[s]
         /\ Wires(s) /\ Waits(s) /\ IInv /\ Unstarted(s)
         /\ \A k \in 1..MaxChunks : Size[s][k] \in Nat /\ left[s][k] \in Nat \cup {NoWrite}
         /\ left[s] \in [1..MaxChunks -> Nat \cup {NoWrite}]
<1>1. IInv /\ WritesOK /\ SessionsOK /\ Wires(s) /\ Waits(s) /\ Unstarted(s) /\ Intact(s)
  BY DEF JInv, IInv
<1>2. /\ wire[s] \in Seq(Part) /\ received[s] \in Nat
      /\ left[s] \in [1..MaxChunks -> Nat \cup {NoWrite}]
  BY <1>1 DEF WritesOK
<1>3. Len(wire[s]) \in Nat /\ DOMAIN wire[s] = 1..Len(wire[s])
  BY <1>2, LenProperties
<1>4. /\ Room \in Nat \ {0} /\ MaxChunks \in Nat
      /\ \A k \in 1..MaxChunks : Size[s][k] \in Nat /\ left[s][k] \in Nat \cup {NoWrite}
  BY <1>2, ServerAssumption
<1>5. sent[s] \in 0..MaxChunks /\ Len(got[s]) \in Nat /\ Len(got[s]) <= sent[s]
  <2>1. got[s] \in Seq(Nat) /\ InHand(s) \in Seq(Nat) /\ kernel[s] \in Seq(Nat)
        /\ Len(Stream(s)) = Len(got[s]) + Len(InHand(s)) + Len(kernel[s])
        /\ Len(Stream(s)) <= sent[s]
    BY <1>1, ChunkSeqs DEF Intact
  <2>2. Len(got[s]) \in Nat /\ Len(InHand(s)) \in Nat /\ Len(kernel[s]) \in Nat
    BY <2>1, LenProperties
  <2>3. sent[s] \in 0..MaxChunks
    BY <1>1 DEF SessionsOK
  <2> DEFINE a == Len(got[s])
             b == Len(InHand(s))
             c == Len(kernel[s])
  <2>4. a \in Nat /\ b \in Nat /\ c \in Nat /\ a + b + c <= sent[s]
    BY <2>1, <2>2
  <2> HIDE DEF a, b, c
  <2>5. a <= sent[s]
    BY <2>3, <2>4, ServerAssumption
  <2> QED BY <2>2, <2>3, <2>5 DEF a
<1> QED BY <1>1, <1>2, <1>3, <1>4, <1>5

(* Sequence v is w and n more parts of the response to k, from part f on.  *)
Extends(v, w, k, f, n, b) ==
  /\ v \in Seq(Part) /\ Len(v) = Len(w) + n /\ Len(w) \in Nat
  /\ DOMAIN v = 1..(Len(w) + n) /\ DOMAIN w = 1..Len(w)
  /\ \A i \in DOMAIN w : v[i] = w[i]
  /\ \A i \in DOMAIN v \ DOMAIN w : \E m \in 1..n : i = Len(w) + m
  /\ \A m \in 1..n : v[Len(w) + m] = [chunk |-> k, part |-> f + m - 1, intact |-> b]

LEMMA Extended ==
  ASSUME NEW w \in Seq(Part), NEW s \in Ids, NEW k \in 1..MaxChunks,
         NEW f \in Nat \ {0}, NEW n \in Nat, NEW b \in BOOLEAN,
         NEW v, v = w \o Parts(s, k, f, n, b)
  PROVE  Extends(v, w, k, f, n, b)
<1> DEFINE r == Parts(s, k, f, n, b)
<1>1. r = [i \in 1..n |-> [chunk |-> k, part |-> f + i - 1, intact |-> b]]
  BY DEF Parts
<1>2. \A i \in 1..n : [chunk |-> k, part |-> f + i - 1, intact |-> b] \in Part
  BY DEF Part
<1>3. r \in Seq(Part) /\ Len(r) = n
  <2>1. r \in [1..n -> Part]
    BY <1>1, <1>2
  <2>2. r \in Seq(Part)
    BY <2>1, SeqDef
  <2> QED BY <2>1, <2>2, LenProperties
<1> HIDE DEF r
<1>4. /\ v \in Seq(Part) /\ Len(v) = Len(w) + n /\ Len(w) \in Nat
      /\ \A i \in 1..(Len(w) + n) : v[i] = IF i <= Len(w) THEN w[i] ELSE r[i - Len(w)]
  <2>1. v = w \o r
    BY DEF r
  <2>2. /\ w \o r \in Seq(Part) /\ Len(w \o r) = Len(w) + Len(r)
        /\ \A i \in 1..(Len(w) + Len(r)) :
             (w \o r)[i] = IF i <= Len(w) THEN w[i] ELSE r[i - Len(w)]
    BY <1>3, ConcatProperties
  <2>3. Len(w) \in Nat
    BY LenProperties
  <2> QED BY <1>3, <2>1, <2>2, <2>3
<1>5. DOMAIN v = 1..(Len(w) + n) /\ DOMAIN w = 1..Len(w)
  BY <1>4, LenProperties
<1>6. ASSUME NEW i \in 1..Len(w) PROVE v[i] = w[i]
  BY <1>4, <1>6
<1>7. ASSUME NEW i \in 1..n PROVE v[Len(w) + i] = r[i]
  <2> DEFINE j == Len(w) + i
  <2>1. j \in 1..(Len(w) + n) /\ ~(j <= Len(w)) /\ j - Len(w) = i
    BY <1>4, <1>7
  <2> HIDE DEF j
  <2>2. v[j] = r[j - Len(w)]
    BY <1>4, <2>1
  <2>3. v[j] = r[i]
    BY <2>1, <2>2
  <2> QED BY <2>3 DEF j
<1>8. ASSUME NEW i \in DOMAIN v \ DOMAIN w PROVE \E m \in 1..n : i = Len(w) + m
  <2>1. i - Len(w) \in 1..n /\ i = Len(w) + (i - Len(w))
    BY <1>4, <1>5, <1>8
  <2> QED BY <2>1
<1> QED BY <1>1, <1>4, <1>5, <1>6, <1>7, <1>8 DEF Extends

-----------------------------------------------------------------------------
LEMMA InitWrites == Init => JInv
<1> SUFFICES ASSUME Init PROVE JInv
  OBVIOUS
<1>1. IInv
  BY InitInv
<1>2. WritesOK
  <2>1. << >> \in Seq(Part)
    OBVIOUS
  <2> QED BY <2>1 DEF Init, WritesOK
<1>3. ASSUME NEW s \in Ids PROVE Wires(s) /\ Waits(s)
  <2>1. /\ wire[s] = << >> /\ received[s] = 0 /\ got[s] = << >> /\ sent[s] = 0
        /\ \A k \in 1..MaxChunks : left[s][k] = NoWrite
    BY <1>3 DEF Init
  <2>2. Outstanding(s) = {} /\ DOMAIN wire[s] = {} /\ Len(wire[s]) = 0 /\ Len(got[s]) = 0
    BY <2>1 DEF Outstanding
  <2> QED BY <2>1, <2>2, ServerAssumption
          DEF Wires, RoomKept, PartsKnown, WritesCounted, WritesEnded, Waits,
              HasResponses, InPartOrder, FittingTaken, FittingIntact
<1> QED BY <1>1, <1>2, <1>3 DEF JInv

(* A session whose writes, handler and client do nothing but receive.      *)
LEMMA Calm ==
  ASSUME JInv, NEW s \in Ids,
         left'[s] = left[s], wire'[s] = wire[s], got'[s] = got[s], sent'[s] = sent[s],
         received'[s] \in {received[s], received[s] + 1}, received'[s] <= Len(wire[s]),
         s \in patient' => s \in patient,
         Open(s)' => Open(s) \/ got[s] = << >>, s \in up' => s \in up \/ got[s] = << >>
  PROVE  Wires(s)' /\ Waits(s)'
<1>1. /\ wire[s] \in Seq(Part) /\ Len(wire[s]) \in Nat /\ DOMAIN wire[s] = 1..Len(wire[s])
      /\ received[s] \in Nat /\ Room \in Nat \ {0} /\ Len(got[s]) \in Nat
      /\ Wires(s) /\ Waits(s)
  BY OneSession
<1>2. Outstanding(s)' = Outstanding(s) /\ (\A k, p : OnWire(s, k, p)' <=> OnWire(s, k, p))
  BY DEF Outstanding, OnWire
<1>3. \A k, p : Received(s, k, p) => Received(s, k, p)'
  BY <1>1 DEF Received
<1>4. got[s] = << >> => Len(got[s]) = 0 /\ Outstanding(s) = {}
  <2>1. got[s] = << >> => Len(got[s]) = 0
    OBVIOUS
  <2>2. \A k \in Outstanding(s) : k >= 1
    BY DEF Outstanding
  <2> QED BY <1>1, <2>1, <2>2 DEF Wires, WritesCounted, Outstanding
<1>5. RoomKept(s)' /\ PartsKnown(s)' /\ WritesCounted(s)'
  BY <1>1, <1>2 DEF Wires, RoomKept, PartsKnown, WritesCounted
<1>6. WritesEnded(s)'
  BY <1>1, <1>2, <1>4 DEF Wires, WritesEnded
<1>7. Waits(s)'
  <2> SUFFICES ASSUME s \in patient' PROVE Waits(s)'
    BY DEF Waits
  <2>1. HasResponses(s)'
    BY <1>1, <1>3 DEF Waits, HasResponses
  <2>2. InPartOrder(s)' /\ FittingIntact(s)'
    BY <1>1 DEF Waits, InPartOrder, FittingIntact, Precedes
  <2>3. FittingTaken(s)'
    BY <1>1, <1>2, <1>4 DEF Waits, FittingTaken
  <2> QED BY <2>1, <2>2, <2>3 DEF Waits
<1> QED BY <1>5, <1>6, <1>7 DEF Wires

-----------------------------------------------------------------------------
(* The sends of a patient client.                                          *)
LEMMA SendWrites ==
  ASSUME JInv, NEW s \in Ids, Send(s)
  PROVE  Wires(s)' /\ Waits(s)'
<1>1. /\ sent[s] \in 0..MaxChunks /\ MaxChunks \in Nat
      /\ Wires(s) /\ Waits(s) /\ received[s] \in Nat
      /\ DOMAIN wire[s] = 1..Len(wire[s])
  BY OneSession
<1>2. /\ sent'[s] = sent[s] + 1 /\ wire' = wire /\ left' = left /\ received' = received
      /\ got' = got /\ up' = up /\ sessions' = sessions /\ io' = io
      /\ s \in patient' => s \in patient /\ \A k \in 1..sent[s] : Answered(s, k)
  <2>1. sent \in [Ids -> 0..MaxChunks]
    BY DEF JInv, IInv, SessionsOK
  <2> QED BY <2>1 DEF Send, writeVars, sessionVars
<1>3. Wires(s)'
  <2>1. /\ Outstanding(s)' = Outstanding(s) /\ (Open(s)' <=> Open(s))
        /\ \A k, q : OnWire(s, k, q)' <=> OnWire(s, k, q)
    BY <1>2 DEF Outstanding, Open, OnWire
  <2>2. RoomKept(s)' /\ PartsKnown(s)'
    BY <1>1, <1>2 DEF Wires, RoomKept, PartsKnown
  <2>3. WritesCounted(s)' /\ WritesEnded(s)'
    BY <1>1, <1>2, <2>1 DEF Wires, WritesCounted, WritesEnded
  <2> QED BY <2>2, <2>3 DEF Wires
<1>4. ASSUME s \in patient' PROVE HasResponses(s)'
  <2> SUFFICES ASSUME NEW k \in 1..MaxChunks, k < sent'[s], NEW p \in 1..Size[s][k]
               PROVE  Received(s, k, p)'
    BY DEF HasResponses
  <2>1. Answered(s, k)
    BY <1>1, <1>2, <1>4
  <2>2. PICK i \in Taken(s, k) : i <= received[s] /\ wire[s][i].part = p
    BY <2>1 DEF Answered
  <2> QED BY <1>2, <2>2 DEF Taken, Received
<1>5. ASSUME s \in patient' PROVE InPartOrder(s)' /\ FittingTaken(s)' /\ FittingIntact(s)'
  <2>1. InPartOrder(s) /\ FittingTaken(s) /\ FittingIntact(s)
    BY <1>1, <1>2, <1>5 DEF Waits
  <2>2. InPartOrder(s)'
    BY <1>2, <2>1 DEF InPartOrder, Precedes
  <2>3. FittingTaken(s)'
    BY <1>2, <2>1 DEF FittingTaken, Outstanding
  <2>4. FittingIntact(s)'
    BY <1>2, <2>1 DEF FittingIntact
  <2> QED BY <2>2, <2>3, <2>4
<1> QED BY <1>3, <1>4, <1>5 DEF Waits

-----------------------------------------------------------------------------
(* The end of a write, whichever way.                                      *)
LEMMA EndOfWrite ==
  ASSUME JInv, NEW s \in Ids, NEW k \in Outstanding(s),
         left'[s] = [left[s] EXCEPT ![k] = NoWrite],
         UNCHANGED <<wire, got, sent, received, patient, up>>,
         Open(s)' => Open(s) /\ left[s][k] = 0
  PROVE  Wires(s)' /\ Waits(s)'
<1>1. /\ wire[s] \in Seq(Part) /\ Len(wire[s]) \in Nat /\ DOMAIN wire[s] = 1..Len(wire[s])
      /\ Len(got[s]) \in Nat /\ Wires(s) /\ Waits(s) /\ k \in 1..MaxChunks
      /\ \A j \in 1..MaxChunks : Size[s][j] \in Nat
      /\ left[s] \in [1..MaxChunks -> Nat \cup {NoWrite}]
  BY OneSession DEF Outstanding
<1>2. Outstanding(s)' = Outstanding(s) \ {k}
      /\ \A j \in Outstanding(s)' : left'[s][j] = left[s][j]
  BY <1>1 DEF Outstanding
<1>3. /\ \A j, p : OnWire(s, j, p)' <=> OnWire(s, j, p)
      /\ \A j, p : Received(s, j, p)' <=> Received(s, j, p)
  BY DEF OnWire, Received
<1>4. RoomKept(s)' /\ PartsKnown(s)' /\ WritesCounted(s)'
  BY <1>1, <1>2, <1>3 DEF Wires, RoomKept, PartsKnown, WritesCounted
<1>5. WritesEnded(s)'
  <2> SUFFICES ASSUME Open(s)', NEW j \in 1..Len(got[s]), j \notin Outstanding(s)',
                      NEW p \in 1..Size[s][j]
               PROVE  OnWire(s, j, p)
    BY <1>3 DEF WritesEnded
  <2>1. CASE j = k
    <3>1. p <= Size[s][k] - left[s][k]
      BY <1>1, <2>1
    <3> QED BY <1>1, <2>1, <3>1 DEF Wires, WritesCounted
  <2>2. CASE j # k
    BY <1>1, <1>2, <2>2 DEF Wires, WritesEnded
  <2> QED BY <2>1, <2>2
<1>6. ASSUME s \in patient' PROVE HasResponses(s)' /\ FittingTaken(s)'
  <2>1. HasResponses(s) /\ FittingTaken(s)
    BY <1>1, <1>6 DEF Waits
  <2>2. HasResponses(s)'
    BY <1>3, <2>1 DEF HasResponses
  <2>3. FittingTaken(s)'
    BY <1>1, <1>2, <2>1 DEF FittingTaken
  <2> QED BY <2>2, <2>3
<1>7. ASSUME s \in patient' PROVE InPartOrder(s)' /\ FittingIntact(s)'
  <2>1. InPartOrder(s) /\ FittingIntact(s)
    BY <1>1, <1>7 DEF Waits
  <2>2. InPartOrder(s)'
    BY <2>1 DEF InPartOrder, Precedes
  <2>3. FittingIntact(s)'
    BY <2>1 DEF FittingIntact
  <2> QED BY <2>2, <2>3
<1>8. Waits(s)'
  BY <1>6, <1>7 DEF Waits
<1> QED BY <1>4, <1>5, <1>8 DEF Wires

LEMMA EndsOfWrites ==
  ASSUME JInv, NEW s \in Ids, NEW k \in 1..MaxChunks, OnWrite(s, k) \/ OrphanWrite(s, k)
  PROVE  Wires(s)' /\ Waits(s)'
<1>1. left \in [Ids -> [1..MaxChunks -> Nat \cup {NoWrite}]]
  BY DEF JInv, WritesOK
<1>2. CASE OnWrite(s, k)
  <2>1. /\ k \in Outstanding(s) /\ left' = [left EXCEPT ![s][k] = NoWrite]
        /\ UNCHANGED <<wire, got, sent, received, patient, up>> /\ io = 0 /\ s \in sessions
    BY <1>2 DEF OnWrite, clientVars, peerVars, Idle
  <2>2. Open(s)' => Open(s) /\ left[s][k] = 0
    <3>1. CASE (left[s][k] = 0 \/ s \notin up) /\ UNCHANGED <<sessions, io>>
      BY <2>1, <3>1 DEF Open
    <3>2. CASE CloseAndRemove(s)
      BY <2>1, <3>2, ServerAssumption DEF Open, CloseAndRemove, Crash
    <3> QED BY <1>2, <3>1, <3>2 DEF OnWrite
  <2> QED BY <1>1, <2>1, <2>2, EndOfWrite
<1>3. CASE OrphanWrite(s, k)
  <2>1. /\ k \in Outstanding(s) /\ left' = [left EXCEPT ![s][k] = NoWrite]
        /\ UNCHANGED <<wire, got, sent, received, patient, up>>
        /\ s \notin sessions /\ sessions' = sessions
    BY <1>3 DEF OrphanWrite, clientVars, peerVars, sessionVars
  <2> QED BY <1>1, <2>1, EndOfWrite DEF Open
<1> QED BY <1>2, <1>3

(* A chunk that ends its session.                                          *)
LEMMA AbortWrites ==
  ASSUME JInv, NEW s \in Ids, ProcessAborts(s)
  PROVE  Wires(s)' /\ Waits(s)'
<1>1. /\ DOMAIN wire[s] = 1..Len(wire[s])
      /\ Len(got[s]) \in Nat /\ Wires(s) /\ Waits(s)
  BY OneSession
<1>2. /\ io = s /\ got' = [got EXCEPT ![s] = Append(@, Chunk(s))]
      /\ UNCHANGED <<wire, left, sent, received, patient, up>>
  BY DEF ProcessAborts, clientVars, writeVars, peerVars
<1>3. ~Open(s)'
  <2>1. CASE sessions' = sessions \ {s}
    BY <2>1 DEF Open
  <2>2. CASE io' = -1
    BY <2>2 DEF Open
  <2> QED BY <2>1, <2>2 DEF ProcessAborts, CloseAndRemove, Crash
<1>4. Len(got'[s]) = Len(got[s]) + 1
  <2>1. SessionsOK /\ got \in [Ids -> Seq(1..MaxChunks)]
    BY DEF JInv, IInv, SessionsOK
  <2>2. got[s] \in Seq(Nat) /\ Chunk(s) \in Nat
    BY <2>1, ChunkSeqs
  <2>3. got'[s] = Append(got[s], Chunk(s))
    BY <1>2, <2>1
  <2> QED BY <2>2, <2>3
<1>5. Outstanding(s)' = Outstanding(s)
      /\ (\A j, p : OnWire(s, j, p)' <=> OnWire(s, j, p))
      /\ \A j, p : Received(s, j, p)' <=> Received(s, j, p)
  BY <1>2 DEF Outstanding, OnWire, Received
<1>6. RoomKept(s)' /\ PartsKnown(s)' /\ WritesEnded(s)'
  <2>1. RoomKept(s)'
    BY <1>1, <1>2 DEF Wires, RoomKept
  <2>2. PartsKnown(s)'
    <3>1. \A i \in DOMAIN wire[s] : wire[s][i].chunk \in 1..Len(got'[s])
      BY <1>1, <1>4 DEF Wires, PartsKnown
    <3> QED BY <1>1, <1>2, <3>1 DEF Wires, PartsKnown
  <2> QED BY <1>3, <2>1, <2>2 DEF WritesEnded
<1>7. WritesCounted(s)'
  <2>1. \A k \in Outstanding(s) : k <= Len(got'[s])
    BY <1>1, <1>4 DEF Wires, WritesCounted, Outstanding
  <2> QED BY <1>1, <1>2, <1>5, <2>1 DEF Wires, WritesCounted
<1>8. Waits(s)'
  BY <1>1, <1>2, <1>5 DEF Waits, HasResponses, InPartOrder, FittingTaken, FittingIntact,
                          Precedes
<1> QED BY <1>6, <1>7, <1>8 DEF Wires

-----------------------------------------------------------------------------
(* The parts of a response that are taken next.                            *)
LEMMA Grown ==
  ASSUME JInv, NEW s \in Ids, NEW k \in 1..MaxChunks, NEW f \in Nat \ {0}, NEW n \in Nat,
         NEW b \in BOOLEAN, wire'[s] = wire[s] \o Parts(s, k, f, n, b),
         received'[s] = received[s]
  PROVE  /\ Extends(wire'[s], wire[s], k, f, n, b)
         /\ \A j : \A p \in Nat :
              OnWire(s, j, p)' <=> OnWire(s, j, p) \/ (j = k /\ f <= p /\ p < f + n)
         /\ \A j, p : Received(s, j, p) => Received(s, j, p)'
<1> DEFINE w == wire[s]
           v == wire'[s]
<1>1. w \in Seq(Part) /\ v = w \o Parts(s, k, f, n, b)
  BY OneSession
<1> HIDE DEF w, v
<1>2. Extends(v, w, k, f, n, b)
  BY <1>1, Extended
<1>3. /\ DOMAIN w \subseteq DOMAIN v /\ \A i \in DOMAIN w : v[i] = w[i]
      /\ Len(w) \in Nat /\ DOMAIN v = 1..(Len(w) + n)
  BY <1>2 DEF Extends
<1>4. ASSUME NEW j, NEW p \in Nat
      PROVE  OnWire(s, j, p)' <=> OnWire(s, j, p) \/ (j = k /\ f <= p /\ p < f + n)
  <2>1. ASSUME OnWire(s, j, p)' PROVE OnWire(s, j, p) \/ (j = k /\ f <= p /\ p < f + n)
    <3>1. PICK i \in DOMAIN v : v[i].chunk = j /\ v[i].part = p
      BY <2>1 DEF OnWire, v
    <3>2. CASE i \in DOMAIN w
      BY <1>3, <3>1, <3>2 DEF OnWire, w
    <3>3. CASE i \notin DOMAIN w
      <4>1. PICK m \in 1..n : i = Len(w) + m
        BY <1>2, <3>3 DEF Extends
      <4>9. v[i] = [chunk |-> k, part |-> f + m - 1, intact |-> b]
        BY <1>2, <4>1 DEF Extends
      <4> QED BY <3>1, <4>1, <4>9
    <3> QED BY <3>2, <3>3
  <2>2. ASSUME OnWire(s, j, p) PROVE OnWire(s, j, p)'
    <3>1. PICK i \in DOMAIN w : w[i].chunk = j /\ w[i].part = p
      BY <2>2 DEF OnWire, w
    <3>2. i \in DOMAIN v /\ v[i].chunk = j /\ v[i].part = p
      BY <1>3, <3>1
    <3> QED BY <3>2 DEF OnWire, v
  <2>3. ASSUME j = k, f <= p, p < f + n PROVE OnWire(s, j, p)'
    <3> DEFINE m == p - f + 1
               i == Len(w) + m
    <3>1. m \in 1..n /\ i \in DOMAIN v /\ f + m - 1 = p
      BY <1>3, <2>3
    <3> HIDE DEF m
    <3>2. v[i] = [chunk |-> k, part |-> f + m - 1, intact |-> b]
      BY <1>2, <3>1 DEF Extends
    <3> HIDE DEF i
    <3>3. v[i].chunk = j /\ v[i].part = p
      BY <2>3, <3>1, <3>2
    <3> QED BY <3>1, <3>3 DEF OnWire, v
  <2> QED BY <2>1, <2>2, <2>3
<1>5. ASSUME NEW j, NEW p, Received(s, j, p) PROVE Received(s, j, p)'
  <2>1. PICK i \in DOMAIN w : i <= received[s] /\ w[i].chunk = j /\ w[i].part = p
    BY <1>5 DEF Received, w
  <2>2. i \in DOMAIN v /\ i <= received'[s] /\ v[i].chunk = j /\ v[i].part = p
    BY <1>3, <2>1
  <2> QED BY <2>2 DEF Received, v
<1> QED BY <1>2, <1>4, <1>5 DEF w, v

Ordered(w) == \A i, j \in DOMAIN w : i < j => Precedes(w[i], w[j])
Below(w, k, f) ==
  \A i \in DOMAIN w : w[i].chunk < k \/ (w[i].chunk = k /\ w[i].part < f)

LEMMA ExtendedInOrder ==
  ASSUME NEW w \in Seq(Part), NEW v, NEW k \in 1..MaxChunks, NEW f \in Nat \ {0},
         NEW n \in Nat, NEW b \in BOOLEAN, Extends(v, w, k, f, n, b),
         Ordered(w), Below(w, k, f),
         NEW i \in DOMAIN v, NEW j \in DOMAIN v, i < j
  PROVE  Precedes(v[i], v[j])
<1>1. /\ Len(w) \in Nat /\ DOMAIN w = 1..Len(w) /\ DOMAIN v = 1..(Len(w) + n)
      /\ \A l \in DOMAIN w : v[l] = w[l]
  BY DEF Extends
<1>2. \A l \in DOMAIN w : w[l].chunk \in Nat /\ w[l].part \in Nat
  <2>1. \A l \in DOMAIN w : w[l] \in Part
    BY <1>1
  <2> QED BY <2>1, ServerAssumption DEF Part
<1>3. CASE j \in DOMAIN w
  BY <1>1, <1>3 DEF Ordered
<1>4. CASE j \notin DOMAIN w
  <2>1. PICK m \in 1..n : j = Len(w) + m
    BY <1>4 DEF Extends
  <2>9. v[j] = [chunk |-> k, part |-> f + m - 1, intact |-> b]
    BY <2>1 DEF Extends
  <2>2. CASE i \in DOMAIN w
    <3>1. v[i] = w[i] /\ v[i].chunk \in Nat /\ v[i].part \in Nat
      BY <1>1, <1>2, <2>2
    <3>2. v[i].chunk < k \/ (v[i].chunk = k /\ v[i].part < f)
      BY <2>2, <3>1 DEF Below
    <3>3. f <= v[j].part /\ v[j].part \in Nat
      BY <2>1, <2>9
    <3> QED BY <2>1, <2>9, <3>1, <3>2, <3>3 DEF Precedes
  <2>3. CASE i \notin DOMAIN w
    <3>1. PICK l \in 1..n : i = Len(w) + l
      BY <2>3 DEF Extends
    <3>9. v[i] = [chunk |-> k, part |-> f + l - 1, intact |-> b]
      BY <3>1 DEF Extends
    <3>2. l < m
      BY <1>1, <2>1, <3>1
    <3> QED BY <2>1, <2>9, <3>1, <3>2, <3>9 DEF Precedes
  <2> QED BY <2>2, <2>3
<1> QED BY <1>3, <1>4

LEMMA GrownInOrder ==
  ASSUME JInv, NEW s \in Ids, NEW k \in 1..MaxChunks, NEW f \in Nat \ {0}, NEW n \in Nat,
         NEW b \in BOOLEAN, Extends(wire'[s], wire[s], k, f, n, b), InPartOrder(s),
         Below(wire[s], k, f)
  PROVE  InPartOrder(s)'
<1>1. wire[s] \in Seq(Part) /\ Ordered(wire[s])
  BY OneSession DEF InPartOrder, Ordered
<1>2. ASSUME NEW i \in DOMAIN wire'[s], NEW j \in DOMAIN wire'[s], i < j
      PROVE  Precedes(wire'[s][i], wire'[s][j])
  BY <1>1, <1>2, ExtendedInOrder
<1> QED BY <1>2 DEF InPartOrder, Precedes

(* What the socket takes is no more than there is, nor than has room.      *)
LEMMA FittingFits ==
  ASSUME JInv, NEW s \in Ids, NEW n \in Nat
  PROVE  /\ Fitting(s, n) \in Nat /\ Fitting(s, n) <= n
         /\ Len(wire[s]) + Fitting(s, n) <= received[s] + Room
         /\ Len(wire[s]) = received[s] /\ Fits(n) => Fitting(s, n) = n
<1>1. /\ Len(wire[s]) \in Nat /\ received[s] \in Nat /\ Room \in Nat
      /\ Len(wire[s]) <= received[s] + Room
  BY OneSession DEF Wires, RoomKept
<1> DEFINE a == Len(wire[s])
           asked == IF n <= Attempt THEN n ELSE Attempt
<1>2. asked \in Nat /\ asked <= n /\ (Fits(n) => asked = n /\ n <= Room)
  BY ServerAssumption DEF Fits
<1>3. Fitting(s, n) = IF asked <= Room - (a - received[s]) THEN asked ELSE Room - (a - received[s])
  BY DEF Fitting
<1> HIDE DEF a, asked
<1>4. a \in Nat /\ a <= received[s] + Room
  BY <1>1 DEF a
<1>5. CASE asked <= Room - (a - received[s])
  BY <1>1, <1>2, <1>3, <1>4, <1>5 DEF a
<1>6. CASE ~(asked <= Room - (a - received[s]))
  BY <1>1, <1>2, <1>3, <1>4, <1>6 DEF a
<1> QED BY <1>5, <1>6

(* A patient client has sent nothing after what is still to be answered,   *)
LEMMA LastIsLeft ==
  ASSUME JInv, NEW s \in patient, NEW k \in Outstanding(s), left[s][k] > 0
  PROVE  sent[s] <= k
<1>1. s \in Ids
  BY DEF JInv, WritesOK
<1>2. /\ k \in 1..MaxChunks /\ k <= Len(got[s]) /\ left[s][k] <= Size[s][k]
      /\ Size[s][k] \in Nat /\ left[s][k] \in Nat /\ sent[s] \in 0..MaxChunks
      /\ MaxChunks \in Nat
      /\ \A p \in 1..Size[s][k] : OnWire(s, k, p) => p <= Size[s][k] - left[s][k]
      /\ HasResponses(s)
  BY <1>1, OneSession DEF Wires, WritesCounted, Outstanding, Waits
<1> SUFFICES ASSUME k < sent[s] PROVE FALSE
  BY <1>2
<1>3. Size[s][k] \in 1..Size[s][k]
  BY <1>2
<1>4. Received(s, k, Size[s][k])
  BY <1>2, <1>3 DEF HasResponses
<1>5. OnWire(s, k, Size[s][k])
  BY <1>4 DEF Received, OnWire
<1> QED BY <1>2, <1>3, <1>5

(* and has received all that its socket took, once it sends the next.      *)
LEMMA NothingUnderWay ==
  ASSUME JInv, NEW s \in patient, Len(got[s]) < sent[s]
  PROVE  Len(wire[s]) = received[s]
<1>1. s \in Ids
  BY DEF JInv, WritesOK
<1>2. /\ wire[s] \in Seq(Part) /\ Len(wire[s]) \in Nat /\ DOMAIN wire[s] = 1..Len(wire[s])
      /\ received[s] \in Nat /\ received[s] <= Len(wire[s])
      /\ Len(got[s]) \in Nat /\ sent[s] \in 0..MaxChunks /\ MaxChunks \in Nat
      /\ PartsKnown(s) /\ HasResponses(s) /\ InPartOrder(s)
  BY <1>1, OneSession DEF Wires, RoomKept, Waits
<1>3. CASE Len(wire[s]) = 0
  BY <1>2, <1>3
<1>4. CASE Len(wire[s]) > 0
  <2> DEFINE i == Len(wire[s])
             c == wire[s][i].chunk
             p == wire[s][i].part
  <2>1. /\ i \in DOMAIN wire[s] /\ c \in 1..Len(got[s]) /\ p \in 1..Size[s][c]
        /\ wire[s][i] \in Part
    BY <1>2, <1>4 DEF PartsKnown
  <2>2. c \in 1..MaxChunks /\ c < sent[s] /\ p \in Nat
    BY <1>2, <2>1 DEF Part
  <2>3. Received(s, c, p)
    BY <1>2, <2>1, <2>2 DEF HasResponses
  <2>4. PICK j \in DOMAIN wire[s] : j <= received[s] /\ wire[s][j].chunk = c /\ wire[s][j].part = p
    BY <2>3 DEF Received
  <2>5. ~(j < i)
    <3>1. ~Precedes(wire[s][j], wire[s][i])
      BY <2>2, <2>4 DEF Precedes
    <3> HIDE DEF i
    <3> QED BY <1>2, <2>1, <2>4, <3>1 DEF InPartOrder
  <2>6. i <= j /\ j \in Nat
    BY <1>2, <2>4, <2>5
  <2> QED BY <1>2, <2>4, <2>6
<1> QED BY <1>2, <1>3, <1>4

LEMMA ProcessWrites ==
  ASSUME JInv, NEW s \in Ids, Process(s)
  PROVE  /\ Wires(s)' /\ Waits(s)'
         /\ wire' \in [Ids -> Seq(Part)]
         /\ left' \in [Ids -> [1..MaxChunks -> Nat \cup {NoWrite}]]
<1> DEFINE k == Chunk(s)
           size == Size[s][k]
<1>1. /\ io = s /\ got' = [got EXCEPT ![s] = Append(@, k)]
      /\ UNCHANGED <<sent, received, patient, up>>
  BY DEF Process, clientVars, peerVars
<1>2. /\ wire[s] \in Seq(Part) /\ Len(wire[s]) \in Nat /\ DOMAIN wire[s] = 1..Len(wire[s])
      /\ received[s] \in Nat /\ Room \in Nat \ {0} /\ MaxChunks \in Nat
      /\ Len(got[s]) \in Nat /\ sent[s] \in 0..MaxChunks
      /\ Wires(s) /\ Waits(s) /\ IInv
      /\ \A j \in 1..MaxChunks : Size[s][j] \in Nat /\ left[s][j] \in Nat \cup {NoWrite}
  BY OneSession
<1>3. k = Len(got[s]) + 1 /\ k <= sent[s]
  BY <1>1, <1>2, ChunkIsNext
<1> HIDE DEF k
<1>4. k \in 1..MaxChunks /\ size \in Nat
  BY <1>2, <1>3
<1>5. Len(got'[s]) = k
  <2>1. SessionsOK /\ got \in [Ids -> Seq(1..MaxChunks)]
    BY <1>2 DEF IInv, SessionsOK
  <2>2. got[s] \in Seq(Nat) /\ got'[s] = Append(got[s], k)
    BY <1>1, <2>1, ChunkSeqs
  <2> QED BY <1>3, <1>4, <2>2
<1>6. PICK n \in {0, Fitting(s, size)} :
        /\ n = 0 => \/ Fitting(s, size) = 0 \/ s \notin up
                    \/ \E j \in Outstanding(s) : left[s][j] > 0
        /\ wire' = [wire EXCEPT ![s] = @ \o Parts(s, k, 1, n, TRUE)]
        /\ left' = [left EXCEPT ![s][k] = size - n]
  BY DEF Process, WriteAtOnce, k
<1>7. n \in Nat /\ n <= size /\ Len(wire[s]) + n <= received[s] + Room
  <2>1. CASE n = 0
    BY <1>2, <1>4, <2>1 DEF Wires, RoomKept
  <2>2. CASE n = Fitting(s, size)
    BY <1>4, <2>2, FittingFits
  <2> QED BY <1>6, <2>1, <2>2
<1> HIDE DEF size
<1>8. /\ wire'[s] = wire[s] \o Parts(s, k, 1, n, TRUE)
      /\ left'[s] = [left[s] EXCEPT ![k] = size - n]
      /\ left[s] \in [1..MaxChunks -> Nat \cup {NoWrite}]
  BY <1>6 DEF JInv, WritesOK
<1>9. /\ Extends(wire'[s], wire[s], k, 1, n, TRUE)
      /\ \A j : \A p \in Nat :
           OnWire(s, j, p)' <=> OnWire(s, j, p) \/ (j = k /\ 1 <= p /\ p < 1 + n)
      /\ \A j, p : Received(s, j, p) => Received(s, j, p)'
  <2>1. received'[s] = received[s] /\ 1 \in Nat \ {0} /\ TRUE \in BOOLEAN
    BY <1>1
  <2> QED BY <1>4, <1>7, <1>8, <2>1, Grown
<1>10. /\ left'[s][k] = size - n /\ size - n \in Nat
       /\ Outstanding(s)' = Outstanding(s) \cup {k}
       /\ \A j \in Outstanding(s)' : j # k => j \in Outstanding(s) /\ left'[s][j] = left[s][j]
  <2>1. size - n \in Nat /\ left'[s][k] = size - n
    <3>1. size - n \in Nat
      BY <1>4, <1>7
    <3>2. left'[s][k] = size - n
      BY <1>4, <1>8
    <3> QED BY <3>1, <3>2
  <2>2. \A j \in 1..MaxChunks : j # k => left'[s][j] = left[s][j]
    BY <1>8
  <2>3. left'[s][k] # NoWrite
    BY <2>1 DEF NoWrite
  <2>4. Outstanding(s)' = Outstanding(s) \cup {k}
    BY <1>4, <2>2, <2>3 DEF Outstanding
  <2> QED BY <2>1, <2>2, <2>4 DEF Outstanding
<1>11. \A i \in DOMAIN wire[s] : wire[s][i].chunk < k /\ wire[s][i].chunk \in 1..Len(got'[s])
  BY <1>2, <1>3, <1>5 DEF Wires, PartsKnown
<1>12. RoomKept(s)'
  BY <1>1, <1>2, <1>7, <1>9 DEF RoomKept, Wires, Extends
<1>13. ASSUME NEW i \in DOMAIN wire'[s], i \notin DOMAIN wire[s]
       PROVE  /\ wire'[s][i].chunk = k /\ wire'[s][i].part \in 1..n
              /\ wire'[s][i].intact
  <2>1. PICK m \in 1..n : i = Len(wire[s]) + m
    BY <1>9, <1>13 DEF Extends
  <2>2. wire'[s][i] = [chunk |-> k, part |-> 1 + m - 1, intact |-> TRUE]
    BY <1>9, <2>1 DEF Extends
  <2> QED BY <2>1, <2>2
<1>14. PartsKnown(s)'
  <2> SUFFICES ASSUME NEW i \in DOMAIN wire'[s]
               PROVE  /\ wire'[s][i].chunk \in 1..Len(got'[s])
                      /\ wire'[s][i].part \in 1..Size[s][wire'[s][i].chunk]
    BY DEF PartsKnown
  <2>1. CASE i \in DOMAIN wire[s]
    <3>1. wire'[s][i] = wire[s][i]
      BY <1>9, <2>1 DEF Extends
    <3> QED BY <1>2, <1>11, <2>1, <3>1 DEF Wires, PartsKnown
  <2>2. CASE i \notin DOMAIN wire[s]
    BY <1>4, <1>5, <1>7, <1>13, <2>2 DEF size
  <2> QED BY <2>1, <2>2
<1>15. WritesCounted(s)'
  <2> SUFFICES ASSUME NEW j \in Outstanding(s)'
               PROVE  /\ j <= Len(got'[s]) /\ left'[s][j] <= Size[s][j]
                      /\ \A p \in 1..Size[s][j] :
                           OnWire(s, j, p)' <=> p <= Size[s][j] - left'[s][j]
    BY DEF WritesCounted
  <2>1. CASE j = k
    <3>1. left'[s][j] = size - n /\ Size[s][j] = size
      BY <1>10, <2>1 DEF size
    <3>2. ASSUME NEW p \in 1..size
          PROVE  OnWire(s, j, p)' <=> p <= size - (size - n)
      <4>1. p \in Nat /\ 1 <= p /\ (p <= size - (size - n) <=> p < 1 + n)
        BY <1>4, <1>7
      <4>2. ~OnWire(s, j, p)
        BY <1>2, <1>3, <1>11, <2>1 DEF OnWire
      <4>3. OnWire(s, j, p)' <=> OnWire(s, j, p) \/ (j = k /\ 1 <= p /\ p < 1 + n)
        BY <1>9, <4>1
      <4> QED BY <2>1, <4>1, <4>2, <4>3
    <3>3. j <= Len(got'[s]) /\ size - n <= size
      BY <1>4, <1>5, <1>7, <2>1
    <3> QED BY <3>1, <3>2, <3>3
  <2>2. CASE j # k
    <3>1. j \in Outstanding(s) /\ left'[s][j] = left[s][j]
      BY <1>10, <2>2
    <3>2. j \in 1..MaxChunks /\ Size[s][j] \in Nat
      BY <1>2, <3>1 DEF Outstanding
    <3>3. j <= Len(got[s]) /\ left[s][j] <= Size[s][j]
          /\ \A p \in 1..Size[s][j] : OnWire(s, j, p) <=> p <= Size[s][j] - left[s][j]
      BY <1>2, <3>1 DEF Wires, WritesCounted
    <3>4. \A p \in 1..Size[s][j] : OnWire(s, j, p)' <=> OnWire(s, j, p)
      BY <1>9, <2>2, <3>2
    <3> QED BY <1>2, <1>3, <1>5, <3>1, <3>2, <3>3, <3>4
  <2> QED BY <2>1, <2>2
<1>16. WritesEnded(s)'
  <2> SUFFICES ASSUME Open(s)', NEW j \in 1..Len(got'[s]), j \notin Outstanding(s)',
                      NEW p \in 1..Size[s][j]
               PROVE  OnWire(s, j, p)'
    BY DEF WritesEnded
  <2>1. j \in 1..Len(got[s]) /\ j \notin Outstanding(s) /\ p \in Nat
    BY <1>2, <1>3, <1>4, <1>5, <1>10
  <2>2. Open(s)
    <3>1. sessions' = sessions /\ s \in Ids /\ io = s
      BY <1>1 DEF Process, sessionVars
    <3> QED BY <1>1, <3>1, ServerAssumption DEF Open
  <2>3. OnWire(s, j, p)
    BY <1>2, <2>1, <2>2 DEF Wires, WritesEnded
  <2> QED BY <1>9, <2>1, <2>3
<1>17. ASSUME s \in patient PROVE HasResponses(s)' /\ InPartOrder(s)' /\ FittingIntact(s)'
  <2>1. HasResponses(s)'
    BY <1>1, <1>2, <1>9, <1>17 DEF Waits, HasResponses
  <2>2. InPartOrder(s)'
    <3>1. InPartOrder(s) /\ Below(wire[s], k, 1)
      BY <1>2, <1>11, <1>17 DEF Waits, Below
    <3>2. 1 \in Nat \ {0} /\ TRUE \in BOOLEAN
      OBVIOUS
    <3> QED BY <1>4, <1>7, <1>9, <3>1, <3>2, GrownInOrder
  <2>3. FittingIntact(s)'
    <3> SUFFICES ASSUME NEW i \in DOMAIN wire'[s], Fits(Size[s][wire'[s][i].chunk])
                 PROVE  wire'[s][i].intact
      BY DEF FittingIntact
    <3>1. CASE i \in DOMAIN wire[s]
      <4>1. wire'[s][i] = wire[s][i]
        BY <1>9, <3>1 DEF Extends
      <4> QED BY <1>2, <1>17, <3>1, <4>1 DEF Waits, FittingIntact
    <3>2. CASE i \notin DOMAIN wire[s]
      BY <1>13, <3>2
    <3> QED BY <3>1, <3>2
  <2> QED BY <2>1, <2>2, <2>3
<1>18. ASSUME s \in patient PROVE FittingTaken(s)'
  <2> SUFFICES ASSUME s \in up, NEW j \in Outstanding(s)', Fits(Size[s][j])
               PROVE  left'[s][j] = 0
    BY <1>1 DEF FittingTaken
  <2>1. CASE j # k
    BY <1>2, <1>10, <1>18, <2>1 DEF Waits, FittingTaken
  <2>2. CASE j = k
    <3>1. Fitting(s, size) = size
      <4>1. Len(wire[s]) = received[s]
        BY <1>2, <1>3, <1>18, NothingUnderWay
      <4> QED BY <1>4, <2>2, <4>1, FittingFits DEF size
    <3>2. ASSUME NEW l \in Outstanding(s), left[s][l] > 0 PROVE FALSE
      <4>1. l <= Len(got[s]) /\ sent[s] <= l /\ l \in 1..MaxChunks
        BY <1>2, <1>18, <3>2, LastIsLeft DEF Wires, WritesCounted, Outstanding
      <4> QED BY <1>2, <1>3, <4>1
    <3>3. n = size
      BY <1>6, <3>1, <3>2
    <3> QED BY <1>4, <1>10, <2>2, <3>3
  <2> QED BY <2>1, <2>2
<1>19. wire' \in [Ids -> Seq(Part)]
  <2>1. wire'[s] \in Seq(Part) /\ wire \in [Ids -> Seq(Part)]
    BY <1>9 DEF Extends, JInv, WritesOK
  <2> QED BY <1>6, <2>1
<1>20. left' \in [Ids -> [1..MaxChunks -> Nat \cup {NoWrite}]]
  <2>1. size - n \in Nat /\ left \in [Ids -> [1..MaxChunks -> Nat \cup {NoWrite}]]
    BY <1>10 DEF JInv, WritesOK
  <2> QED BY <1>6, <2>1
<1> QED BY <1>1, <1>12, <1>14, <1>15, <1>16, <1>17, <1>18, <1>19, <1>20 DEF Wires, Waits

LEMMA MoreWrites ==
  ASSUME JInv, NEW s \in Ids, NEW k \in 1..MaxChunks, WriteMore(s, k)
  PROVE  /\ Wires(s)' /\ Waits(s)'
         /\ wire' \in [Ids -> Seq(Part)]
         /\ left' \in [Ids -> [1..MaxChunks -> Nat \cup {NoWrite}]]
<1> DEFINE size == Size[s][k]
           old == left[s][k]
           n == Fitting(s, old)
           f == size - old + 1
<1>1. /\ s \in up /\ k \in Outstanding(s) /\ n > 0
      /\ wire' = [wire EXCEPT ![s] = @ \o Parts(s, k, f, n, FALSE)]
      /\ left' = [left EXCEPT ![s][k] = @ - n]
      /\ UNCHANGED <<got, sent, received, patient, up, sessions, io>>
  BY DEF WriteMore, clientVars, peerVars, sessionVars
<1>2. /\ wire[s] \in Seq(Part) /\ Len(wire[s]) \in Nat /\ DOMAIN wire[s] = 1..Len(wire[s])
      /\ received[s] \in Nat /\ Room \in Nat \ {0} /\ MaxChunks \in Nat
      /\ Len(got[s]) \in Nat /\ sent[s] \in 0..MaxChunks /\ Len(got[s]) <= sent[s]
      /\ Wires(s) /\ Waits(s)
      /\ \A j \in 1..MaxChunks : Size[s][j] \in Nat /\ left[s][j] \in Nat \cup {NoWrite}
  BY OneSession
<1>3. /\ size \in Nat /\ old \in Nat /\ old <= size /\ k <= Len(got[s])
      /\ \A p \in 1..size : OnWire(s, k, p) <=> p <= size - old
  BY <1>1, <1>2 DEF Wires, WritesCounted, Outstanding
<1>4. n \in Nat /\ n <= old /\ Len(wire[s]) + n <= received[s] + Room
  BY <1>3, FittingFits
<1> HIDE DEF n
<1>5. /\ wire'[s] = wire[s] \o Parts(s, k, f, n, FALSE)
      /\ left'[s] = [left[s] EXCEPT ![k] = @ - n]
      /\ left[s] \in [1..MaxChunks -> Nat \cup {NoWrite}]
      /\ left \in [Ids -> [1..MaxChunks -> Nat \cup {NoWrite}]] /\ wire \in [Ids -> Seq(Part)]
  BY <1>1 DEF JInv, WritesOK
<1>6. left'[s][k] = old - n /\ \A j \in 1..MaxChunks : j # k => left'[s][j] = left[s][j]
  BY <1>5
<1> HIDE DEF size, old, f
<1>7. f \in Nat \ {0} /\ old - n \in Nat /\ f + n = size - (old - n) + 1 /\ f + n - 1 <= size
  BY <1>3, <1>4 DEF f
<1>8. /\ Extends(wire'[s], wire[s], k, f, n, FALSE)
      /\ \A j : \A p \in Nat :
           OnWire(s, j, p)' <=> OnWire(s, j, p) \/ (j = k /\ f <= p /\ p < f + n)
      /\ \A j, p : Received(s, j, p) => Received(s, j, p)'
  <2>1. received'[s] = received[s] /\ FALSE \in BOOLEAN
    BY <1>1
  <2> QED BY <1>4, <1>5, <1>7, <2>1, Grown
<1>9. Outstanding(s)' = Outstanding(s)
  <2>1. left'[s][k] # NoWrite
    BY <1>6, <1>7 DEF NoWrite
  <2> QED BY <1>1, <1>6, <2>1 DEF Outstanding
<1>10. ASSUME NEW i \in DOMAIN wire'[s], i \notin DOMAIN wire[s]
       PROVE  wire'[s][i].chunk = k /\ wire'[s][i].part \in 1..size
  <2>1. PICK m \in 1..n : i = Len(wire[s]) + m
    BY <1>8, <1>10 DEF Extends
  <2>2. wire'[s][i] = [chunk |-> k, part |-> f + m - 1, intact |-> FALSE]
    BY <1>8, <2>1 DEF Extends
  <2>3. f + m - 1 \in 1..size
    BY <1>3, <1>4, <1>7, <2>1
  <2> QED BY <2>2, <2>3
<1>11. RoomKept(s)'
  <2>1. Len(wire'[s]) = Len(wire[s]) + n /\ received'[s] = received[s]
    BY <1>1, <1>8 DEF Extends
  <2>2. received[s] <= Len(wire[s])
    BY <1>2 DEF Wires, RoomKept
  <2> QED BY <1>2, <1>4, <2>1, <2>2 DEF RoomKept
<1>12. PartsKnown(s)'
  <2> SUFFICES ASSUME NEW i \in DOMAIN wire'[s]
               PROVE  /\ wire'[s][i].chunk \in 1..Len(got[s])
                      /\ wire'[s][i].part \in 1..Size[s][wire'[s][i].chunk]
    BY <1>1 DEF PartsKnown
  <2>1. CASE i \in DOMAIN wire[s]
    <3>1. wire'[s][i] = wire[s][i]
      BY <1>8, <2>1 DEF Extends
    <3> QED BY <1>2, <2>1, <3>1 DEF Wires, PartsKnown
  <2>2. CASE i \notin DOMAIN wire[s]
    BY <1>2, <1>3, <1>10, <2>2 DEF size
  <2> QED BY <2>1, <2>2
<1>13. WritesCounted(s)'
  <2> SUFFICES ASSUME NEW j \in Outstanding(s)
               PROVE  /\ j <= Len(got[s]) /\ left'[s][j] <= Size[s][j]
                      /\ \A p \in 1..Size[s][j] :
                           OnWire(s, j, p)' <=> p <= Size[s][j] - left'[s][j]
    BY <1>1, <1>9 DEF WritesCounted
  <2>0. j \in 1..MaxChunks /\ j <= Len(got[s]) /\ left[s][j] <= Size[s][j]
        /\ \A p \in 1..Size[s][j] : OnWire(s, j, p) <=> p <= Size[s][j] - left[s][j]
    BY <1>2 DEF Wires, WritesCounted, Outstanding
  <2>1. CASE j = k
    <3>1. left'[s][j] = old - n /\ Size[s][j] = size /\ left[s][j] = old
      BY <1>6, <2>1 DEF size, old
    <3>2. ASSUME NEW p \in 1..size
          PROVE  OnWire(s, j, p)' <=> p <= size - (old - n)
      <4>1. p \in Nat /\ (p <= size - (old - n) <=> p < f + n)
            /\ (p <= size - old <=> p < f) /\ (f <= p \/ p < f)
        BY <1>3, <1>4, <1>7 DEF f
      <4>2. p < f => p < f + n
        BY <1>4, <1>7, <4>1
      <4>3. OnWire(s, j, p)' <=> OnWire(s, j, p) \/ (j = k /\ f <= p /\ p < f + n)
        BY <1>8, <4>1
      <4>4. OnWire(s, j, p) <=> p < f
        BY <2>0, <3>1, <4>1
      <4> QED BY <2>1, <4>1, <4>2, <4>3, <4>4
    <3>3. old - n <= size
      BY <1>3, <1>4
    <3> QED BY <2>0, <3>1, <3>2, <3>3
  <2>2. CASE j # k
    <3>1. left'[s][j] = left[s][j]
      BY <1>6, <2>0, <2>2
    <3>2. \A p \in 1..Size[s][j] : OnWire(s, j, p)' <=> OnWire(s, j, p)
      BY <1>2, <1>8, <2>0, <2>2
    <3> QED BY <2>0, <3>1, <3>2
  <2> QED BY <2>1, <2>2
<1>14. WritesEnded(s)'
  <2> SUFFICES ASSUME Open(s)', NEW j \in 1..Len(got[s]), j \notin Outstanding(s),
                      NEW p \in 1..Size[s][j]
               PROVE  OnWire(s, j, p)'
    BY <1>1, <1>9 DEF WritesEnded
  <2>1. Open(s)
    BY <1>1 DEF Open
  <2>2. OnWire(s, j, p) /\ p \in Nat
    BY <1>2, <2>1 DEF Wires, WritesEnded
  <2> QED BY <1>8, <2>2
<1>15. ASSUME s \in patient PROVE Waits(s)'
  <2>1. sent[s] <= k /\ ~Fits(size)
    <3>1. left[s][k] > 0
      BY <1>1, <1>3, <1>4 DEF old
    <3>2. sent[s] <= k
      BY <1>1, <1>15, <3>1, LastIsLeft
    <3>3. ~Fits(size)
      BY <1>1, <1>2, <1>15, <3>1 DEF Waits, FittingTaken, size
    <3> QED BY <3>2, <3>3
  <2>2. HasResponses(s)'
    BY <1>1, <1>2, <1>8, <1>15 DEF Waits, HasResponses
  <2>3. InPartOrder(s)'
    <3>1. Below(wire[s], k, f)
      <4> SUFFICES ASSUME NEW i \in DOMAIN wire[s]
                   PROVE  wire[s][i].chunk < k \/ (wire[s][i].chunk = k /\ wire[s][i].part < f)
        BY DEF Below
      <4>1. wire[s][i].chunk \in 1..Len(got[s])
            /\ wire[s][i].part \in 1..Size[s][wire[s][i].chunk]
        BY <1>2 DEF Wires, PartsKnown
      <4>2. wire[s][i].chunk <= k
        BY <1>2, <2>1, <4>1
      <4>3. ASSUME wire[s][i].chunk = k PROVE wire[s][i].part < f
        <5>1. wire[s][i].part \in 1..size
          BY <4>1, <4>3 DEF size
        <5>2. OnWire(s, k, wire[s][i].part)
          BY <4>3 DEF OnWire
        <5>3. wire[s][i].part <= size - old
          BY <1>3, <5>1, <5>2 DEF size, old
        <5> QED BY <1>3, <5>1, <5>3 DEF f
      <4> QED BY <1>2, <4>1, <4>2, <4>3
    <3>2. InPartOrder(s) /\ FALSE \in BOOLEAN
      BY <1>2, <1>15 DEF Waits
    <3> QED BY <1>4, <1>7, <1>8, <3>1, <3>2, GrownInOrder
  <2>4. FittingTaken(s)'
    <3> SUFFICES ASSUME NEW j \in Outstanding(s), Fits(Size[s][j])
                 PROVE  left'[s][j] = 0
      BY <1>1, <1>9 DEF FittingTaken
    <3>1. j # k /\ j \in 1..MaxChunks
      BY <2>1 DEF size, Outstanding
    <3> QED BY <1>1, <1>2, <1>6, <1>15, <3>1 DEF Waits, FittingTaken
  <2>5. FittingIntact(s)'
    <3> SUFFICES ASSUME NEW i \in DOMAIN wire'[s], Fits(Size[s][wire'[s][i].chunk])
                 PROVE  wire'[s][i].intact
      BY DEF FittingIntact
    <3>1. CASE i \in DOMAIN wire[s]
      <4>1. wire'[s][i] = wire[s][i]
        BY <1>8, <3>1 DEF Extends
      <4> QED BY <1>2, <1>15, <3>1, <4>1 DEF Waits, FittingIntact
    <3>2. CASE i \notin DOMAIN wire[s]
      BY <1>10, <2>1, <3>2 DEF size
    <3> QED BY <3>1, <3>2
  <2> QED BY <2>2, <2>3, <2>4, <2>5 DEF Waits
<1>16. wire' \in [Ids -> Seq(Part)]
  <2>1. wire'[s] \in Seq(Part)
    BY <1>8 DEF Extends
  <2> QED BY <1>1, <1>5, <2>1
<1>17. left' \in [Ids -> [1..MaxChunks -> Nat \cup {NoWrite}]]
  <2>1. left[s][k] - n \in Nat
    BY <1>7 DEF old
  <2> QED BY <1>1, <1>5, <2>1
<1> QED BY <1>1, <1>11, <1>12, <1>13, <1>14, <1>15, <1>16, <1>17 DEF Wires, Waits

-----------------------------------------------------------------------------
(* A step of one session leaves the wires of the others alone.             *)
LEMMA CalmOthers ==
  ASSUME JInv, NEW s, NEW t \in Ids, t # s,
         left'[t] = left[t], wire'[t] = wire[t], got'[t] = got[t], sent'[t] = sent[t],
         received'[t] = received[t],
         t \in patient' => t \in patient, t \in sessions' => t \in sessions,
         t \in up' => t \in up, io = -1 => io' = -1
  PROVE  Wires(t)' /\ Waits(t)'
<1>1. received[t] \in Nat /\ received[t] <= Len(wire[t])
  BY OneSession DEF Wires, RoomKept
<1>2. Open(t)' => Open(t)
  BY DEF Open
<1> QED BY <1>1, <1>2, Calm

(* Nothing happens to any wire.                                            *)
LEMMA CalmAll ==
  ASSUME JInv, UNCHANGED <<left, wire, got, sent, received, patient>>,
         \A t \in Ids : (t \in sessions' => t \in sessions \/ t \notin started),
         \A t \in Ids : (t \in up' => t \in up \/ t \notin started),
         io = -1 => io' = -1
  PROVE  WritesOK' /\ \A t \in Ids : Wires(t)' /\ Waits(t)'
<1>1. WritesOK'
  BY DEF JInv, WritesOK
<1>2. ASSUME NEW t \in Ids PROVE Wires(t)' /\ Waits(t)'
  <2>1. received[t] \in Nat /\ received[t] <= Len(wire[t]) /\ Unstarted(t)
    BY OneSession DEF Wires, RoomKept
  <2>2. Open(t)' => Open(t) \/ got[t] = << >>
    BY <2>1 DEF Open, Unstarted
  <2>3. t \in up' => t \in up \/ got[t] = << >>
    BY <2>1 DEF Unstarted
  <2> QED BY <2>1, <2>2, <2>3, Calm
<1> QED BY <1>1, <1>2

LEMMA StepWrites ==
  ASSUME JInv, Next
  PROVE  WritesOK' /\ \A t \in Ids : Wires(t)' /\ Waits(t)'
<1> USE DEF clientVars, acceptVars, sessionVars, readVars, writeVars, peerVars
<1>0. /\ left \in [Ids -> [1..MaxChunks -> Nat \cup {NoWrite}]]
      /\ wire \in [Ids -> Seq(Part)] /\ received \in [Ids -> Nat] /\ patient \subseteq Ids
      /\ got \in [Ids -> Seq(1..MaxChunks)] /\ sent \in [Ids -> 0..MaxChunks]
      /\ queued \cap started = {}
  BY DEF JInv, WritesOK, IInv, SessionsOK, Queues
<1>1. ASSUME NEW s \in Ids, Connect(s) \/ Hangup(s)
      PROVE  WritesOK' /\ \A t \in Ids : Wires(t)' /\ Waits(t)'
  BY <1>1, CalmAll DEF Connect, New, Hangup
<1>2. ASSUME NEW s \in Ids, Send(s)
      PROVE  WritesOK' /\ \A t \in Ids : Wires(t)' /\ Waits(t)'
  <2>1. /\ sent' = [sent EXCEPT ![s] = @ + 1]
        /\ UNCHANGED <<left, wire, got, received, up, sessions, io>>
        /\ patient' \subseteq patient
    BY <1>2 DEF Send
  <2>2. WritesOK'
    BY <1>0, <2>1 DEF WritesOK
  <2>3. ASSUME NEW t \in Ids, t # s PROVE Wires(t)' /\ Waits(t)'
    BY <1>0, <2>1, <2>3, CalmOthers
  <2> QED BY <1>2, <2>2, <2>3, SendWrites
<1>3. ASSUME NEW s \in Ids, Receive(s)
      PROVE  WritesOK' /\ \A t \in Ids : Wires(t)' /\ Waits(t)'
  <2>1. /\ received[s] < Len(wire[s]) /\ received' = [received EXCEPT ![s] = @ + 1]
        /\ UNCHANGED <<left, wire, got, sent, patient, up, sessions, io>>
    BY <1>3 DEF Receive
  <2>2. WritesOK'
    BY <1>0, <2>1 DEF WritesOK
  <2>3. ASSUME NEW t \in Ids, t # s PROVE Wires(t)' /\ Waits(t)'
    BY <1>0, <2>1, <2>3, CalmOthers
  <2>4. Wires(s)' /\ Waits(s)'
    <3>1. received'[s] = received[s] + 1 /\ received[s] \in Nat /\ Len(wire[s]) \in Nat
      BY <1>0, <2>1, OneSession
    <3>2. received[s] + 1 <= Len(wire[s])
      BY <2>1, <3>1
    <3>3. Open(s)' => Open(s)
      BY <2>1 DEF Open
    <3> QED BY <2>1, <3>1, <3>2, <3>3, Calm
  <2> QED BY <2>2, <2>3, <2>4
<1>4. ASSUME AcceptFails \/ Retry
      PROVE  WritesOK' /\ \A t \in Ids : Wires(t)' /\ Waits(t)'
  BY <1>4, CalmAll DEF AcceptFails, Retry
<1>5. ASSUME NEW s \in Ids, Accept(s) \/ StartFails(s)
      PROVE  WritesOK' /\ \A t \in Ids : Wires(t)' /\ Waits(t)'
  <2>1. CASE Accept(s)
    BY <1>0, <2>1, CalmAll DEF Accept
  <2>2. CASE StartFails(s)
    BY <1>0, <2>2, CalmAll DEF StartFails
  <2> QED BY <1>5, <2>1, <2>2
<1>6. ASSUME NEW s \in Ids, SocketStep(s) \/ OrphanRead(s)
      PROVE  WritesOK' /\ \A t \in Ids : Wires(t)' /\ Waits(t)'
  BY <1>6, ServerAssumption, CalmAll
     DEF SocketStep, ReadCompletes, ReadFails, OrphanRead, Idle
<1>7. ASSUME NEW s \in Ids, OnRead(s) \/ OnReadError(s)
      PROVE  WritesOK' /\ \A t \in Ids : Wires(t)' /\ Waits(t)'
  <2>1. CASE OnRead(s)
    BY <2>1, CalmAll DEF OnRead, Idle
  <2>2. CASE OnReadError(s)
    <3>1. sessions' \subseteq sessions /\ io = 0
      BY <2>2, Closing DEF OnReadError, Idle
    <3> QED BY <2>2, <3>1, CalmAll DEF OnReadError
  <2> QED BY <1>7, <2>1, <2>2
<1>8. ASSUME NEW s \in Ids, Process(s)
      PROVE  WritesOK' /\ \A t \in Ids : Wires(t)' /\ Waits(t)'
  <2>1. Wires(s)' /\ Waits(s)' /\ WritesOK'
    BY <1>0, <1>8, ProcessWrites DEF WritesOK, Process
  <2>2. /\ io = s /\ got' = [got EXCEPT ![s] = Append(@, Chunk(s))]
        /\ UNCHANGED <<sent, received, patient, up, sessions>>
    BY <1>8 DEF Process
  <2>3. /\ \E q : wire' = [wire EXCEPT ![s] = q]
        /\ \E k, q : left' = [left EXCEPT ![s][k] = q]
    BY <1>8 DEF Process, WriteAtOnce
  <2>4. ASSUME NEW t \in Ids, t # s PROVE Wires(t)' /\ Waits(t)'
    <3>1. wire'[t] = wire[t] /\ left'[t] = left[t] /\ got'[t] = got[t]
      BY <1>0, <2>2, <2>3, <2>4
    <3> QED BY <2>2, <2>4, <3>1, ServerAssumption, CalmOthers
  <2> QED BY <2>1, <2>4
<1>9. ASSUME NEW s \in Ids, ProcessAborts(s)
      PROVE  WritesOK' /\ \A t \in Ids : Wires(t)' /\ Waits(t)'
  <2>1. /\ io = s /\ got' = [got EXCEPT ![s] = Append(@, Chunk(s))]
        /\ UNCHANGED <<left, wire, sent, received, patient, up>> /\ sessions' \subseteq sessions
    BY <1>9, Closing DEF ProcessAborts
  <2>2. WritesOK'
    BY <1>0, <2>1 DEF WritesOK
  <2>3. ASSUME NEW t \in Ids, t # s PROVE Wires(t)' /\ Waits(t)'
    BY <1>0, <2>1, <2>3, ServerAssumption, CalmOthers
  <2> QED BY <1>9, <2>2, <2>3, AbortWrites
<1>10. ASSUME NEW s \in Ids, NEW k \in 1..MaxChunks, WriteMore(s, k)
       PROVE  WritesOK' /\ \A t \in Ids : Wires(t)' /\ Waits(t)'
  <2>1. Wires(s)' /\ Waits(s)' /\ WritesOK'
    BY <1>0, <1>10, MoreWrites DEF WritesOK, WriteMore
  <2>2. /\ \E q : wire' = [wire EXCEPT ![s] = q]
        /\ \E q : left' = [left EXCEPT ![s][k] = q]
        /\ UNCHANGED <<got, sent, received, patient, up, sessions, io>>
    BY <1>10 DEF WriteMore
  <2>3. ASSUME NEW t \in Ids, t # s PROVE Wires(t)' /\ Waits(t)'
    BY <1>0, <2>2, <2>3, CalmOthers
  <2> QED BY <2>1, <2>3
<1>11. ASSUME NEW s \in Ids, NEW k \in 1..MaxChunks, OnWrite(s, k) \/ OrphanWrite(s, k)
       PROVE  WritesOK' /\ \A t \in Ids : Wires(t)' /\ Waits(t)'
  <2>1. /\ left' = [left EXCEPT ![s][k] = NoWrite]
        /\ UNCHANGED <<wire, got, sent, received, patient, up>> /\ io = 0
        /\ sessions' \subseteq sessions
    BY <1>11, Closing DEF OnWrite, OrphanWrite, Idle
  <2>2. WritesOK'
    <3>1. [left[s] EXCEPT ![k] = NoWrite] \in [1..MaxChunks -> Nat \cup {NoWrite}]
      BY <1>0 DEF WritesOK
    <3>2. left' \in [Ids -> [1..MaxChunks -> Nat \cup {NoWrite}]]
      BY <1>0, <2>1, <3>1 DEF WritesOK
    <3>3. wire' = wire /\ received' = received /\ patient' = patient
      BY <2>1
    <3>4. /\ wire \in [Ids -> Seq(Part)]
          /\ received \in [Ids -> Nat] /\ patient \subseteq Ids
      BY <1>0 DEF WritesOK
    <3> QED BY <3>2, <3>3, <3>4 DEF WritesOK
  <2>3. ASSUME NEW t \in Ids, t # s PROVE Wires(t)' /\ Waits(t)'
    <3>1. left'[t] = left[t]
      BY <1>0, <2>1, <2>3 DEF WritesOK
    <3>2. /\ wire'[t] = wire[t] /\ got'[t] = got[t] /\ sent'[t] = sent[t]
          /\ received'[t] = received[t] /\ patient' = patient /\ up' = up
          /\ (t \in sessions' => t \in sessions) /\ io # -1
      BY <2>1
    <3> QED BY <2>3, <3>1, <3>2, CalmOthers
  <2> QED BY <1>11, <2>2, <2>3, EndsOfWrites
<1> QED BY <1>1, <1>2, <1>3, <1>4, <1>5, <1>6, <1>7, <1>8, <1>9, <1>10, <1>11
        DEF Next, ReadStep

LEMMA StepJInv == JInv /\ [Next]_vars => JInv'
<1> SUFFICES ASSUME JInv, [Next]_vars PROVE JInv'
  OBVIOUS
<1>1. IInv'
  BY StepInv DEF JInv
<1>2. CASE UNCHANGED vars
  <2>1. WritesOK' /\ \A t \in Ids : Wires(t)' /\ Waits(t)'
    BY <1>2, CalmAll
       DEF vars, clientVars, acceptVars, sessionVars, readVars, writeVars, peerVars
  <2> QED BY <1>1, <2>1 DEF JInv
<1>3. CASE Next
  BY <1>1, <1>3, StepWrites DEF JInv
<1> QED BY <1>2, <1>3

LEMMA WritesInductive == Spec => []JInv
BY InitWrites, StepJInv, PTL DEF Spec

-----------------------------------------------------------------------------
(* The state is well formed, and what is being processed belongs to a      *)
(* session that is there, with its next read started (onRead()).           *)
THEOREM TypeCorrect == Spec => []TypeOK
<1>1. JInv => TypeOK
  BY DEF JInv, IInv, TypeOK
<1> QED BY <1>1, WritesInductive, PTL

(* The client of a session that waits for its responses gets them one      *)
(* after the other and whole, however its socket fills up and whatever     *)
(* fails (write(), onWrite()).                                             *)
THEOREM ResponsesAreWhole == Spec => []ResponsesComeWhole
<1>1. ASSUME JInv PROVE ResponsesComeWhole
  <2> SUFFICES ASSUME NEW s \in patient
               PROVE  /\ \A i, j \in DOMAIN wire[s] : i < j => Precedes(wire[s][i], wire[s][j])
                      /\ \A i \in DOMAIN wire[s] :
                           \A k \in 1..(wire[s][i].chunk - 1) : Whole(s, k)
                      /\ Outstanding(s) = {} /\ s \in sessions \cap up /\ io # -1
                           => \A i \in DOMAIN got[s] : Whole(s, got[s][i])
    BY DEF ResponsesComeWhole
  <2>1. s \in Ids
    BY <1>1 DEF JInv, WritesOK
  <2>2. /\ Len(got[s]) \in Nat /\ sent[s] \in 0..MaxChunks /\ Len(got[s]) <= sent[s]
        /\ MaxChunks \in Nat
        /\ PartsKnown(s) /\ WritesEnded(s) /\ HasResponses(s) /\ InPartOrder(s)
    BY <1>1, <2>1, OneSession DEF Wires, Waits
  <2>3. ASSUME NEW i \in DOMAIN wire[s], NEW k \in 1..(wire[s][i].chunk - 1)
        PROVE  Whole(s, k)
    <3>1. wire[s][i].chunk \in 1..Len(got[s])
      BY <2>2 DEF PartsKnown
    <3>2. k \in 1..MaxChunks /\ k < sent[s]
      BY <2>2, <2>3, <3>1
    <3>3. \A p \in 1..Size[s][k] : Received(s, k, p)
      BY <2>2, <3>2 DEF HasResponses
    <3> QED BY <3>3 DEF Received, Whole, Taken
  <2>4. ASSUME Outstanding(s) = {}, s \in sessions \cap up, io # -1, NEW i \in DOMAIN got[s]
        PROVE  Whole(s, got[s][i])
    <3>1. got[s][i] = i /\ i \in 1..Len(got[s])
      <4>1. got[s] \in Seq(Nat) /\ InOrder(got[s])
        BY <1>1, <2>1, ChunkSeqs DEF JInv, IInv, Intact
      <4> QED BY <4>1 DEF InOrder
    <3>2. \A p \in 1..Size[s][i] : OnWire(s, i, p)
      BY <2>2, <2>4, <3>1 DEF WritesEnded, Open
    <3> QED BY <3>1, <3>2 DEF OnWire, Whole, Taken
  <2> QED BY <2>2, <2>3, <2>4 DEF InPartOrder
<1> QED BY <1>1, WritesInductive, PTL

(* A response that fits into the socket and into one attempt to write      *)
(* reaches such a client as it was written, although its buffer is freed   *)
(* when write() returns.                                                   *)
THEOREM FittingAreIntact == Spec => []FittingResponsesAreIntact
<1>1. JInv => FittingResponsesAreIntact
  BY DEF JInv, WritesOK, Waits, FittingIntact, FittingResponsesAreIntact
<1> QED BY <1>1, WritesInductive, PTL
=============================================================================
