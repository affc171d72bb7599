---------------------------- MODULE KesctlProofs ----------------------------
(***************************************************************************)
(* Proofs about Kesctl, for any responses, limit and number of endpoints:  *)
(* the client ends with a response, a message or a signal, and what it     *)
(* prints is the whole response, however it was cut.                       *)
(***************************************************************************)
EXTENDS Kesctl, SequenceTheorems, FiniteSetTheorems, TLAPS

Sequences ==
  /\ bufferIn \in Seq(Byte) /\ arriving \in Seq(Byte) /\ unsent \in Seq(Byte)
  /\ response \in Seq(Byte)

(* Sequence s is in the response, behind its first k bytes.                *)
AtPlace(s, k) ==
  \A i \in 1..Len(s) : k + i \in 1..Len(response) /\ response[k + i] = s[i]

(* What was received, what arrives and what is still to be sent are the    *)
(* response, but for what a reset lost.                                    *)
Working == pc \in {"connect", "run"}

Stream ==
  Working =>
    /\ AtPlace(bufferIn, 0)
    /\ peer # "reset" => /\ AtPlace(arriving, Len(bufferIn))
                         /\ AtPlace(unsent, Len(bufferIn) + Len(arriving))
    /\ peer = "reset" => arriving = << >>

(* The depth is that of the bytes that were counted.                       *)
Counted == IF op = "scan" THEN cur ELSE Len(bufferIn)

Counts ==
  /\ jsonDepth \in Nat /\ cur \in Nat
  /\ op = "scan" => bufferIn # << >> /\ cur <= Len(bufferIn)
  /\ Working => jsonDepth = Depth(bufferIn, Counted)

Unprinted ==
  /\ pc = "connect" => op = "none"
  /\ op # "none" \/ pc = "connect" => printed = << >>

IInv ==
  /\ Sequences /\ Stream /\ Counts /\ Unprinted
  /\ PrintsTheResponse /\ NothingEndsSilently

-----------------------------------------------------------------------------
(* Counting.  One more byte counts if it is the one looked for.            *)
LEMMA CountNext ==
  ASSUME NEW byte, NEW s, NEW n \in Nat
  PROVE  /\ Count(byte, s, n) \in Nat
         /\ s[n + 1] = byte => Count(byte, s, n + 1) = Count(byte, s, n) + 1
         /\ s[n + 1] # byte => Count(byte, s, n + 1) = Count(byte, s, n)
<1> DEFINE S == {i \in 1..n : s[i] = byte}
           T == {i \in 1..(n + 1) : s[i] = byte}
<1>1. IsFiniteSet(S) /\ n + 1 \notin S
  <2>1. IsFiniteSet(1..n) /\ S \subseteq 1..n
    BY FS_Interval
  <2> QED BY <2>1, FS_Subset
<1>2. Count(byte, s, n) = Cardinality(S) /\ Count(byte, s, n + 1) = Cardinality(T)
  BY DEF Count
<1>3. s[n + 1] = byte => T = S \cup {n + 1}
  OBVIOUS
<1>4. s[n + 1] # byte => T = S
  OBVIOUS
<1> HIDE DEF S, T
<1>5. Cardinality(S) \in Nat
  BY <1>1, FS_CardinalityType
<1>6. Cardinality(S \cup {n + 1}) = Cardinality(S) + 1
  BY <1>1, FS_AddElement
<1> QED BY <1>2, <1>3, <1>4, <1>5, <1>6

LEMMA DepthNext ==
  ASSUME NEW s, NEW n \in Nat
  PROVE  /\ Depth(s, n) \in Int
         /\ s[n + 1] = Open => Depth(s, n + 1) = Depth(s, n) + 1
         /\ s[n + 1] = Close => Depth(s, n + 1) = Depth(s, n) - 1
         /\ s[n + 1] \notin {Open, Close} => Depth(s, n + 1) = Depth(s, n)
<1>1. Count(Open, s, n) \in Nat /\ Count(Close, s, n) \in Nat
  BY CountNext
<1>2. /\ s[n + 1] = Open => Count(Open, s, n + 1) = Count(Open, s, n) + 1
      /\ s[n + 1] # Open => Count(Open, s, n + 1) = Count(Open, s, n)
  BY CountNext
<1>3. /\ s[n + 1] = Close => Count(Close, s, n + 1) = Count(Close, s, n) + 1
      /\ s[n + 1] # Close => Count(Close, s, n + 1) = Count(Close, s, n)
  BY CountNext
<1> QED BY <1>1, <1>2, <1>3, KesctlAssumption DEF Depth

(* The depth of a prefix depends on the prefix only.                       *)
LEMMA DepthSame ==
  ASSUME NEW s, NEW t, NEW n \in Nat, \A i \in 1..n : s[i] = t[i]
  PROVE  Depth(s, n) = Depth(t, n)
<1>1. \A byte : {i \in 1..n : s[i] = byte} = {i \in 1..n : t[i] = byte}
  OBVIOUS
<1> QED BY <1>1 DEF Depth, Count

LEMMA DepthOfNothing ==
  ASSUME NEW s
  PROVE  Depth(s, 0) = 0
<1>1. \A byte : {i \in 1..0 : s[i] = byte} = {}
  OBVIOUS
<1>2. \A byte : Count(byte, s, 0) = 0
  BY <1>1, FS_EmptySet DEF Count
<1> QED BY <1>2 DEF Depth

-----------------------------------------------------------------------------
(* The two pieces a sequence is cut into, and a piece that is appended.    *)
LEMMA Pieces ==
  ASSUME NEW S, NEW s \in Seq(S), NEW n \in 1..Len(s)
  PROVE  /\ SubSeq(s, 1, n) \in Seq(S) /\ Len(SubSeq(s, 1, n)) = n
         /\ \A i \in 1..n : SubSeq(s, 1, n)[i] = s[i]
         /\ SubSeq(s, n + 1, Len(s)) \in Seq(S)
         /\ Len(SubSeq(s, n + 1, Len(s))) = Len(s) - n
         /\ \A i \in 1..(Len(s) - n) : SubSeq(s, n + 1, Len(s))[i] = s[n + i]
<1>1. Len(s) \in Nat /\ \A i \in 1..Len(s) : s[i] \in S
  BY LenProperties, ElementOfSeq
<1>2. /\ SubSeq(s, 1, n) \in Seq(S) /\ Len(SubSeq(s, 1, n)) = n
      /\ \A i \in 1..n : SubSeq(s, 1, n)[i] = s[i]
  BY <1>1, SubSeqProperties
<1>3. /\ SubSeq(s, n + 1, Len(s)) \in Seq(S)
      /\ Len(SubSeq(s, n + 1, Len(s))) = Len(s) - n
  BY <1>1, SubSeqProperties
<1>4. \A i \in 1..(Len(s) - n) : SubSeq(s, n + 1, Len(s))[i] = s[n + i]
  BY <1>1, SubSeqProperties
<1> QED BY <1>2, <1>3, <1>4

LEMMA Appended ==
  ASSUME NEW S, NEW s \in Seq(S), NEW t \in Seq(S)
  PROVE  /\ s \o t \in Seq(S) /\ Len(s \o t) = Len(s) + Len(t)
         /\ Len(s) \in Nat /\ Len(t) \in Nat
         /\ \A i \in 1..Len(s) : (s \o t)[i] = s[i]
         /\ \A i \in 1..Len(t) : (s \o t)[Len(s) + i] = t[i]
<1>1. Len(s) \in Nat /\ Len(t) \in Nat
  BY LenProperties
<1>2. /\ s \o t \in Seq(S) /\ Len(s \o t) = Len(s) + Len(t)
      /\ \A i \in 1..(Len(s) + Len(t)) :
           (s \o t)[i] = IF i <= Len(s) THEN s[i] ELSE t[i - Len(s)]
  BY ConcatProperties
<1>3. ASSUME NEW i \in 1..Len(t) PROVE (s \o t)[Len(s) + i] = t[i]
  <2>1. Len(s) + i \in 1..(Len(s) + Len(t)) /\ ~(Len(s) + i <= Len(s))
        /\ Len(s) + i - Len(s) = i
    BY <1>1
  <2> QED BY <1>2, <2>1
<1> QED BY <1>1, <1>2, <1>3

(* Moving n bytes from the head of one sequence to the end of another.     *)
LEMMA Moved ==
  ASSUME NEW s \in Seq(Byte), NEW t \in Seq(Byte), NEW n \in 1..Len(t),
         NEW k \in Nat, AtPlace(s, k), AtPlace(t, k + Len(s))
  PROVE  LET u == s \o SubSeq(t, 1, n)
             v == SubSeq(t, n + 1, Len(t))
         IN  /\ u \in Seq(Byte) /\ v \in Seq(Byte)
             /\ Len(u) = Len(s) + n /\ Len(v) = Len(t) - n
             /\ AtPlace(u, k) /\ AtPlace(v, k + Len(u))
<1> DEFINE c == SubSeq(t, 1, n)
           v == SubSeq(t, n + 1, Len(t))
           u == s \o c
<1>1. /\ c \in Seq(Byte) /\ Len(c) = n /\ \A i \in 1..n : c[i] = t[i]
      /\ v \in Seq(Byte) /\ Len(v) = Len(t) - n
      /\ \A i \in 1..(Len(t) - n) : v[i] = t[n + i]
  BY Pieces
<1> HIDE DEF c, v
<1>2. /\ u \in Seq(Byte) /\ Len(u) = Len(s) + n /\ Len(s) \in Nat
      /\ \A i \in 1..Len(s) : u[i] = s[i]
      /\ \A i \in 1..n : u[Len(s) + i] = c[i]
  <2>1. c \in Seq(Byte)
    BY <1>1
  <2>2. /\ s \o c \in Seq(Byte) /\ Len(s \o c) = Len(s) + Len(c) /\ Len(s) \in Nat
        /\ \A i \in 1..Len(s) : (s \o c)[i] = s[i]
        /\ \A i \in 1..Len(c) : (s \o c)[Len(s) + i] = c[i]
    BY <2>1, Appended
  <2> QED BY <1>1, <2>2
<1>3. Len(t) \in Nat
  BY LenProperties
<1> HIDE DEF u
<1>4. AtPlace(u, k)
  <2> SUFFICES ASSUME NEW i \in 1..(Len(s) + n)
               PROVE  k + i \in 1..Len(response) /\ response[k + i] = u[i]
    BY <1>2 DEF AtPlace
  <2>1. CASE i <= Len(s)
    BY <1>2, <2>1 DEF AtPlace
  <2>2. CASE i > Len(s)
    <3> DEFINE j == i - Len(s)
    <3>1. j \in 1..n /\ j \in 1..Len(t) /\ i = Len(s) + j /\ k + i = (k + Len(s)) + j
      BY <1>2, <1>3, <2>2
    <3> HIDE DEF j
    <3>2. (k + Len(s)) + j \in 1..Len(response) /\ response[(k + Len(s)) + j] = t[j]
      BY <3>1 DEF AtPlace
    <3>3. u[i] = t[j]
      BY <1>1, <1>2, <3>1
    <3> QED BY <3>1, <3>2, <3>3
  <2> QED BY <1>2, <2>1, <2>2
<1>5. AtPlace(v, k + Len(u))
  <2> SUFFICES ASSUME NEW i \in 1..(Len(t) - n)
               PROVE  /\ k + Len(u) + i \in 1..Len(response)
                      /\ response[k + Len(u) + i] = v[i]
    BY <1>1 DEF AtPlace
  <2>1. n + i \in 1..Len(t) /\ k + Len(u) + i = (k + Len(s)) + (n + i)
    BY <1>2, <1>3
  <2>2. /\ (k + Len(s)) + (n + i) \in 1..Len(response)
        /\ response[(k + Len(s)) + (n + i)] = t[n + i]
    BY <2>1 DEF AtPlace
  <2> QED BY <1>1, <2>1, <2>2
<1> QED BY <1>1, <1>2, <1>4, <1>5 DEF u, c, v
-----------------------------------------------------------------------------
LEMMA InitInv == Init => IInv
<1> SUFFICES ASSUME Init PROVE IInv
  OBVIOUS
<1>1. << >> \in Seq(Byte) /\ Len(<< >>) = 0
  BY EmptySeq
<1>2. Sequences /\ Unprinted /\ PrintsTheResponse /\ NothingEndsSilently
  BY <1>1 DEF Init, Sequences, Unprinted, PrintsTheResponse, NothingEndsSilently
<1>3. Stream
  BY <1>1 DEF Init, Stream, AtPlace
<1>4. Counts
  <2>1. Counted = 0 /\ jsonDepth = 0 /\ cur = 0 /\ op # "scan"
    BY <1>1 DEF Init, Counted
  <2> QED BY <2>1, DepthOfNothing DEF Counts
<1> QED BY <1>2, <1>3, <1>4 DEF IInv

(* The server and the user.                                                *)
LEMMA AnswerStep ==
  ASSUME IInv, NEW r \in Responses, Answer(r)
  PROVE  IInv'
<1>1. /\ op = "read" /\ peer = "up" /\ response = << >>
      /\ response' = r /\ unsent' = r
      /\ UNCHANGED <<pc, op, bufferIn, jsonDepth, cur, printed, reported, signalled, arriving,
                     peer>>
  BY DEF Answer, client, scan
<1>2. Sequences'
  BY <1>1, KesctlAssumption DEF IInv, Sequences
<1>3. Working => Len(bufferIn) = 0 /\ Len(arriving) = 0
  <2> SUFFICES ASSUME Working PROVE Len(bufferIn) = 0 /\ Len(arriving) = 0
    OBVIOUS
  <2>1. Len(response) = 0
    BY <1>1, EmptySeq
  <2>2. Len(bufferIn) \in Nat /\ Len(arriving) \in Nat
    BY LenProperties DEF IInv, Sequences
  <2>3. AtPlace(bufferIn, 0) /\ AtPlace(arriving, Len(bufferIn))
    BY <1>1 DEF IInv, Stream
  <2>4. ASSUME NEW s, NEW k, AtPlace(s, k), Len(s) \in Nat PROVE Len(s) = 0
    <3> SUFFICES ASSUME Len(s) # 0 PROVE FALSE
      OBVIOUS
    <3>1. 1 \in 1..Len(s)
      BY <2>4
    <3> QED BY <2>1, <2>4, <3>1 DEF AtPlace
  <2> QED BY <2>2, <2>3, <2>4
<1>4. Stream'
  <2>1. Working' <=> Working
    BY <1>1 DEF Working
  <2>2. ASSUME NEW s, Len(s) = 0, NEW k PROVE AtPlace(s, k)'
    BY <2>2 DEF AtPlace
  <2>3. Len(r) \in Nat
    BY KesctlAssumption, LenProperties
  <2>4. AtPlace(r, 0)'
    BY <1>1, <2>3 DEF AtPlace
  <2> QED BY <1>1, <1>3, <2>1, <2>2, <2>4 DEF Stream, AtPlace
<1>5. Counts' /\ Unprinted' /\ NothingEndsSilently'
  BY <1>1 DEF IInv, Counts, Counted, Working, Unprinted, NothingEndsSilently
<1>6. PrintsTheResponse'
  BY <1>1 DEF IInv, Unprinted, PrintsTheResponse
<1> QED BY <1>2, <1>4, <1>5, <1>6 DEF IInv

LEMMA SendStep ==
  ASSUME IInv, NEW n \in 1..Len(unsent), SendPiece(n)
  PROVE  IInv'
<1>1. /\ peer = "up"
      /\ arriving' = arriving \o SubSeq(unsent, 1, n)
      /\ unsent' = SubSeq(unsent, n + 1, Len(unsent))
      /\ UNCHANGED <<pc, op, bufferIn, jsonDepth, cur, printed, reported, signalled, response,
                     peer>>
  BY DEF SendPiece, client, scan
<1>2. arriving \in Seq(Byte) /\ unsent \in Seq(Byte) /\ Len(bufferIn) \in Nat
  BY LenProperties DEF IInv, Sequences
<1>3. arriving' \in Seq(Byte) /\ unsent' \in Seq(Byte)
  BY <1>1, <1>2, Pieces, Appended
<1>4. Sequences'
  BY <1>1, <1>3 DEF IInv, Sequences
<1>5. Stream'
  <2> SUFFICES ASSUME Working PROVE Stream'
    BY <1>1 DEF Stream, Working
  <2>1. /\ AtPlace(bufferIn, 0) /\ AtPlace(arriving, Len(bufferIn))
        /\ AtPlace(unsent, Len(bufferIn) + Len(arriving))
    BY <1>1 DEF IInv, Stream
  <2>2. AtPlace(arriving', Len(bufferIn)) /\ AtPlace(unsent', Len(bufferIn) + Len(arriving'))
    BY <1>1, <1>2, <2>1, Moved
  <2>3. /\ AtPlace(bufferIn, 0)' /\ AtPlace(arriving, Len(bufferIn))'
        /\ AtPlace(unsent, Len(bufferIn) + Len(arriving))'
    BY <1>1, <2>1, <2>2 DEF AtPlace
  <2> QED BY <1>1, <2>3 DEF Stream
<1>6. Counts' /\ Unprinted' /\ PrintsTheResponse' /\ NothingEndsSilently'
  BY <1>1 DEF IInv, Counts, Counted, Working, Unprinted, PrintsTheResponse,
              NothingEndsSilently
<1> QED BY <1>4, <1>5, <1>6 DEF IInv

LEMMA OutsideStep ==
  ASSUME IInv, HangUp \/ Signal
  PROVE  IInv'
<1>1. /\ UNCHANGED <<pc, op, bufferIn, jsonDepth, cur, printed, reported, response, unsent>>
      /\ signalled => signalled'
      /\ \/ arriving' = arriving /\ (peer' = "reset" <=> peer = "reset")
         \/ arriving' = << >> /\ peer' = "reset"
  BY DEF HangUp, Signal, client, scan, net
<1>2. << >> \in Seq(Byte)
  BY EmptySeq
<1>3. Sequences'
  BY <1>1, <1>2 DEF IInv, Sequences
<1>4. Stream'
  BY <1>1 DEF IInv, Stream, Working, AtPlace
<1>5. Counts' /\ Unprinted' /\ PrintsTheResponse' /\ NothingEndsSilently'
  BY <1>1 DEF IInv, Counts, Counted, Working, Unprinted, PrintsTheResponse,
              NothingEndsSilently
<1> QED BY <1>3, <1>4, <1>5 DEF IInv

(* The steps of main() and of the handlers that count nothing.             *)
LEMMA MainStep ==
  ASSUME IInv, \/ Connect \/ Refused \/ ConnectThrows \/ OnSignal \/ OnWrite \/ OnError \/ End
               \/ ReadMore \/ ScanThrows
  PROVE  IInv'
<1>1. UNCHANGED <<bufferIn, jsonDepth, jsonDepthMax, cur, printed, net>>
  BY DEF Connect, Refused, ConnectThrows, OnSignal, OnWrite, OnError, End, ReadMore,
         ScanThrows, client, scan
<1>2. /\ pc' \in {"connect", "run"} => pc \in {"connect", "run"}
      /\ op' = "scan" => op = "scan"
  BY DEF Connect, Refused, ConnectThrows, OnSignal, OnWrite, OnError, End, ReadMore,
         ScanThrows, Scanning, Scanned, client
<1>3. pc' \in {"connect", "run"} /\ op = "scan" => op' = "scan" \/ cur = Len(bufferIn)
  BY DEF Connect, Refused, ConnectThrows, OnSignal, OnWrite, OnError, End, ReadMore,
         ScanThrows, Scanned, client, IInv, Unprinted
<1>4. Sequences' /\ Stream'
  BY <1>1, <1>2 DEF IInv, Sequences, Stream, Working, AtPlace, net
<1>5. Counts'
  BY <1>1, <1>2, <1>3 DEF IInv, Counts, Counted, Working
<1>6. Unprinted' /\ NothingEndsSilently'
  BY DEF Connect, Refused, ConnectThrows, OnSignal, OnWrite, OnError, End, ReadMore,
         ScanThrows, Scanning, Scanned, client, scan, IInv, Unprinted, NothingEndsSilently
<1>7. PrintsTheResponse'
  BY <1>1 DEF IInv, PrintsTheResponse, net
<1> QED BY <1>4, <1>5, <1>6, <1>7 DEF IInv

-----------------------------------------------------------------------------
(* The reads.  The part that does not fit is thrown away with the client.  *)
LEMMA TooLongStep ==
  ASSUME IInv, NEW n \in 1..Len(arriving), TooLong(n)
  PROVE  IInv'
<1>1. /\ op' = "none" /\ pc' = "stopped" /\ reported' = TRUE
      /\ arriving' = SubSeq(arriving, n + 1, Len(arriving))
      /\ UNCHANGED <<bufferIn, cur, jsonDepth, printed, response, unsent>>
  BY DEF TooLong, Read
<1>2. arriving' \in Seq(Byte)
  BY <1>1, Pieces DEF IInv, Sequences
<1>3. Sequences' /\ Stream' /\ Counts'
  BY <1>1, <1>2 DEF IInv, Sequences, Stream, Counts, Working
<1>4. Unprinted' /\ PrintsTheResponse' /\ NothingEndsSilently'
  BY <1>1 DEF IInv, Unprinted, PrintsTheResponse, NothingEndsSilently
<1> QED BY <1>3, <1>4 DEF IInv

LEMMA TakeStep ==
  ASSUME IInv, NEW n \in 1..Len(arriving), Take(n)
  PROVE  IInv'
<1>1. /\ pc = "run" /\ op = "read" /\ op' = "scan"
      /\ bufferIn' = bufferIn \o SubSeq(arriving, 1, n) /\ cur' = Len(bufferIn)
      /\ arriving' = SubSeq(arriving, n + 1, Len(arriving))
      /\ UNCHANGED <<pc, jsonDepth, printed, reported, signalled, response, unsent, peer>>
  BY DEF Take, Read
<1>2. /\ bufferIn \in Seq(Byte) /\ arriving \in Seq(Byte)
      /\ Len(bufferIn) \in Nat /\ Len(arriving) \in Nat
  BY LenProperties DEF IInv, Sequences
<1>3. SubSeq(arriving, 1, n) \in Seq(Byte) /\ Len(SubSeq(arriving, 1, n)) = n
  BY <1>2, Pieces
<1>4. /\ bufferIn' \in Seq(Byte) /\ Len(bufferIn') = Len(bufferIn) + n
      /\ \A i \in 1..Len(bufferIn) : bufferIn'[i] = bufferIn[i]
  <2> DEFINE c == SubSeq(arriving, 1, n)
  <2>1. c \in Seq(Byte) /\ Len(c) = n /\ bufferIn' = bufferIn \o c
    BY <1>1, <1>3
  <2> HIDE DEF c
  <2>2. /\ bufferIn \o c \in Seq(Byte) /\ Len(bufferIn \o c) = Len(bufferIn) + Len(c)
        /\ \A i \in 1..Len(bufferIn) : (bufferIn \o c)[i] = bufferIn[i]
    BY <1>2, <2>1, Appended
  <2> QED BY <2>1, <2>2
<1>5. arriving' \in Seq(Byte) /\ Len(arriving') = Len(arriving) - n
  BY <1>1, <1>2, Pieces
<1>6. Sequences'
  BY <1>1, <1>4, <1>5 DEF IInv, Sequences
<1>7. Stream'
  <2>1. peer # "reset" /\ Working
    <3>1. arriving # << >>
      BY <1>2, EmptySeq
    <3> QED BY <1>1, <3>1 DEF IInv, Stream, Working
  <2>2. /\ AtPlace(bufferIn, 0) /\ AtPlace(arriving, Len(bufferIn))
        /\ AtPlace(unsent, Len(bufferIn) + Len(arriving))
    BY <2>1 DEF IInv, Stream
  <2>3. AtPlace(bufferIn', 0) /\ AtPlace(arriving', 0 + Len(bufferIn'))
    <3>1. AtPlace(arriving, 0 + Len(bufferIn))
      BY <1>2, <2>2
    <3> QED BY <1>1, <1>2, <2>2, <3>1, Moved
  <2>4. Len(bufferIn') + Len(arriving') = Len(bufferIn) + Len(arriving)
        /\ 0 + Len(bufferIn') = Len(bufferIn')
    BY <1>2, <1>4, <1>5
  <2>5. /\ AtPlace(bufferIn, 0)' /\ AtPlace(arriving, Len(bufferIn))'
        /\ AtPlace(unsent, Len(bufferIn) + Len(arriving))'
    <3>1. response' = response /\ unsent' = unsent
      BY <1>1
    <3>2. AtPlace(bufferIn, 0)'
      BY <2>3, <3>1 DEF AtPlace
    <3>3. AtPlace(arriving', Len(bufferIn'))
      BY <2>3, <2>4
    <3>4. AtPlace(arriving, Len(bufferIn))'
      BY <3>1, <3>3 DEF AtPlace
    <3>5. AtPlace(unsent, Len(bufferIn') + Len(arriving'))
      BY <2>2, <2>4
    <3>6. AtPlace(unsent, Len(bufferIn) + Len(arriving))'
      BY <3>1, <3>5 DEF AtPlace
    <3> QED BY <3>2, <3>4, <3>6
  <2> QED BY <1>1, <2>1, <2>5 DEF Stream
<1>8. Counts'
  <2>1. jsonDepth = Depth(bufferIn, Len(bufferIn)) /\ jsonDepth \in Nat
    BY <1>1 DEF IInv, Counts, Counted, Working
  <2>2. Depth(bufferIn, Len(bufferIn)) = Depth(bufferIn', Len(bufferIn))
    BY <1>2, <1>4, DepthSame
  <2>3. bufferIn' # << >>
    BY <1>2, <1>4, EmptySeq
  <2>4. jsonDepth' = Depth(bufferIn', cur')
    BY <1>1, <2>1, <2>2
  <2>5. (jsonDepth = Depth(bufferIn, Counted))'
    BY <1>1, <2>4 DEF Counted, Depth, Count
  <2>6. cur' \in Nat /\ cur' <= Len(bufferIn') /\ jsonDepth' \in Nat
    BY <1>1, <1>2, <1>4, <2>1
  <2> QED BY <2>3, <2>5, <2>6 DEF Counts
<1>9. Unprinted' /\ PrintsTheResponse' /\ NothingEndsSilently'
  BY <1>1 DEF IInv, Unprinted, PrintsTheResponse, NothingEndsSilently
<1> QED BY <1>6, <1>7, <1>8, <1>9 DEF IInv

LEMMA ScanByteStep ==
  ASSUME IInv, ScanByte
  PROVE  IInv'
<1>1. /\ pc = "run" /\ op = "scan" /\ cur < Len(bufferIn) /\ cur' = cur + 1
      /\ bufferIn[cur + 1] = Close => jsonDepth > 0
      /\ jsonDepth' = CASE bufferIn[cur + 1] = Open -> jsonDepth + 1
                        [] bufferIn[cur + 1] = Close -> jsonDepth - 1
                        [] OTHER -> jsonDepth
      /\ UNCHANGED <<pc, op, bufferIn, printed, reported, signalled, net>>
  BY DEF ScanByte, Scanning
<1>2. Sequences' /\ Stream'
  BY <1>1 DEF IInv, Sequences, Stream, Working, AtPlace, net
<1>3. Counts'
  <2>1. /\ cur \in Nat /\ jsonDepth \in Nat /\ jsonDepth = Depth(bufferIn, cur)
        /\ bufferIn # << >> /\ Len(bufferIn) \in Nat
    BY <1>1, LenProperties DEF IInv, Counts, Counted, Working, Sequences
  <2>2. jsonDepth' = Depth(bufferIn, cur + 1) /\ jsonDepth' \in Nat
    <3>1. CASE bufferIn[cur + 1] = Open
      BY <1>1, <2>1, <3>1, DepthNext
    <3>2. CASE bufferIn[cur + 1] = Close
      BY <1>1, <2>1, <3>2, DepthNext, KesctlAssumption
    <3>3. CASE bufferIn[cur + 1] \notin {Open, Close}
      BY <1>1, <2>1, <3>3, DepthNext
    <3> QED BY <3>1, <3>2, <3>3
  <2>3. (jsonDepth = Depth(bufferIn, Counted))'
    BY <1>1, <2>2 DEF Counted, Depth, Count
  <2> QED BY <1>1, <2>1, <2>2, <2>3 DEF Counts
<1>4. Unprinted' /\ PrintsTheResponse' /\ NothingEndsSilently'
  BY <1>1 DEF IInv, Unprinted, PrintsTheResponse, NothingEndsSilently, net
<1> QED BY <1>2, <1>3, <1>4 DEF IInv

(* Where the depth is zero is the end of a response that is balanced.      *)
LEMMA PrintedStep ==
  ASSUME IInv, Printed
  PROVE  IInv'
<1>1. /\ pc = "run" /\ op = "scan" /\ cur = Len(bufferIn) /\ jsonDepth = 0
      /\ printed' = bufferIn /\ bufferIn' = << >> /\ op' = "none" /\ pc' = "stopped"
      /\ UNCHANGED <<jsonDepth, cur, reported, signalled, net>>
  BY DEF Printed, Scanned
<1>2. /\ bufferIn \in Seq(Byte) /\ response \in Seq(Byte) /\ bufferIn # << >>
      /\ Len(bufferIn) \in Nat /\ Len(response) \in Nat /\ Len(bufferIn) # 0
  <2>1. bufferIn \in Seq(Byte) /\ response \in Seq(Byte) /\ bufferIn # << >>
    BY <1>1 DEF IInv, Sequences, Counts
  <2> QED BY <2>1, LenProperties, EmptySeq
<1>3. Sequences' /\ Stream' /\ Counts' /\ Unprinted'
  <2>1. << >> \in Seq(Byte)
    BY EmptySeq
  <2> QED BY <1>1, <2>1 DEF IInv, Sequences, Stream, Counts, Unprinted, Working, net
<1>4. NothingEndsSilently'
  BY <1>1, <1>2 DEF NothingEndsSilently
<1>5. PrintsTheResponse'
  <2> SUFFICES ASSUME Balanced(response) PROVE bufferIn = response
    BY <1>1 DEF PrintsTheResponse, net
  <2>1. /\ \A i \in 1..Len(bufferIn) : bufferIn[i] = response[i]
        /\ Len(bufferIn) \in 1..Len(response)
    <3>1. AtPlace(bufferIn, 0)
      BY <1>1 DEF IInv, Stream, Working
    <3>2. \A i \in 1..Len(bufferIn) : 0 + i = i
      BY <1>2
    <3>3. \A i \in 1..Len(bufferIn) : i \in 1..Len(response) /\ bufferIn[i] = response[i]
      BY <3>1, <3>2 DEF AtPlace
    <3> QED BY <1>2, <3>3
  <2>2. Depth(bufferIn, Len(bufferIn)) = 0
    BY <1>1 DEF IInv, Counts, Counted, Working
  <2>3. Depth(response, Len(bufferIn)) = 0
    BY <1>2, <2>1, <2>2, DepthSame
  <2>4. Len(bufferIn) = Len(response)
    BY <1>2, <2>1, <2>3 DEF Balanced
  <2> QED BY <1>2, <2>1, <2>4, SeqEqual
<1> QED BY <1>3, <1>4, <1>5 DEF IInv

-----------------------------------------------------------------------------
LEMMA StepInv == IInv /\ [Next]_vars => IInv'
<1> SUFFICES ASSUME IInv, [Next]_vars PROVE IInv'
  OBVIOUS
<1>1. CASE UNCHANGED vars
  <2>1. UNCHANGED <<pc, op, bufferIn, jsonDepth, cur, printed, reported, signalled, response,
                    unsent, arriving, peer>>
    BY <1>1 DEF vars, client, scan, net
  <2>2. Sequences' /\ Stream' /\ Counts'
    BY <2>1 DEF IInv, Sequences, Stream, Counts, Counted, Working, AtPlace
  <2>3. Unprinted' /\ PrintsTheResponse' /\ NothingEndsSilently'
    BY <2>1 DEF IInv, Unprinted, PrintsTheResponse, NothingEndsSilently
  <2> QED BY <2>2, <2>3 DEF IInv
<1>2. CASE ClientStep
  BY <1>2, MainStep, TooLongStep, TakeStep, ScanByteStep, PrintedStep DEF ClientStep, OnRead
<1> QED BY <1>1, <1>2, AnswerStep, SendStep, OutsideStep DEF Next

(* What the invariant says of the client holds after any of its steps.     *)
THEOREM Inductive == Spec => []IInv
BY InitInv, StepInv, PTL DEF Spec

(* Whatever the server does, the client prints a response, says what went  *)
(* wrong, or was stopped by a signal (run(), onRead(), onWrite()).         *)
THEOREM EndsAreExplained == Spec => []NothingEndsSilently
<1>1. IInv => NothingEndsSilently
  BY DEF IInv
<1> QED BY <1>1, Inductive, PTL

(* In whatever pieces a response without braces in its strings comes, it   *)
(* is printed as a whole (client.cxx:180-255).                             *)
THEOREM ResponsesArePrinted == Spec => []PrintsTheResponse
<1>1. IInv => PrintsTheResponse
  BY DEF IInv
<1> QED BY <1>1, Inductive, PTL
=============================================================================
