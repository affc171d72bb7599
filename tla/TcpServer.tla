----------------------------- MODULE TcpServer -----------------------------
(***************************************************************************)
(* TcpServer while it runs: the accept loop with its retry timer, and for  *)
(* each session the outstanding read into one half of a double buffer, the *)
(* processing of the other half and the writes of the responses.  One I/O  *)
(* thread runs the handlers; clients connect, send, receive and hang up at *)
(* any time.  The shutdown of the server is modelled in ServerMain.        *)
(*                                                                         *)
(* The handlers of a session refer to it by a raw pointer.  When one runs  *)
(* after the session was destroyed, it crashes or finds a closed socket    *)
(* and nothing to remove.                                                  *)
(***************************************************************************)
EXTENDS Integers, Sequences, FiniteSets

CONSTANTS
  Ids,          \* session ids, one for each connection ever made
  Size,         \* the parts of the response to each chunk; none when the
                \* chunk does not complete a request
  Room,         \* the parts that the operating system takes from a write
                \* and has not delivered yet
  Attempt,      \* the parts that async_write() asks it to take at a time
  MaxChunks,    \* bounds the chunks a client sends (model checking only)
  MaxFailures   \* bounds the accepts that fail (a fault that passes)

ASSUME ServerAssumption ==
  /\ Ids \cap {-1, 0} = {}
  /\ MaxChunks \in Nat /\ MaxFailures \in Nat
  /\ Size \in [Ids -> [1..MaxChunks -> Nat]]
  /\ Room \in Nat \ {0} /\ Attempt \in Nat \ {0}

VARIABLES
  up,        \* clients that are connected
  queued,    \* connections not accepted yet
  sent,      \* the number of chunks each client has sent
  kernel,    \* the chunks in each socket, not read yet
  accepting, \* "pending": an accept is outstanding; "retry": the timer is
  failures,  \* the number of accepts that failed
  sessions,  \* m_sessions
  started,   \* the sessions whose handler was constructed
  read,      \* the read of each session: "none", "pending", "done" or "error"
  slots,     \* the two halves of each ReadBuffer
  active,    \* ReadBuffer::m_active: the half that is read into
  got,       \* the chunks given to each session handler
  left,      \* for each chunk of each session, the parts of its response
             \* that are not taken yet, while the write is outstanding
  wire,      \* the parts taken from the writes of each session
  received,  \* the number of them that each client has received
  patient,   \* history: the clients that waited for their responses
  io         \* the I/O thread: 0 between handlers, the id of the session
             \* whose chunk it processes, or -1 after a crash

clientVars == <<up, queued, sent>>
acceptVars == <<accepting, failures>>
sessionVars == <<sessions, started>>
readVars == <<kernel, read, slots, active>>
writeVars == <<left, wire>>
peerVars == <<received, patient>>
vars == <<clientVars, acceptVars, sessionVars, readVars, got, writeVars, peerVars, io>>

NoWrite == -1
Outstanding(s) == {k \in 1..MaxChunks : left[s][k] # NoWrite}

Idle == io = 0
Crash == io' = -1

Init ==
  /\ up = {} /\ queued = {}
  /\ sent = [s \in Ids |-> 0]
  /\ kernel = [s \in Ids |-> << >>]
  /\ accepting = "pending" /\ failures = 0
  /\ sessions = {} /\ started = {}
  /\ read = [s \in Ids |-> "none"]
  /\ slots = [s \in Ids |-> [i \in 0..1 |-> 0]]
  /\ active = [s \in Ids |-> 0]
  /\ got = [s \in Ids |-> << >>]
  /\ left = [s \in Ids |-> [k \in 1..MaxChunks |-> NoWrite]]
  /\ wire = [s \in Ids |-> << >>]
  /\ received = [s \in Ids |-> 0]
  /\ patient = Ids
  /\ io = 0

-----------------------------------------------------------------------------
(* The clients.                                                            *)
New(s) == s \notin up \cup queued \cup sessions \cup started /\ sent[s] = 0

Connect(s) ==
  /\ New(s)
  /\ up' = up \cup {s} /\ queued' = queued \cup {s}
  /\ UNCHANGED <<sent, acceptVars, sessionVars, readVars, got, writeVars, peerVars, io>>

(* The parts of the response to a chunk that have been taken.              *)
Taken(s, k) == {i \in DOMAIN wire[s] : wire[s][i].chunk = k}

Answered(s, k) ==
  \A p \in 1..Size[s][k] : \E i \in Taken(s, k) : i <= received[s] /\ wire[s][i].part = p

(* A client is patient as long as it sends the next chunk only when it has *)
(* the responses to the chunks before.                                     *)
Send(s) ==
  /\ s \in up /\ sent[s] < MaxChunks
  /\ patient' = IF \A k \in 1..sent[s] : Answered(s, k) THEN patient ELSE patient \ {s}
  /\ sent' = [sent EXCEPT ![s] = @ + 1]
  /\ kernel' = [kernel EXCEPT ![s] = Append(@, sent[s] + 1)]
  /\ UNCHANGED <<up, queued, acceptVars, sessionVars, read, slots, active, got, writeVars,
                 received, io>>

Receive(s) ==
  /\ s \in up /\ received[s] < Len(wire[s])
  /\ received' = [received EXCEPT ![s] = @ + 1]
  /\ UNCHANGED <<clientVars, acceptVars, sessionVars, readVars, got, writeVars, patient, io>>

(* A client closes its connection, or resets it and what was not read is   *)
(* lost.                                                                   *)
Hangup(s) ==
  /\ s \in up
  /\ up' = up \ {s}
  /\ \E lost \in BOOLEAN : kernel' = [kernel EXCEPT ![s] = IF lost THEN << >> ELSE @]
  /\ UNCHANGED <<queued, sent, acceptVars, sessionVars, read, slots, active, got, writeVars,
                 peerVars, io>>

-----------------------------------------------------------------------------
(* onAccept(): another accept is started before the session is.            *)
AcceptFails ==
  /\ Idle /\ accepting = "pending" /\ failures < MaxFailures
  /\ failures' = failures + 1
  /\ accepting' = "retry"
  /\ UNCHANGED <<clientVars, sessionVars, readVars, got, writeVars, peerVars, io>>

(* Mutant: the timer's handler does not accept.                            *)
RetryIdle == Idle /\ accepting = "retry" /\ UNCHANGED vars

Retry ==
  /\ Idle /\ accepting = "retry"
  /\ accepting' = "pending"
  /\ UNCHANGED <<clientVars, failures, sessionVars, readVars, got, writeVars, peerVars, io>>

Accept(s) ==
  /\ Idle /\ accepting = "pending" /\ s \in queued
  /\ queued' = queued \ {s}
  /\ sessions' = sessions \cup {s}
  /\ started' = started \cup {s}
  /\ read' = [read EXCEPT ![s] = "pending"]
  /\ UNCHANGED <<up, sent, acceptVars, kernel, slots, active, got, writeVars, peerVars, io>>

(* start() fails when the client is gone already.  The id that is removed  *)
(* then is read from an empty optional: it may be that of any session, or  *)
(* of none.                                                                *)
StartFails(s) ==
  /\ Idle /\ accepting = "pending" /\ s \in queued \ up
  /\ queued' = queued \ {s}
  /\ \E id \in Ids \cup {0} : sessions' = (sessions \cup {s}) \ {id}
  /\ UNCHANGED <<up, sent, acceptVars, started, readVars, got, writeVars, peerVars, io>>

-----------------------------------------------------------------------------
(* The operating system completes the outstanding read, at any time.       *)
ReadCompletes(s) ==
  /\ read[s] = "pending" /\ kernel[s] # << >>
  /\ slots' = [slots EXCEPT ![s][active[s]] = Head(kernel[s])]
  /\ kernel' = [kernel EXCEPT ![s] = Tail(@)]
  /\ read' = [read EXCEPT ![s] = "done"]
  /\ UNCHANGED <<clientVars, acceptVars, sessionVars, active, got, writeVars, peerVars, io>>

ReadFails(s) ==
  /\ read[s] = "pending" /\ kernel[s] = << >> /\ s \notin up
  /\ read' = [read EXCEPT ![s] = "error"]
  /\ UNCHANGED <<clientVars, acceptVars, sessionVars, kernel, slots, active, got, writeVars, peerVars, io>>

(* Mutant: the halves are not swapped.                                     *)
OnReadUnswapped(s) ==
  /\ Idle /\ s \in sessions /\ read[s] = "done"
  /\ read' = [read EXCEPT ![s] = "pending"]
  /\ io' = s
  /\ UNCHANGED <<clientVars, acceptVars, sessionVars, kernel, slots, active, got, writeVars, peerVars>>

(* Mutant: no other read is started.                                       *)
OnReadOnce(s) ==
  /\ Idle /\ s \in sessions /\ read[s] = "done"
  /\ active' = [active EXCEPT ![s] = 1 - @]
  /\ read' = [read EXCEPT ![s] = "none"]
  /\ io' = s
  /\ UNCHANGED <<clientVars, acceptVars, sessionVars, kernel, slots, got, writeVars, peerVars>>

(* onRead(): the halves are swapped and the next read is started before    *)
(* the chunk is processed.                                                 *)
OnRead(s) ==
  /\ Idle /\ s \in sessions /\ read[s] = "done"
  /\ active' = [active EXCEPT ![s] = 1 - @]
  /\ read' = [read EXCEPT ![s] = "pending"]
  /\ io' = s
  /\ UNCHANGED <<clientVars, acceptVars, sessionVars, kernel, slots, got, writeVars, peerVars>>

(* close() and removeSession(); close() is noexcept and crashes when the   *)
(* client has reset the connection.                                        *)
CloseAndRemove(s) ==
  \/ sessions' = sessions \ {s} /\ io' = 0
  \/ s \notin up /\ Crash /\ UNCHANGED sessions

(* Mutant: a session whose read failed is closed and not removed.          *)
OnReadErrorKept(s) ==
  /\ Idle /\ s \in sessions /\ read[s] = "error"
  /\ read' = [read EXCEPT ![s] = "none"]
  /\ UNCHANGED <<clientVars, acceptVars, sessionVars, kernel, slots, active, got, writeVars, peerVars, io>>

OnReadError(s) ==
  /\ Idle /\ s \in sessions /\ read[s] = "error"
  /\ read' = [read EXCEPT ![s] = "none"]
  /\ CloseAndRemove(s)
  /\ UNCHANGED <<clientVars, acceptVars, started, kernel, slots, active, got, writeVars, peerVars>>

(* The half the session handler is given.                                  *)
Chunk(s) == slots[s][1 - active[s]]

(* How many of n parts one attempt to write transfers: it asks for so many *)
(* at most, and the operating system takes what the socket has room for.   *)
Fitting(s, n) ==
  LET asked == IF n <= Attempt THEN n ELSE Attempt
      room == Room - (Len(wire[s]) - received[s])
  IN  IF asked <= room THEN asked ELSE room

(* Some parts of the response to chunk k, from its buffer as it was or     *)
(* after it was freed.                                                     *)
Parts(s, k, first, n, intact) ==
  [i \in 1..n |-> [chunk |-> k, part |-> first + i - 1, intact |-> intact]]

(* write(): the first attempt is made at once, and transfers nothing if the*)
(* client is gone or an earlier write waits for room.  The buffer of the   *)
(* response is freed when write() returns.                                 *)
WriteAtOnce(s, k, intact) ==
  \E n \in {0, Fitting(s, Size[s][k])} :
    /\ n = 0 => \/ Fitting(s, Size[s][k]) = 0 \/ s \notin up
                \/ \E j \in Outstanding(s) : left[s][j] > 0
    /\ wire' = [wire EXCEPT ![s] = @ \o Parts(s, k, 1, n, intact)]
    /\ left' = [left EXCEPT ![s][k] = Size[s][k] - n]

(* Mutant: the response is in a temporary that is gone before the write.   *)
ProcessWithTemporary(s) ==
  /\ io = s
  /\ got' = [got EXCEPT ![s] = Append(@, Chunk(s))]
  /\ WriteAtOnce(s, Chunk(s), FALSE)
  /\ io' = 0
  /\ UNCHANGED <<clientVars, acceptVars, sessionVars, readVars, peerVars>>

(* The session handler takes the chunk, and its response, empty or not, is *)
(* written.                                                                *)
Process(s) ==
  /\ io = s
  /\ got' = [got EXCEPT ![s] = Append(@, Chunk(s))]
  /\ WriteAtOnce(s, Chunk(s), TRUE)
  /\ io' = 0
  /\ UNCHANGED <<clientVars, acceptVars, sessionVars, readVars, peerVars>>

ProcessAborts(s) ==
  /\ io = s
  /\ got' = [got EXCEPT ![s] = Append(@, Chunk(s))]
  /\ CloseAndRemove(s)
  /\ UNCHANGED <<clientVars, acceptVars, started, readVars, writeVars, peerVars>>

(* The next attempt of one of the outstanding writes, in any order, when   *)
(* there is room.                                                          *)
WriteMore(s, k) ==
  /\ Idle /\ s \in sessions \cap up /\ k \in Outstanding(s)
  /\ LET n == Fitting(s, left[s][k])
     IN  /\ n > 0
         /\ wire' = [wire EXCEPT ![s] =
                       @ \o Parts(s, k, Size[s][k] - left[s][k] + 1, n, FALSE)]
         /\ left' = [left EXCEPT ![s][k] = @ - n]
  /\ UNCHANGED <<clientVars, acceptVars, sessionVars, readVars, got, peerVars, io>>

(* Mutant: async_write_some() in the place of async_write().               *)
OnWriteSome(s, k) ==
  /\ Idle /\ s \in sessions /\ k \in Outstanding(s)
  /\ left' = [left EXCEPT ![s][k] = NoWrite]
  /\ UNCHANGED <<clientVars, acceptVars, sessionVars, readVars, got, wire, peerVars, io>>

(* onWrite(): all was taken, or the write failed: the client is gone, or   *)
(* the freed buffer is not there to be read.                               *)
OnWrite(s, k) ==
  /\ Idle /\ s \in sessions /\ k \in Outstanding(s)
  /\ left' = [left EXCEPT ![s][k] = NoWrite]
  /\ \/ (left[s][k] = 0 \/ s \notin up) /\ UNCHANGED <<sessions, io>>
     \/ left[s][k] > 0 /\ CloseAndRemove(s)
  /\ UNCHANGED <<clientVars, acceptVars, started, readVars, got, wire, peerVars>>

(* A handler of a destroyed session runs.                                  *)
OrphanRead(s) ==
  /\ Idle /\ s \in started \ sessions /\ read[s] # "none"
  /\ read' = [read EXCEPT ![s] = "none"]
  /\ io' = 0 \/ Crash
  /\ UNCHANGED <<clientVars, acceptVars, sessionVars, kernel, slots, active, got, writeVars,
                 peerVars>>

OrphanWrite(s, k) ==
  /\ Idle /\ s \in started \ sessions /\ k \in Outstanding(s)
  /\ left' = [left EXCEPT ![s][k] = NoWrite]
  /\ io' = 0 \/ Crash
  /\ UNCHANGED <<clientVars, acceptVars, sessionVars, readVars, got, wire, peerVars>>

-----------------------------------------------------------------------------
SocketStep(s) == ReadCompletes(s) \/ ReadFails(s)
ReadStep(s) == OnRead(s) \/ OnReadError(s) \/ Process(s) \/ ProcessAborts(s)

Next ==
  \/ \E s \in Ids : Connect(s) \/ Send(s) \/ Receive(s) \/ Hangup(s)
  \/ AcceptFails \/ Retry
  \/ \E s \in Ids : Accept(s) \/ StartFails(s)
  \/ \E s \in Ids : SocketStep(s) \/ ReadStep(s) \/ OrphanRead(s)
  \/ \E s \in Ids, k \in 1..MaxChunks : WriteMore(s, k) \/ OnWrite(s, k) \/ OrphanWrite(s, k)

(* The operating system reports what a socket has received, and the I/O    *)
(* thread runs the handlers that are ready.  Clients need not send, hang   *)
(* up or read what is written to them.                                     *)
Fairness ==
  /\ WF_vars(Retry)
  /\ \A s \in Ids :
       /\ WF_vars(Accept(s) \/ StartFails(s))
       /\ WF_vars(SocketStep(s)) /\ WF_vars(ReadStep(s))
       /\ \A k \in 1..MaxChunks : WF_vars(WriteMore(s, k))

Spec == Init /\ [][Next]_vars /\ Fairness

-----------------------------------------------------------------------------
SessionsOK ==
  /\ up \subseteq Ids /\ queued \subseteq Ids
  /\ sent \in [Ids -> 0..MaxChunks]
  /\ kernel \in [Ids -> Seq(1..MaxChunks)] /\ got \in [Ids -> Seq(1..MaxChunks)]
  /\ accepting \in {"pending", "retry"} /\ failures \in 0..MaxFailures
  /\ sessions \subseteq Ids /\ started \subseteq Ids
  /\ read \in [Ids -> {"none", "pending", "done", "error"}]
  /\ slots \in [Ids -> [0..1 -> 0..MaxChunks]] /\ active \in [Ids -> 0..1]
  /\ io \in {-1, 0} \cup Ids
  /\ io \in Ids => io \in sessions /\ read[io] # "none"

Part == [chunk : 1..MaxChunks, part : Nat, intact : BOOLEAN]
WritesOK ==
  /\ left \in [Ids -> [1..MaxChunks -> Nat \cup {NoWrite}]]
  /\ wire \in [Ids -> Seq(Part)]
  /\ received \in [Ids -> Nat] /\ patient \subseteq Ids

(* The state is well formed; a chunk is processed only for a session that  *)
(* has not been removed, and whose next read has been started.             *)
TypeOK == SessionsOK /\ WritesOK

(* The chunks a session has read but not processed, in order.              *)
InHand(s) ==
  (IF io = s THEN <<Chunk(s)>> ELSE << >>)
    \o (IF read[s] = "done" THEN <<slots[s][active[s]]>> ELSE << >>)

Stream(s) == got[s] \o InHand(s) \o kernel[s]
InOrder(chunks) == \A i \in DOMAIN chunks : chunks[i] = i

(* No chunk is repeated or overtaken on the way from the client to the     *)
(* session handler, and none is lost while both are there, although the    *)
(* next one may be read while one is being processed                       *)
(* (tcpserver.hxx:189-255, readbuffer.hxx:35-37).                          *)
StreamIsIntact ==
  \A s \in Ids :
    /\ InOrder(got[s])
    /\ s \in sessions \cup queued => InOrder(Stream(s))
    /\ s \in up \cap (sessions \cup queued) => Len(Stream(s)) = sent[s]

(* The responses of a patient client come one after the other and whole,   *)
(* however its socket fills up, and what is left when no write is          *)
(* outstanding is nothing (tcpserver.hxx:257-296).                         *)
Precedes(a, b) == a.chunk < b.chunk \/ (a.chunk = b.chunk /\ a.part < b.part)
Whole(s, k) == \A p \in 1..Size[s][k] : \E i \in Taken(s, k) : wire[s][i].part = p

ResponsesComeWhole ==
  \A s \in patient :
    /\ \A i, j \in DOMAIN wire[s] : i < j => Precedes(wire[s][i], wire[s][j])
    /\ \A i \in DOMAIN wire[s] : \A k \in 1..(wire[s][i].chunk - 1) : Whole(s, k)
    /\ Outstanding(s) = {} /\ s \in sessions \cap up /\ io # -1
         => \A i \in DOMAIN got[s] : Whole(s, got[s][i])

(* A response that fits both into the socket and into one attempt to write *)
(* reaches a patient client as it was written, although its buffer is freed*)
(* when write() returns (tcpserver.hxx:259-271).  What the first attempt   *)
(* leaves of a larger one is read from freed memory, room or not.          *)
Fits(n) == n <= Room /\ n <= Attempt

FittingResponsesAreIntact ==
  \A s \in patient : \A i \in DOMAIN wire[s] :
    Fits(Size[s][wire[s][i].chunk]) => wire[s][i].intact

(* Every client is accepted in the end, whatever accepts have failed       *)
(* (tcpserver.hxx:329-354).                                                *)
ClientsAreAccepted == \A s \in Ids : s \in queued ~> s \notin queued \/ io = -1

(* The session of a client that is gone is removed (tcpserver.hxx:222-230).*)
HangupIsNoticed ==
  \A s \in Ids : s \in started \ up ~> s \notin sessions \/ io = -1

(* A client that goes on reading receives its responses, for as long as    *)
(* the server keeps its session (tcpserver.hxx:257-279).                   *)
Due(s) == \E i \in DOMAIN got[s] : ~Whole(s, got[s][i])
Reads(s) == received[s] = Len(wire[s])
ResponsesArrive ==
  \A s \in Ids : []<>Reads(s) => (Due(s) ~> ~Due(s) \/ s \notin sessions \cap up \/ io = -1)
=============================================================================
