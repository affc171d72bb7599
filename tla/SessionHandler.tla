--------------------------- MODULE SessionHandler ---------------------------
(***************************************************************************)
(* SessionHandler::process(): the chunks of bytes read from one connection *)
(* are appended to m_buffer, the braces of the new bytes are counted, and  *)
(* when a chunk ends at depth 0 the whole buffer goes to the request       *)
(* processor, which parses it in place.                                    *)
(*                                                                         *)
(* One action is one turn of the scan loop or one straight-line part of    *)
(* process().  Offsets into the content stand for the code's pointers.     *)
(* A call that crashes is a behaviour that stops.                          *)
(***************************************************************************)
EXTENDS ContinuousBufferOps, FiniteSets

CONSTANTS
  Open, Close, \* '{' and '}'
  Text,        \* the other bytes a client sends
  Junk,        \* what parsing in place leaves in the parsed bytes
  MaxChunk     \* bounds the size of one read (model checking only)

ASSUME HandlerAssumption ==
  /\ {Open, Close, Junk} \cup Text \subseteq Bytes
  /\ Open # Close /\ Junk # Nul
  /\ {Open, Close} \cap {Junk, Nul} = {}
  /\ Text \cap {Open, Close, Junk, Nul} = {}
  /\ MaxChunk \in Nat

VARIABLES
  buffer,       \* m_buffer
  jsonDepth,    \* m_jsonDepth
  jsonDepthMax, \* m_jsonDepthMax
  pc,           \* "idle" between two calls, "scan" or "dispatch" inside one
  posPrev,      \* local: the length of the content before the chunk
  cur,          \* local: the bytes scanned
  posCur,       \* local: the length of the content with the chunk
  request,      \* the last request given to the request processor
  verdict       \* the last result: "more" or "request" (Continue), "abort"

vars == <<buffer, jsonDepth, jsonDepthMax, pc, posPrev, cur, posCur, request, verdict>>
locals == <<posPrev, cur, posCur>>

Chunk == UNION {[1..n -> {Open, Close} \cup Text] : n \in 0..MaxChunk}

Init ==
  /\ buffer = New(Size)
  /\ jsonDepth = 0
  /\ jsonDepthMax = 0
  /\ pc = "idle"
  /\ posPrev = 0 /\ cur = 0 /\ posCur = 0
  /\ request = << >>
  /\ verdict = "more"

(* Mutant: the depth of a refused stream is kept for the next one.         *)
AbortKeepingDepth(b) ==
  /\ buffer' = AfterReset(b)
  /\ pc' = "idle"
  /\ verdict' = "abort"
  /\ UNCHANGED <<jsonDepth, jsonDepthMax, locals, request>>

(* The catch block, from whatever state the buffer is in.                  *)
Abort(b) ==
  /\ buffer' = AfterReset(b)
  /\ jsonDepth' = 0
  /\ jsonDepthMax' = 0
  /\ pc' = "idle"
  /\ verdict' = "abort"
  /\ UNCHANGED <<locals, request>>

TooLong(data) ==
  /\ pc = "idle"
  /\ ~Pushable(buffer, Len(data))
  /\ Abort(AfterPush(buffer, data))

NothingNew(data) ==
  /\ pc = "idle"
  /\ Len(data) = 0
  /\ buffer' = AfterPush(buffer, data)
  /\ verdict' = "more"
  /\ UNCHANGED <<jsonDepth, jsonDepthMax, pc, locals, request>>

Receive(data) ==
  /\ pc = "idle"
  /\ Len(data) > 0
  /\ Pushable(buffer, Len(data))
  /\ buffer' = AfterPush(buffer, data)
  /\ posPrev' = buffer.used
  /\ cur' = buffer.used
  /\ posCur' = buffer.used + Len(data)
  /\ pc' = "scan"
  /\ UNCHANGED <<jsonDepth, jsonDepthMax, request, verdict>>

-----------------------------------------------------------------------------
(* The byte the scan loop is at.                                           *)
Scanned == Contents(buffer)[cur + 1]

Scanning == pc = "scan" /\ cur < posCur

ScanOpen ==
  /\ Scanning /\ Scanned = Open
  /\ jsonDepth' = jsonDepth + 1
  /\ jsonDepthMax' = MaxOf(jsonDepthMax, jsonDepth + 1)
  /\ cur' = cur + 1
  /\ UNCHANGED <<buffer, pc, posPrev, posCur, request, verdict>>

ScanClose ==
  /\ Scanning /\ Scanned = Close
  /\ jsonDepth > 0
  /\ jsonDepth' = jsonDepth - 1
  /\ cur' = cur + 1
  /\ UNCHANGED <<buffer, jsonDepthMax, pc, posPrev, posCur, request, verdict>>

InvalidJson ==
  /\ Scanning /\ Scanned = Close
  /\ jsonDepth = 0
  /\ Abort(buffer)

ScanOther ==
  /\ Scanning /\ Scanned \notin {Open, Close}
  /\ cur' = cur + 1
  /\ UNCHANGED <<buffer, jsonDepth, jsonDepthMax, pc, posPrev, posCur, request, verdict>>

Partial ==
  /\ pc = "scan" /\ cur = posCur
  /\ jsonDepth > 0 \/ jsonDepthMax = 0
  /\ pc' = "idle"
  /\ verdict' = "more"
  /\ UNCHANGED <<buffer, jsonDepth, jsonDepthMax, locals, request>>

(* The result of this push() is not looked at.                             *)
Complete ==
  /\ pc = "scan" /\ cur = posCur
  /\ jsonDepth = 0 /\ jsonDepthMax > 0
  /\ buffer' = AfterPush(buffer, <<Nul>>)
  /\ pc' = "dispatch"
  /\ UNCHANGED <<jsonDepth, jsonDepthMax, locals, request, verdict>>

(* The request processor parses in place and overwrites the first n bytes. *)
Parsed(b, n) ==
  [b EXCEPT !.cells = [i \in 1..b.cap |->
                         IF i - b.start \in 1..n THEN Junk ELSE b.cells[i]]]

(* Mutant: the terminating '\0' stays behind the popped request.           *)
DispatchKeepingNul ==
  /\ pc = "dispatch"
  /\ request' = SubSeq(Contents(buffer), 1, posCur)
  /\ buffer' = AfterPop(Parsed(buffer, posCur), posCur)
  /\ jsonDepthMax' = 0
  /\ pc' = "idle"
  /\ verdict' = "request"
  /\ UNCHANGED <<jsonDepth, locals>>

Dispatch ==
  /\ pc = "dispatch"
  /\ request' = SubSeq(Contents(buffer), 1, posCur)
  /\ buffer' = AfterPop(Parsed(buffer, posCur), posCur + 1)
  /\ jsonDepthMax' = 0
  /\ pc' = "idle"
  /\ verdict' = "request"
  /\ UNCHANGED <<jsonDepth, locals>>

Next ==
  \/ \E data \in Chunk : TooLong(data) \/ NothingNew(data) \/ Receive(data)
  \/ ScanOpen \/ ScanClose \/ InvalidJson \/ ScanOther
  \/ Partial \/ Complete \/ Dispatch

Spec == Init /\ [][Next]_vars

-----------------------------------------------------------------------------
(* The offsets stay inside the content and the content inside the vector,  *)
(* whichever path process() leaves by (sessionhandler.cxx:38-98).          *)
TypeOK ==
  /\ WellFormed(buffer)
  /\ jsonDepth \in Nat /\ jsonDepthMax \in Nat
  /\ pc \in {"idle", "scan", "dispatch"}
  /\ posPrev \in Nat /\ cur \in Nat /\ posCur \in Nat
  /\ pc = "scan" => posPrev <= cur /\ cur <= posCur /\ posCur = buffer.used
  /\ pc = "dispatch" => posCur = cur /\ buffer.used \in {posCur, posCur + 1}
  /\ request \in Seq(Bytes)
  /\ verdict \in {"more", "request", "abort"}

(* The bytes up to the last cut, without the chunk being worked on.        *)
Committed ==
  IF pc = "idle" THEN Contents(buffer) ELSE SubSeq(Contents(buffer), 1, posPrev)

Framer == INSTANCE MessageFramer
            WITH Bound <- MaxOf(Size, Limit), pending <- Committed

(* The bytes of the content that have been counted.                        *)
Counted == IF pc = "idle" THEN buffer.used ELSE cur

(* The depth kept from call to call is that of the bytes counted, however  *)
(* they were cut into chunks, and the maximum tells whether a brace was    *)
(* opened since the last request (sessionhandler.cxx:52-79, 86-94).        *)
DepthMatchesContent ==
  /\ jsonDepth = Framer!Depth(Contents(buffer), Counted)
  /\ jsonDepthMax >= jsonDepth
  /\ jsonDepthMax > 0 <=> \E i \in 1..Counted : Contents(buffer)[i] = Open

(* A chunk is handled as the framer handles it: nothing of an earlier      *)
(* request, of the terminating '\0' or of what parsing left behind gets    *)
(* into a later request, and a stream is refused exactly when it is too    *)
(* long or closes what it never opened (sessionhandler.cxx:32-99).         *)
ImplementsFramer ==
  /\ Framer!Init
  /\ [][\E data \in Chunk : Framer!Receive(data)]_(Framer!vars)

(* "append '\0'" (sessionhandler.cxx:82): the request given to the request *)
(* processor, whose parser stops at '\0', is terminated.                   *)
RequestIsTerminated ==
  pc = "dispatch" =>
    /\ Len(Contents(buffer)) = posCur + 1
    /\ Contents(buffer)[posCur + 1] = Nul
=============================================================================
