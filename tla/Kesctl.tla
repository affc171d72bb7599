------------------------------- MODULE Kesctl -------------------------------
(***************************************************************************)
(* kesctl: main() connects a Client, sends one command and runs the I/O    *)
(* context until the response is printed or a signal comes.  The server    *)
(* answers in pieces, late or never, and may close or reset the connection *)
(* at any time.                                                            *)
(*                                                                         *)
(* The buffer is the queue of bytes that ContinuousBuffer implements.      *)
(***************************************************************************)
EXTENDS Integers, Sequences, FiniteSets

CONSTANTS
  Open, Close,  \* '{' and '}'
  Responses,    \* the responses a server may give, as sequences of bytes
  Endpoints,    \* how many addresses the name of the server has
  Limit         \* kBufferLimit

Byte == UNION {{r[i] : i \in DOMAIN r} : r \in Responses}

ASSUME KesctlAssumption ==
  /\ Responses \subseteq Seq(Byte) /\ Open # Close
  /\ Endpoints \in Nat /\ Limit \in Nat

VARIABLES
  pc,        \* where main() is
  tried,     \* the endpoints that refused
  op,        \* the operation of the client that is outstanding, or "scan"
  bufferIn, jsonDepth, jsonDepthMax,
  cur,       \* how much of the buffer has been scanned
  printed,   \* what went to the standard output
  reported,  \* did anything go to the standard error?
  signalled, \* has a signal been delivered?
  response,  \* the response of the server, or << >> before it has one
  unsent,    \* the part of it that the server has still to send
  arriving,  \* the part of it that the client has still to read
  peer       \* the server's end: "up", "closed" or "reset"

scan == <<bufferIn, jsonDepth, jsonDepthMax, cur>>
client == <<op, scan, printed, reported>>
net == <<response, unsent, arriving, peer>>
vars == <<pc, tried, client, signalled, net>>

Init ==
  /\ pc = "connect"
  /\ tried = 0
  /\ op = "none"
  /\ bufferIn = << >> /\ jsonDepth = 0 /\ jsonDepthMax = 0 /\ cur = 0
  /\ printed = << >> /\ reported = FALSE
  /\ signalled = FALSE
  /\ response = << >> /\ unsent = << >> /\ arriving = << >>
  /\ peer = "up"

-----------------------------------------------------------------------------
(* The server and the user.                                                *)

(* The request has been written: only then is there a response.            *)
Answer(r) ==
  /\ op = "read" /\ peer = "up" /\ response = << >>
  /\ response' = r /\ unsent' = r
  /\ UNCHANGED <<pc, tried, client, signalled, arriving, peer>>

SendPiece(n) ==
  /\ peer = "up" /\ n \in 1..Len(unsent)
  /\ arriving' = arriving \o SubSeq(unsent, 1, n)
  /\ unsent' = SubSeq(unsent, n + 1, Len(unsent))
  /\ UNCHANGED <<pc, tried, client, signalled, response, peer>>

HangUp ==
  /\ pc # "connect" /\ peer = "up"
  /\ \/ peer' = "closed" /\ arriving' = arriving
     \/ peer' = "reset" /\ arriving' = << >>
  /\ UNCHANGED <<pc, tried, client, signalled, response, unsent>>

Signal ==
  /\ ~signalled
  /\ signalled' = TRUE
  /\ UNCHANGED <<pc, tried, client, net>>

-----------------------------------------------------------------------------
(* checkConnection() and command().                                        *)
Connect ==
  /\ pc = "connect" /\ tried < Endpoints
  /\ pc' = "run"
  /\ op' = "write"
  /\ UNCHANGED <<tried, scan, printed, reported, signalled, net>>

Refused ==
  /\ pc = "connect" /\ tried < Endpoints
  /\ tried' = tried + 1
  /\ UNCHANGED <<pc, client, signalled, net>>

ConnectThrows ==
  /\ pc = "connect" /\ tried = Endpoints
  /\ reported' = TRUE
  /\ pc' = "failed"
  /\ UNCHANGED <<tried, op, scan, printed, signalled, net>>

(* The handler of the signals stops the client and the I/O context.        *)
OnSignal ==
  /\ pc = "run" /\ signalled /\ op # "scan"
  /\ pc' = "stopped"
  /\ UNCHANGED <<tried, client, signalled, net>>

OnWrite ==
  /\ pc = "run" /\ op = "write"
  /\ op' = "read"
  /\ UNCHANGED <<pc, tried, scan, printed, reported, signalled, net>>

(* Mutant: the end of the stream is no failure to speak of.                *)
OnErrorQuiet ==
  /\ pc = "run"
  /\ \/ op = "write" /\ peer = "reset"
     \/ op = "read" /\ peer # "up" /\ arriving = << >>
  /\ op' = "none"
  /\ reported' = (reported \/ peer # "closed")
  /\ UNCHANGED <<pc, tried, scan, printed, signalled, net>>

(* The failure is reported, and nothing else is started.                   *)
OnError ==
  /\ pc = "run"
  /\ \/ op = "write" /\ peer = "reset"
     \/ op = "read" /\ peer # "up" /\ arriving = << >>
  /\ op' = "none"
  /\ reported' = TRUE
  /\ UNCHANGED <<pc, tried, scan, printed, signalled, net>>

-----------------------------------------------------------------------------
(* onRead(): process() takes what one read returned.  What does not fit is *)
(* reported, and ends the program.                                         *)
Read(n) ==
  /\ pc = "run" /\ op = "read" /\ n \in 1..Len(arriving)
  /\ arriving' = SubSeq(arriving, n + 1, Len(arriving))
  /\ UNCHANGED <<tried, jsonDepth, jsonDepthMax, printed, signalled, response, unsent, peer>>

TooLong(n) ==
  /\ Read(n) /\ Len(bufferIn) + n > Limit
  /\ reported' = TRUE
  /\ op' = "none" /\ pc' = "stopped"
  /\ UNCHANGED <<bufferIn, cur>>

(* Mutant: every chunk begins a buffer.                                    *)
TakeAlone(n) ==
  /\ Read(n) /\ Len(bufferIn) + n <= Limit
  /\ bufferIn' = SubSeq(arriving, 1, n)
  /\ cur' = 0
  /\ op' = "scan"
  /\ UNCHANGED <<pc, reported>>

Take(n) ==
  /\ Read(n) /\ Len(bufferIn) + n <= Limit
  /\ bufferIn' = bufferIn \o SubSeq(arriving, 1, n)
  /\ cur' = Len(bufferIn)
  /\ op' = "scan"
  /\ UNCHANGED <<pc, reported>>

(* The loop of process(), from the depths kept so far.                     *)
Scanning == pc = "run" /\ op = "scan" /\ cur < Len(bufferIn)

(* What closes more than was opened is reported, and ends the program.     *)
ScanThrows ==
  /\ Scanning /\ bufferIn[cur + 1] = Close /\ jsonDepth = 0
  /\ reported' = TRUE
  /\ op' = "none" /\ pc' = "stopped"
  /\ UNCHANGED <<tried, scan, printed, signalled, net>>

ScanByte ==
  /\ Scanning
  /\ LET byte == bufferIn[cur + 1]
     IN  /\ byte = Close => jsonDepth > 0
         /\ jsonDepth' = CASE byte = Open -> jsonDepth + 1
                           [] byte = Close -> jsonDepth - 1
                           [] OTHER -> jsonDepth
  /\ jsonDepthMax' = IF jsonDepth' > jsonDepthMax THEN jsonDepth' ELSE jsonDepthMax
  /\ cur' = cur + 1
  /\ UNCHANGED <<pc, tried, op, bufferIn, printed, reported, signalled, net>>

Scanned == pc = "run" /\ op = "scan" /\ cur = Len(bufferIn)

(* More is needed at a depth, and when no brace has been seen.             *)
ReadMore ==
  /\ Scanned /\ (jsonDepth > 0 \/ jsonDepthMax = 0)
  /\ op' = "read"
  /\ UNCHANGED <<pc, tried, scan, printed, reported, signalled, net>>

(* Mutant: process() asks for more after the response, too.                *)
PrintedAndWaiting ==
  /\ Scanned /\ jsonDepth = 0 /\ jsonDepthMax > 0
  /\ printed' = bufferIn
  /\ bufferIn' = << >> /\ jsonDepthMax' = 0
  /\ op' = "read"
  /\ UNCHANGED <<pc, tried, jsonDepth, cur, reported, signalled, net>>

Printed ==
  /\ Scanned /\ jsonDepth = 0 /\ jsonDepthMax > 0
  /\ printed' = bufferIn
  /\ bufferIn' = << >> /\ jsonDepthMax' = 0
  /\ op' = "none" /\ pc' = "stopped"
  /\ UNCHANGED <<tried, jsonDepth, cur, reported, signalled, net>>

OnRead ==
  \/ \E n \in 1..Len(arriving) : TooLong(n) \/ Take(n)
  \/ ScanThrows \/ ScanByte \/ ReadMore \/ Printed

(* run() has returned: ~Client() shuts the connection down, and the        *)
(* overload it uses throws, out of a destructor, when it is reset.         *)
End ==
  /\ pc = "stopped"
  /\ pc' = IF peer = "reset" THEN "terminated" ELSE "ended"
  /\ UNCHANGED <<tried, client, signalled, net>>

ClientStep == Connect \/ Refused \/ ConnectThrows \/ OnSignal \/ OnWrite \/ OnError \/ OnRead \/ End

Next ==
  \/ \E r \in Responses : Answer(r)
  \/ \E n \in 1..Len(unsent) : SendPiece(n)
  \/ HangUp \/ Signal
  \/ ClientStep

Spec == Init /\ [][Next]_vars /\ WF_vars(ClientStep)

-----------------------------------------------------------------------------
(* The braces of a response balance at its end and nowhere before.         *)
Count(byte, s, n) == Cardinality({i \in 1..n : s[i] = byte})
Depth(s, n) == Count(Open, s, n) - Count(Close, s, n)

Balanced(s) ==
  /\ s # << >> /\ s[1] = Open
  /\ \A n \in 1..Len(s) : Depth(s, n) > 0 <=> n < Len(s)

(* However a response is cut into pieces, the client prints it as a whole, *)
(* provided its strings hold no braces, which are counted like the others  *)
(* (client.cxx:198-230).                                                   *)
PrintsTheResponse ==
  printed # << >> /\ Balanced(response) => printed = response

(* While the I/O context runs, the client waits for something, or has told *)
(* the user why it does not; and it ends without a response only if it has *)
(* told why or was stopped by a signal (client.cxx:116-182).               *)
NothingEndsSilently ==
  /\ pc = "run" /\ op = "none" => reported
  /\ pc \in {"stopped", "ended", "failed", "terminated"} /\ printed = << >> =>
       reported \/ signalled

(* A response that has arrived as a whole ends the program, unless the     *)
(* connection is reset before it is read (client.cxx:165-182).             *)
Arrived == Balanced(response) /\ unsent = << >> /\ peer # "reset"

AnswerEndsTheCommand == Arrived ~> pc \in {"ended", "terminated"} \/ peer = "reset"

=============================================================================
