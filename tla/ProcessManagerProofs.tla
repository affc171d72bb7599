------------------------ MODULE ProcessManagerProofs ------------------------
(***************************************************************************)
(* Proofs about ProcessManager, for any pids, sessions and bounds: its     *)
(* types, that clients stay in step with their sessions, that what was     *)
(* found is never reported deleted, and that newcomers are marked as such. *)
(***************************************************************************)
EXTENDS ProcessManager, TLAPS

(* The request works on the session of cmd, and has not crashed.           *)
InRequest == pc \in {"enumerate", "read", "sweep", "respond"}

ViewOfRequest == view[cmd.session]

(* What is deleted is not held, and what the client knows is one of both.  *)
Partition ==
  InRequest =>
    /\ Session.removedPids \cap DOMAIN Processes = {}
    /\ pc \in {"enumerate", "read"} => Session.removedPids = {}
    /\ ~cmd.initial => ViewOfRequest \subseteq DOMAIN Processes \cup Session.removedPids

(* Before a pid is read, the session holds it if the client knows it.      *)
Unread ==
  ~cmd.initial =>
    /\ pc = "enumerate" => DOMAIN Processes = ViewOfRequest
    /\ pc = "read" => \A p \in pids : p \in DOMAIN Processes <=> p \in ViewOfRequest

(* Once it has been read, it is up to date, and marked if it is unknown.   *)
UpToDate(p) ==
  /\ p \in DOMAIN Processes
  /\ Processes[p].timestamp = Session.timestamp
  /\ Processes[p].newcomer <=> p \notin ViewOfRequest

WereRead ==
  ~cmd.initial =>
    /\ pc = "read" => \A p \in enumerated \ pids : UpToDate(p)
    /\ pc \in {"sweep", "respond"} =>
         \A p \in enumerated : UpToDate(p) /\ p \notin Session.removedPids

SweepsDiffs == pc = "sweep" => ~cmd.initial

(* Every process held was found or was known, and every one deleted was    *)
(* known; a list has what was found and no newcomer.                       *)
Accounted ==
  InRequest =>
    /\ pids \subseteq enumerated
    /\ pc # "read" => pids = {}
    /\ pc = "enumerate" => enumerated = {}
    /\ cmd.initial => /\ DOMAIN Processes = enumerated \ pids
                      /\ \A p \in DOMAIN Processes : ~Processes[p].newcomer
    /\ ~cmd.initial => /\ DOMAIN Processes \subseteq ViewOfRequest \cup enumerated
                       /\ Session.removedPids \subseteq ViewOfRequest
    /\ response = NoResponse

NotReading == pc = "idle" => pids = {}

IInv ==
  /\ TypeOK /\ Partition /\ Unread /\ WereRead /\ SweepsDiffs /\ Accounted /\ NotReading
  /\ ClientIsInSync /\ DeletedWereNotFound

-----------------------------------------------------------------------------
(* A session with other processes is a session.                            *)
LEMMA WithProcesses ==
  ASSUME NEW s, SessionOK(s),
         NEW f, f \in [DOMAIN f -> Info], DOMAIN f \subseteq Pids
  PROVE  LET r == [s EXCEPT !.processes = f]
         IN  /\ SessionOK(r) /\ r.timestamp = s.timestamp
             /\ r.processes = f /\ r.removedPids = s.removedPids
BY DEF SessionOK

(* SetSession replaces one session by another and leaves the others alone. *)
LEMMA SetOne ==
  ASSUME TypeOK, NEW s \in DOMAIN sessions, NEW r, SessionOK(r), SetSession(s, r)
  PROVE  /\ DOMAIN sessions' = DOMAIN sessions
         /\ sessions'[s] = r
         /\ \A t \in DOMAIN sessions : t # s => sessions'[t] = sessions[t]
         /\ \A t \in DOMAIN sessions' : SessionOK(sessions'[t])
BY DEF TypeOK, SetSession

-----------------------------------------------------------------------------
LEMMA InitInv == Init => IInv
<1> SUFFICES ASSUME Init PROVE IInv
  OBVIOUS
<1>1. TypeOK
  BY DEF Init, TypeOK
<1>2. ClientIsInSync
  BY DEF Init, ClientIsInSync
<1>3. DeletedWereNotFound
  BY DEF Init, DeletedWereNotFound
<1>4. Partition /\ Unread /\ WereRead /\ SweepsDiffs /\ Accounted /\ NotReading
  BY DEF Init, Partition, Unread, WereRead, SweepsDiffs, Accounted, InRequest, NotReading
<1> QED BY <1>1, <1>2, <1>3, <1>4 DEF IInv

(* What processes do on their own is not noticed until they are read.      *)
LEMMA OsStep ==
  ASSUME IInv, NEW p \in Pids, Spawn(p) \/ Exit(p)
  PROVE  IInv'
<1>1. running' \subseteq Pids
  BY DEF IInv, TypeOK, Spawn, Exit
<1>2. UNCHANGED <<sessions, pc, cmd, pids, unswept, response, enumerated, view>>
  BY DEF Spawn, Exit
<1> QED
  BY <1>1, <1>2
     DEF IInv, TypeOK, Partition, Unread, WereRead, SweepsDiffs, Accounted, NotReading,
         ClientIsInSync, DeletedWereNotFound, InRequest, UpToDate, ViewOfRequest, Quiet, Session, Processes

LEMMA SessionStep ==
  ASSUME IInv, NEW s \in SessionIds, StartSession(s) \/ EndSession(s)
  PROVE  IInv'
<1>1. CASE StartSession(s)
  <2>1. SessionOK(NewSession) /\ DOMAIN NewSession.processes = {}
    BY ManagerAssumption DEF NewSession, NoProcesses, SessionOK, Info, Time
  <2>2. TypeOK'
    BY <1>1, <2>1 DEF StartSession, IInv, TypeOK
  <2>3. ClientIsInSync'
    BY <1>1, <2>1 DEF StartSession, IInv, TypeOK, ClientIsInSync, Quiet
  <2> QED
    BY <1>1, <2>2, <2>3
       DEF StartSession, IInv, Partition, Unread, WereRead, SweepsDiffs,
           Accounted, NotReading, DeletedWereNotFound, InRequest
<1>2. CASE EndSession(s)
  <2>1. TypeOK'
    BY <1>2 DEF EndSession, IInv, TypeOK, Restrict
  <2>2. ClientIsInSync'
    BY <1>2 DEF EndSession, IInv, ClientIsInSync, Quiet, Restrict
  <2> QED
    BY <1>2, <2>1, <2>2
       DEF EndSession, IInv, Partition, Unread, WereRead, SweepsDiffs,
           Accounted, NotReading, DeletedWereNotFound, InRequest
<1> QED BY <1>1, <1>2

-----------------------------------------------------------------------------
(* The session of a request is one, and is not that of another client.     *)
LEMMA RequestHasSession ==
  ASSUME IInv, pc # "idle"
  PROVE  /\ cmd.session \in DOMAIN sessions /\ cmd.session \in SessionIds
         /\ SessionOK(Session)
         /\ Session.timestamp \in Time
         /\ Processes \in [DOMAIN Processes -> Info] /\ DOMAIN Processes \subseteq Pids
         /\ Session.removedPids \subseteq Pids
         /\ ViewOfRequest \subseteq Pids
BY DEF IInv, TypeOK, SessionOK, Session, Processes, ViewOfRequest

LEMMA BeginStep ==
  ASSUME IInv, NEW s \in SessionIds, NEW initial \in BOOLEAN, Begin(s, initial)
  PROVE  IInv'
<1> DEFINE r == [timestamp |-> (sessions[s].timestamp + 1) % TimeRange,
                 processes |-> IF initial THEN NoProcesses ELSE sessions[s].processes,
                 removedPids |-> {}]
<1>1. s \in DOMAIN sessions /\ SessionOK(sessions[s])
  BY DEF Begin, IInv, TypeOK
<1>2. SessionOK(r)
  <2>1. r.timestamp \in Time
    BY <1>1, ManagerAssumption DEF SessionOK, Time
  <2>2. r.processes \in [DOMAIN r.processes -> Info] /\ DOMAIN r.processes \subseteq Pids
    BY <1>1 DEF SessionOK, NoProcesses, Info
  <2> QED BY <2>1, <2>2 DEF SessionOK
<1>3. /\ DOMAIN sessions' = DOMAIN sessions
      /\ sessions'[s] = r
      /\ \A t \in DOMAIN sessions : t # s => sessions'[t] = sessions[t]
      /\ \A t \in DOMAIN sessions' : SessionOK(sessions'[t])
  <2>1. SetSession(s, r)
    BY DEF Begin
  <2> HIDE DEF r
  <2> QED BY <1>1, <1>2, <2>1, SetOne DEF IInv
<1>4. /\ pc = "idle" /\ pc' = "enumerate"
      /\ cmd' = [session |-> s, initial |-> initial]
      /\ response' = NoResponse /\ enumerated' = {}
      /\ UNCHANGED <<running, pids, unswept, view>>
  BY DEF Begin
<1>5. Session' = r /\ Processes' = r.processes /\ ViewOfRequest' = view[s]
  BY <1>3, <1>4 DEF Session, Processes, ViewOfRequest
<1>6. view[s] = DOMAIN sessions[s].processes
  BY <1>1, <1>4 DEF IInv, ClientIsInSync, Quiet
<1>7. TypeOK'
  BY <1>1, <1>3, <1>4 DEF IInv, TypeOK
<1>8. ClientIsInSync'
  BY <1>3, <1>4 DEF IInv, ClientIsInSync, Quiet
<1>9. Partition' /\ Unread'
  BY <1>4, <1>5, <1>6 DEF Partition, Unread, InRequest
<1>10. WereRead' /\ SweepsDiffs' /\ NotReading' /\ DeletedWereNotFound'
  BY <1>4 DEF WereRead, SweepsDiffs, NotReading, DeletedWereNotFound
<1>11. Accounted'
  <2>1. pids' = {} /\ cmd'.initial = initial
    BY <1>4 DEF IInv, NotReading
  <2>2. initial => DOMAIN r.processes = {}
    BY DEF NoProcesses
  <2>3. ~initial => DOMAIN r.processes = view[s]
    BY <1>6
  <2> QED BY <1>4, <1>5, <2>1, <2>2, <2>3 DEF Accounted, InRequest
<1> QED BY <1>7, <1>8, <1>9, <1>10, <1>11 DEF IInv

LEMMA EnumerateStep ==
  ASSUME IInv, Enumerate
  PROVE  IInv'
<1>1. /\ pc = "enumerate" /\ pc' = "read"
      /\ pids' \subseteq Pids /\ enumerated' = pids'
      /\ UNCHANGED <<running, sessions, cmd, unswept, response, view>>
  BY DEF Enumerate, IInv, TypeOK
<1>2. /\ Session' = Session /\ Processes' = Processes
      /\ ViewOfRequest' = ViewOfRequest
  BY <1>1 DEF Session, Processes, ViewOfRequest
<1>3. TypeOK'
  BY <1>1 DEF IInv, TypeOK
<1>4. ClientIsInSync' /\ DeletedWereNotFound' /\ SweepsDiffs'
  BY <1>1 DEF IInv, ClientIsInSync, Quiet, DeletedWereNotFound, SweepsDiffs
<1>5. Partition' /\ Unread' /\ WereRead'
  BY <1>1, <1>2 DEF IInv, Partition, Unread, WereRead, InRequest
<1>6. Accounted' /\ NotReading'
  <2>1. cmd.initial => DOMAIN Processes = {}
    BY <1>1 DEF IInv, Accounted, InRequest
  <2>2. ~cmd.initial => /\ DOMAIN Processes \subseteq ViewOfRequest
                        /\ Session.removedPids \subseteq ViewOfRequest
    BY <1>1 DEF IInv, Unread, Accounted, InRequest
  <2>3. response = NoResponse
    BY <1>1 DEF IInv, Accounted, InRequest
  <2> QED BY <1>1, <1>2, <2>1, <2>2, <2>3 DEF Accounted, NotReading, InRequest
<1> QED BY <1>3, <1>4, <1>5, <1>6 DEF IInv

LEMMA ReadStep ==
  ASSUME IInv, NEW p \in Pids, Read(p)
  PROVE  IInv'
<1> DEFINE info == [timestamp |-> Session.timestamp,
                    newcomer |-> ~cmd.initial /\ p \notin DOMAIN Processes,
                    valid |-> p \in running]
           read == [q \in DOMAIN Processes \cup {p} |->
                      IF q = p THEN info ELSE Processes[q]]
           r == [Session EXCEPT !.processes = read]
<1>1. /\ pc = "read" /\ pc' = "read" /\ p \in pids /\ pids' = pids \ {p}
      /\ SetSession(cmd.session, r)
      /\ UNCHANGED <<running, cmd, unswept, response, enumerated, view>>
  BY DEF Read, Reading
<1>2. info \in Info
  BY <1>1, RequestHasSession DEF IInv, TypeOK, Info
<1>3. read \in [DOMAIN read -> Info] /\ DOMAIN read \subseteq Pids
  BY <1>1, <1>2, RequestHasSession
<1>4. /\ SessionOK(r) /\ r.timestamp = Session.timestamp
      /\ r.processes = read /\ r.removedPids = Session.removedPids
  <2> HIDE DEF read, info
  <2> QED BY <1>1, <1>3, RequestHasSession, WithProcesses
<1>5. /\ DOMAIN sessions' = DOMAIN sessions
      /\ sessions'[cmd.session] = r
      /\ \A t \in DOMAIN sessions : t # cmd.session => sessions'[t] = sessions[t]
      /\ \A t \in DOMAIN sessions' : SessionOK(sessions'[t])
  <2> HIDE DEF r
  <2> QED BY <1>1, <1>4, RequestHasSession, SetOne DEF IInv
<1>6. /\ Session'.timestamp = Session.timestamp
      /\ Session'.removedPids = Session.removedPids
      /\ Processes' = read /\ ViewOfRequest' = ViewOfRequest
  BY <1>1, <1>4, <1>5 DEF Session, Processes, ViewOfRequest
<1>7. TypeOK'
  BY <1>1, <1>5 DEF IInv, TypeOK
<1>8. ClientIsInSync' /\ DeletedWereNotFound' /\ SweepsDiffs'
  BY <1>1, <1>5 DEF IInv, ClientIsInSync, Quiet, DeletedWereNotFound, SweepsDiffs
<1>9. Partition'
  BY <1>1, <1>6 DEF IInv, Partition, InRequest
<1>10. Unread'
  BY <1>1, <1>6 DEF IInv, Unread
<1>11. WereRead'
  <2> SUFFICES ASSUME ~cmd.initial, NEW q \in enumerated \ pids' PROVE UpToDate(q)'
    BY <1>1 DEF WereRead
  <2>1. CASE q = p
    <3>1. p \in DOMAIN Processes <=> p \in ViewOfRequest
      BY <1>1 DEF IInv, Unread
    <3>2. /\ read[p].timestamp = Session.timestamp
          /\ read[p].newcomer <=> p \notin ViewOfRequest
      BY <3>1
    <3> QED BY <2>1, <1>6, <3>2 DEF UpToDate
  <2>2. CASE q # p
    <3>1. q \in enumerated \ pids
      BY <1>1, <2>2
    <3>2. UpToDate(q) /\ read[q] = Processes[q]
      BY <1>1, <2>2, <3>1 DEF IInv, WereRead, UpToDate
    <3> QED BY <1>6, <3>2 DEF UpToDate
  <2> QED BY <2>1, <2>2
<1>12. Accounted' /\ NotReading'
  <2>1. /\ pids \subseteq enumerated /\ response = NoResponse
        /\ cmd.initial => /\ DOMAIN Processes = enumerated \ pids
                          /\ \A q \in DOMAIN Processes : ~Processes[q].newcomer
        /\ ~cmd.initial => /\ DOMAIN Processes \subseteq ViewOfRequest \cup enumerated
                           /\ Session.removedPids \subseteq ViewOfRequest
    BY <1>1 DEF IInv, Accounted, InRequest
  <2>2. DOMAIN read = DOMAIN Processes \cup {p}
    OBVIOUS
  <2>3. cmd.initial => DOMAIN read = enumerated \ pids'
    BY <1>1, <2>1, <2>2
  <2>4. cmd.initial => \A q \in DOMAIN read : ~read[q].newcomer
    BY <2>1
  <2>5. ~cmd.initial => DOMAIN read \subseteq ViewOfRequest \cup enumerated
    BY <1>1, <2>1, <2>2
  <2> HIDE DEF read
  <2> QED BY <1>1, <1>6, <2>1, <2>3, <2>4, <2>5 DEF Accounted, NotReading, InRequest
<1> QED BY <1>7, <1>8, <1>9, <1>10, <1>11, <1>12 DEF IInv

LEMMA ReadDoneStep ==
  ASSUME IInv, ReadDone
  PROVE  IInv'
<1>1. /\ pc = "read" /\ pids = {}
      /\ pc' = IF cmd.initial THEN "respond" ELSE "sweep"
      /\ unswept' = IF cmd.initial THEN {} ELSE DOMAIN Processes
      /\ UNCHANGED <<running, sessions, cmd, pids, response, enumerated, view>>
  BY DEF ReadDone
<1>2. /\ Session' = Session /\ Processes' = Processes
      /\ ViewOfRequest' = ViewOfRequest
  BY <1>1 DEF Session, Processes, ViewOfRequest
<1>3. TypeOK'
  BY <1>1, <1>2 DEF IInv, TypeOK
<1>4. ClientIsInSync' /\ DeletedWereNotFound' /\ SweepsDiffs'
  BY <1>1 DEF IInv, ClientIsInSync, Quiet, DeletedWereNotFound, SweepsDiffs
<1>5. Partition' /\ Unread'
  BY <1>1, <1>2 DEF IInv, Partition, Unread, InRequest
<1>6. WereRead'
  <2> SUFFICES ASSUME ~cmd.initial, NEW p \in enumerated
               PROVE  UpToDate(p)' /\ p \notin Session.removedPids
    BY <1>1, <1>2 DEF WereRead
  <2>1. UpToDate(p)
    BY <1>1 DEF IInv, WereRead
  <2>2. UpToDate(p)'
    BY <1>2, <2>1 DEF UpToDate
  <2>3. Session.removedPids = {}
    BY <1>1 DEF IInv, Partition, InRequest
  <2> QED BY <2>2, <2>3
<1>7. Accounted' /\ NotReading'
  BY <1>1, <1>2 DEF IInv, Accounted, NotReading, InRequest
<1> QED BY <1>3, <1>4, <1>5, <1>6, <1>7 DEF IInv

(* A sweep that goes on, or is done, changes only what is left to visit.   *)
LEMMA SweepOnStep ==
  ASSUME IInv, SweepDone \/ \E p \in Pids : SweepKeep(p)
  PROVE  IInv'
<1>1. /\ pc = "sweep" /\ pc' \in {"sweep", "respond"}
      /\ unswept' \subseteq unswept
      /\ UNCHANGED <<running, sessions, cmd, pids, response, enumerated, view>>
  BY DEF SweepDone, SweepKeep
<1>2. /\ Session' = Session /\ Processes' = Processes
      /\ ViewOfRequest' = ViewOfRequest
  BY <1>1 DEF Session, Processes, ViewOfRequest
<1>3. TypeOK'
  BY <1>1, <1>2 DEF IInv, TypeOK
<1>4. ClientIsInSync' /\ DeletedWereNotFound' /\ SweepsDiffs'
  BY <1>1 DEF IInv, ClientIsInSync, Quiet, DeletedWereNotFound, SweepsDiffs
<1>5. Partition' /\ Unread'
  BY <1>1, <1>2 DEF IInv, Partition, Unread, InRequest
<1>6. WereRead'
  BY <1>1, <1>2 DEF IInv, WereRead, UpToDate
<1>7. Accounted' /\ NotReading'
  BY <1>1, <1>2 DEF IInv, Accounted, NotReading, InRequest
<1> QED BY <1>3, <1>4, <1>5, <1>6, <1>7 DEF IInv

(* What is erased was not found: its timestamp is an old one.              *)
LEMMA SweepEraseStep ==
  ASSUME IInv, NEW p \in Pids, SweepErase(p)
  PROVE  IInv'
<1> DEFINE left == Restrict(Processes, DOMAIN Processes \ {p})
           r == [Session EXCEPT !.processes = left, !.removedPids = @ \cup {p}]
<1>1. /\ pc = "sweep" /\ pc' \in {"sweep", "crashed"}
      /\ p \in unswept /\ unswept' \subseteq unswept \ {p}
      /\ Processes[p].timestamp < Session.timestamp
      /\ SetSession(cmd.session, r)
      /\ UNCHANGED <<running, cmd, pids, response, enumerated, view>>
  BY DEF SweepErase
<1>2. /\ DOMAIN left = DOMAIN Processes \ {p}
      /\ \A q \in DOMAIN left : left[q] = Processes[q]
  BY DEF Restrict
<1>3. left \in [DOMAIN left -> Info] /\ DOMAIN left \subseteq Pids
  BY <1>1, RequestHasSession DEF Restrict
<1>4. /\ SessionOK(r) /\ r.timestamp = Session.timestamp
      /\ r.processes = left /\ r.removedPids = Session.removedPids \cup {p}
  <2>1. SessionOK(Session)
    BY <1>1, RequestHasSession
  <2> HIDE DEF left
  <2> QED BY <1>3, <2>1 DEF SessionOK
<1>5. /\ DOMAIN sessions' = DOMAIN sessions
      /\ sessions'[cmd.session] = r
      /\ \A t \in DOMAIN sessions : t # cmd.session => sessions'[t] = sessions[t]
      /\ \A t \in DOMAIN sessions' : SessionOK(sessions'[t])
  <2> HIDE DEF r
  <2> QED BY <1>1, <1>4, RequestHasSession, SetOne DEF IInv
<1>6. /\ Session'.timestamp = Session.timestamp
      /\ Session'.removedPids = Session.removedPids \cup {p}
      /\ Processes' = left /\ ViewOfRequest' = ViewOfRequest
  BY <1>1, <1>4, <1>5 DEF Session, Processes, ViewOfRequest
<1> HIDE DEF left, r
<1>7. TypeOK'
  <2>1. unswept' \subseteq DOMAIN Processes'
    BY <1>1, <1>2, <1>6 DEF IInv, TypeOK
  <2> QED BY <1>1, <1>5, <2>1 DEF IInv, TypeOK
<1>8. ClientIsInSync' /\ DeletedWereNotFound' /\ SweepsDiffs' /\ Unread'
  BY <1>1, <1>5 DEF IInv, ClientIsInSync, Quiet, DeletedWereNotFound, SweepsDiffs, Unread
<1>9. Partition'
  BY <1>1, <1>2, <1>6 DEF IInv, Partition, InRequest
<1>10. WereRead'
  <2> SUFFICES ASSUME ~cmd.initial, NEW q \in enumerated
               PROVE  UpToDate(q)' /\ q \notin Session'.removedPids
    BY <1>1 DEF WereRead
  <2>1. UpToDate(q) /\ q \notin Session.removedPids
    BY <1>1 DEF IInv, WereRead
  <2>2. q # p
    BY <1>1, <2>1, RequestHasSession, ManagerAssumption DEF UpToDate, Time
  <2>3. UpToDate(q)'
    BY <1>2, <1>6, <2>1, <2>2 DEF UpToDate
  <2> QED BY <1>6, <2>1, <2>2, <2>3
<1>11. Accounted' /\ NotReading'
  <2>1. /\ ~cmd.initial /\ response = NoResponse
        /\ pids = {} /\ DOMAIN Processes \subseteq ViewOfRequest \cup enumerated
        /\ Session.removedPids \subseteq ViewOfRequest
    BY <1>1 DEF IInv, SweepsDiffs, Accounted, InRequest
  <2>2. p \in DOMAIN Processes
    BY <1>1 DEF IInv, TypeOK
  <2>3. p \notin enumerated
    <3>1. p \in enumerated => Processes[p].timestamp = Session.timestamp
      BY <1>1, <2>1 DEF IInv, WereRead, UpToDate
    <3> QED BY <1>1, <3>1, RequestHasSession, ManagerAssumption DEF Time
  <2>4. p \in ViewOfRequest
    BY <2>1, <2>2, <2>3
  <2>5. DOMAIN left \subseteq ViewOfRequest \cup enumerated
    BY <1>2, <2>1
  <2>6. Session.removedPids \cup {p} \subseteq ViewOfRequest
    BY <2>1, <2>4
  <2> QED BY <1>1, <1>6, <2>1, <2>5, <2>6 DEF Accounted, NotReading, InRequest
<1> QED BY <1>7, <1>8, <1>9, <1>10, <1>11 DEF IInv

-----------------------------------------------------------------------------
(* The response tells the client what its session holds.                   *)
LEMMA RespondStep ==
  ASSUME IInv, Respond
  PROVE  IInv'
<1>1. /\ pc = "respond" /\ pc' = "idle"
      /\ UNCHANGED <<running, sessions, cmd, pids, unswept, enumerated>>
  BY DEF Respond
<1>2. view' = [view EXCEPT ![cmd.session] = DOMAIN Processes]
  <2>1. view' = [view EXCEPT ![cmd.session] =
                   IF cmd.initial THEN DOMAIN Processes
                   ELSE (ViewOfRequest \cup DOMAIN Processes) \ Session.removedPids]
    BY DEF Respond, ViewOfRequest
  <2>2. CASE cmd.initial
    BY <2>1, <2>2
  <2>3. CASE ~cmd.initial
    <3>1. (ViewOfRequest \cup DOMAIN Processes) \ Session.removedPids = DOMAIN Processes
      BY <1>1, <2>3 DEF IInv, Partition, InRequest
    <3> QED BY <2>1, <2>3, <3>1
  <2> QED BY <2>2, <2>3
<1>3. TypeOK'
  BY <1>1, <1>2, RequestHasSession DEF IInv, TypeOK
<1>4. ClientIsInSync'
  BY <1>1, <1>2, RequestHasSession
     DEF IInv, TypeOK, ClientIsInSync, Quiet, Session, Processes
<1>5. DeletedWereNotFound'
  <2>1. response' = [k \in {"process_list"} \cup
                              (IF cmd.initial THEN {} ELSE {"deleted_process_list"}) |->
                       IF k = "process_list" THEN Listed ELSE Deleted]
    BY DEF Respond
  <2> SUFFICES ASSUME ~cmd.initial
               PROVE  response'["deleted_process_list"].items \cap enumerated = {}
    BY <1>1, <2>1 DEF DeletedWereNotFound
  <2>2. response'["deleted_process_list"].items = Session.removedPids
    BY <2>1 DEF Deleted
  <2> QED BY <1>1, <2>2 DEF IInv, WereRead
<1>6. /\ Partition' /\ Unread' /\ WereRead' /\ SweepsDiffs'
      /\ Accounted' /\ NotReading'
  BY <1>1 DEF IInv, Partition, Unread, WereRead, SweepsDiffs, Accounted, NotReading, InRequest
<1> QED BY <1>3, <1>4, <1>5, <1>6 DEF IInv

LEMMA StepInv == IInv /\ [Next]_vars => IInv'
<1> SUFFICES ASSUME IInv, [Next]_vars
             PROVE  IInv'
  OBVIOUS
<1>1. ASSUME NEW p \in Pids, Spawn(p) \/ Exit(p) PROVE IInv'
  BY <1>1, OsStep
<1>2. ASSUME NEW s \in SessionIds, StartSession(s) \/ EndSession(s) PROVE IInv'
  BY <1>2, SessionStep
<1>3. ASSUME NEW s \in SessionIds, NEW initial \in BOOLEAN, Begin(s, initial) PROVE IInv'
  BY <1>3, BeginStep
<1>4. CASE Enumerate
  BY <1>4, EnumerateStep
<1>5. ASSUME NEW p \in Pids, Read(p) \/ SweepKeep(p) \/ SweepErase(p) PROVE IInv'
  BY <1>5, ReadStep, SweepOnStep, SweepEraseStep
<1>6. CASE ReadDone \/ SweepDone \/ Respond
  BY <1>6, ReadDoneStep, SweepOnStep, RespondStep
<1>7. CASE UNCHANGED vars
  BY <1>7 DEF vars, IInv, TypeOK, Partition, Unread, WereRead, SweepsDiffs,
              Accounted, NotReading, ClientIsInSync, DeletedWereNotFound, InRequest, UpToDate,
              ViewOfRequest, Quiet, Session, Processes
<1> QED BY <1>1, <1>2, <1>3, <1>4, <1>5, <1>6, <1>7 DEF Next

(* No step of a request, of the sweep or of the system breaks the invariant.*)
THEOREM Inductive == Spec => []IInv
BY InitInv, StepInv, PTL DEF Spec

(* The sessions stay well formed and a request keeps the session it works  *)
(* on, since sessions end only between requests                            *)
(* (processmanager.cxx:21-52).                                             *)
THEOREM TypeCorrect == Spec => []TypeOK
<1>1. IInv => TypeOK
  BY DEF IInv
<1> QED BY Inductive, <1>1, PTL

(* Whatever starts and exits while /proc is read, a client that follows    *)
(* the responses knows exactly the processes its session holds             *)
(* (processmanager.cxx:94-179).                                            *)
THEOREM InSync == Spec => []ClientIsInSync
<1>1. IInv => ClientIsInSync
  BY DEF IInv
<1> QED BY Inductive, <1>1, PTL

(* No process the request found is reported deleted, however the sweep     *)
(* fares with its iterator (processmanager.cxx:165-178).                   *)
THEOREM DeletionsAreTrue == Spec => []DeletedWereNotFound
<1>1. IInv => DeletedWereNotFound
  BY DEF IInv
<1> QED BY Inductive, <1>1, PTL

(* A diff marks a process it found as new exactly when the client does not *)
(* know of it (processmanager.cxx:144-157, 198-201).                       *)
THEOREM NewcomersAreMarked == Spec => NewcomersAreNew
<1> DEFINE Marked ==
      pc = "respond" /\ pc' = "idle" /\ ~cmd.initial =>
        \A p \in enumerated :
          response'["process_list"].items[p].newcomer <=> p \notin view[cmd.session]
<1>1. IInv /\ [Next]_vars => [Marked]_vars
  <2> SUFFICES ASSUME IInv, [Next]_vars, pc = "respond", pc' = "idle", ~cmd.initial,
                      NEW p \in enumerated
               PROVE  response'["process_list"].items[p].newcomer <=> p \notin view[cmd.session]
    OBVIOUS
  <2>1. Respond
    BY DEF Next, vars, Spawn, Exit, StartSession, EndSession, Begin, Enumerate,
           Read, ReadDone, SweepKeep, SweepErase, SweepDone
  <2>2. UpToDate(p)
    BY DEF IInv, WereRead
  <2>3. response'["process_list"].items[p].newcomer = Processes[p].newcomer
    BY <2>1, <2>2 DEF Respond, Listed, UpToDate
  <2> QED BY <2>2, <2>3 DEF UpToDate, ViewOfRequest
<1> QED BY Inductive, <1>1, PTL DEF Spec, NewcomersAreNew

-----------------------------------------------------------------------------
(* What is seen of a response.                                             *)
LEMMA ResponseSeen ==
  ASSUME UNCHANGED response
  PROVE  /\ (DOMAIN List)' = DOMAIN List
         /\ {p \in DOMAIN List : List[p].newcomer}' = {p \in DOMAIN List : List[p].newcomer}
         /\ Told("deleted_process_list")' = Told("deleted_process_list")
BY DEF List, Told

LEMMA NothingSeen ==
  ASSUME response = NoResponse
  PROVE  /\ DOMAIN List = {} /\ {p \in DOMAIN List : List[p].newcomer} = {}
         /\ Told("deleted_process_list") = {}
BY DEF List, Told, NoResponse, NoProcesses

LEMMA InitRefines == Init => Lists!Init
BY NothingSeen DEF Init, Lists!Init, Lists!NoAnswer

LEMMA SessionRefines ==
  ASSUME IInv, NEW s \in SessionIds, StartSession(s) \/ EndSession(s)
  PROVE  Lists!Open(s) \/ Lists!Close(s)
<1>1. CASE StartSession(s)
  <2>1. UNCHANGED response /\ DOMAIN sessions' = DOMAIN sessions \cup {s}
    BY <1>1 DEF StartSession
  <2> QED BY <1>1, <2>1, ResponseSeen DEF StartSession, Lists!Open
<1>2. CASE EndSession(s)
  <2>1. UNCHANGED response /\ DOMAIN sessions' = DOMAIN sessions \ {s}
    BY <1>2 DEF EndSession, Restrict
  <2> QED BY <1>2, <2>1, ResponseSeen DEF EndSession, Lists!Close
<1> QED BY <1>1, <1>2

(* A list lists what was found; a diff keeps what the sweep missed.        *)
LEMMA RespondRefines ==
  ASSUME IInv, Respond,
         NEW s, NEW found, NEW L, NEW N,
         s = cmd.session, found = enumerated,
         L = DOMAIN Processes, N = {p \in L : Processes[p].newcomer}
  PROVE  Lists!Next
<1> DEFINE R == Session.removedPids
           V == view[s]
<1>1. /\ s \in SessionIds /\ s \in DOMAIN sessions /\ UNCHANGED sessions
      /\ L \subseteq Pids /\ N \subseteq L
      /\ found \subseteq Pids
  BY RequestHasSession DEF Respond, IInv, TypeOK
<1>2. response' = [k \in {"process_list"} \cup
                            (IF cmd.initial THEN {} ELSE {"deleted_process_list"}) |->
                     IF k = "process_list" THEN Listed ELSE Deleted]
  BY DEF Respond
<1>3. response' # NoResponse /\ "process_list" \in DOMAIN response'
  BY <1>2 DEF NoResponse
<1>4. List' = Listed.items
  BY <1>2, <1>3 DEF List, Told
<1>5. (DOMAIN List)' = L /\ {p \in DOMAIN List : List[p].newcomer}' = N
  BY <1>4 DEF Listed
<1>6. CASE cmd.initial
  <2>1. L = found /\ N = {}
    BY <1>6 DEF Respond, IInv, Accounted, InRequest
  <2>2. Told("deleted_process_list")' = {}
    BY <1>2, <1>6 DEF Told
  <2>3. view' = [view EXCEPT ![s] = L]
    BY <1>6 DEF Respond
  <2>4. Lists!List(s, found)
    BY <1>1, <1>5, <2>1, <2>2, <2>3 DEF Lists!List, Lists!Answer
  <2> QED BY <1>1, <2>4 DEF Lists!Next
<1>7. CASE ~cmd.initial
  <2>1. /\ R \cap L = {} /\ V \subseteq L \cup R
        /\ L \subseteq V \cup found /\ R \subseteq V
    BY <1>7 DEF Respond, IInv, Partition, Accounted, InRequest, ViewOfRequest
  <2>2. \A p \in found : p \in L /\ (p \in N <=> p \notin V)
    BY <1>7 DEF Respond, IInv, WereRead, UpToDate, ViewOfRequest
  <2>3. Told("deleted_process_list")' = R
    BY <1>2, <1>7 DEF Told, Deleted
  <2>4. view' = [view EXCEPT ![s] = (V \cup L) \ R]
    BY <1>7 DEF Respond
  <2>5. (V \cup L) \ R = L /\ V \ L = R
    BY <2>1
  <2>6. found \cup (L \ found) = L /\ (found \ V) \cup (N \ found) = N
    BY <1>1, <2>2
  <2>7. L \ found \subseteq V \ found /\ N \ found \subseteq L \ found
    BY <1>1, <2>1
  <2>8. /\ view' = [view EXCEPT ![s] = L] /\ UNCHANGED DOMAIN sessions
        /\ Told("deleted_process_list")' = R
    BY <1>1, <2>3, <2>4, <2>5
  <2>9. Lists!Diff(s, found, L \ found, N \ found)
    BY <1>1, <1>5, <2>5, <2>6, <2>7, <2>8 DEF Lists!Diff, Lists!Answer
  <2>10. L \ found \in SUBSET Pids /\ N \ found \in SUBSET Pids
    BY <1>1
  <2> QED BY <1>1, <2>9, <2>10 DEF Lists!Next
<1> QED BY <1>6, <1>7

LEMMA BeginRefines ==
  ASSUME IInv, NEW s \in SessionIds, NEW initial \in BOOLEAN, Begin(s, initial)
  PROVE  Lists!Ask
<1>1. response' = NoResponse /\ UNCHANGED view
  BY DEF Begin
<1>2. DOMAIN sessions' = DOMAIN sessions
  BY DEF Begin, SetSession
<1>3. /\ (DOMAIN List)' = {} /\ {p \in DOMAIN List : List[p].newcomer}' = {}
      /\ Told("deleted_process_list")' = {}
  BY <1>1 DEF List, Told, NoResponse, NoProcesses
<1> QED BY <1>1, <1>2, <1>3 DEF Lists!Ask, Lists!NoAnswer

LEMMA InternalRefines ==
  ASSUME IInv,
         \/ \E p \in Pids : Spawn(p) \/ Exit(p)
         \/ Enumerate \/ ReadDone \/ SweepDone
         \/ \E p \in Pids : Read(p) \/ SweepKeep(p) \/ SweepErase(p)
         \/ UNCHANGED vars
  PROVE  UNCHANGED Lists!vars
<1>1. UNCHANGED <<response, view>>
  BY DEF Spawn, Exit, Enumerate, ReadDone, SweepDone, Read, SweepKeep, SweepErase, vars
<1>2. DOMAIN sessions' = DOMAIN sessions
  BY DEF Spawn, Exit, Enumerate, ReadDone, SweepDone, Read, SweepKeep, SweepErase, vars,
         SetSession
<1> QED BY <1>1, <1>2, ResponseSeen DEF Lists!vars

LEMMA StepRefines == IInv /\ [Next]_vars => [Lists!Next]_(Lists!vars)
<1> SUFFICES ASSUME IInv, [Next]_vars
             PROVE  [Lists!Next]_(Lists!vars)
  OBVIOUS
<1>1. ASSUME NEW s \in SessionIds, StartSession(s) \/ EndSession(s)
      PROVE  Lists!Next
  BY <1>1, SessionRefines DEF Lists!Next
<1>2. ASSUME NEW s \in SessionIds, NEW initial \in BOOLEAN, Begin(s, initial)
      PROVE  Lists!Next
  BY <1>2, BeginRefines DEF Lists!Next
<1>3. CASE Respond
  <2>1. PICK s, found, L, N :
               /\ s = cmd.session /\ found = enumerated
               /\ L = DOMAIN Processes /\ N = {p \in L : Processes[p].newcomer}
    OBVIOUS
  <2> QED BY <1>3, <2>1, RespondRefines
<1>4. CASE \/ \E p \in Pids : Spawn(p) \/ Exit(p)
           \/ Enumerate \/ ReadDone \/ SweepDone
           \/ \E p \in Pids : Read(p) \/ SweepKeep(p) \/ SweepErase(p)
           \/ UNCHANGED vars
  BY <1>4, InternalRefines
<1> QED BY <1>1, <1>2, <1>3, <1>4 DEF Next

(* Whatever the operating system does between any two steps, and over any  *)
(* number of requests, the client of a session is told what ProcessLists   *)
(* promises (processmanager.cxx:94-179).                                   *)
THEOREM Implementation == Spec => ImplementsLists
BY InitRefines, Inductive, StepRefines, PTL DEF Spec, ImplementsLists, Lists!Spec
=============================================================================
