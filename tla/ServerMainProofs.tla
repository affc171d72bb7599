-------------------------- MODULE ServerMainProofs --------------------------
(***************************************************************************)
(* Proofs about ServerMain, for any set of sessions, with and without      *)
(* assertions: what the I/O thread and main() rely on in each other.       *)
(***************************************************************************)
EXTENDS ServerMain, TLAPS

(* Until the runner exists there is no thread, and it is joined before the *)
(* runner goes.                                                            *)
Threads ==
  /\ phase = "constructing" /\ built < 3 => io = "none"
  /\ io \notin {"none", "exited", "crashed"} => built >= 3

(* A command is registered only while the object that handles it exists,   *)
(* and stays registered while it is handled.                               *)
Commands ==
  /\ registered \cap GlobalCommands # {} => built >= 6
  /\ registered \cap ProcessCommands # {} => built >= 7
  /\ io = "manage" => cmd \in registered \cap ProcessCommands
  /\ io \in {"set", "notify"} /\ rpLock = "io" => "stop" \in registered

(* Sessions come after the construction.                                   *)
Constructing ==
  phase = "constructing" =>
    /\ built < 8 /\ closing = "no" /\ ~stopped /\ rpLock = "none"
    /\ built >= 7 => ProcessCommands \subseteq registered
    /\ io \in {"none", "poll", "set", "notify"}
    /\ sessions = {} /\ started = {} /\ pmSessions = {} /\ connecting = {}

(* A connection becomes a session once: what is started was accepted, and  *)
(* what is accepted was not started.                                       *)
Waiting ==
  phase = "waiting" =>
    /\ built = 8 /\ closing = "no"
    /\ ProcessCommands \subseteq registered
    /\ pmSessions = sessions \cap started
    /\ connecting \cap started = {}
    /\ io \in {"accept", "push", "start"} => current \notin connecting
    /\ io \in {"accept", "push"} => current \notin started
    /\ io = "start" => current \in sessions
    /\ io \in {"parse", "lock", "manage"} => current \in sessions \cap started

IInv == TypeOK /\ Threads /\ Commands /\ Constructing /\ Waiting /\ OneServerRuns

-----------------------------------------------------------------------------
(* The objects exist in the order of their construction.                   *)
LEMMA ObjectsAre ==
  /\ Len(Objects) = 8
  /\ Objects[1] = "logger" /\ Objects[2] = "condition" /\ Objects[3] = "runner"
  /\ Objects[4] = "signals" /\ Objects[5] = "rp" /\ Objects[6] = "gch"
  /\ Objects[7] = "pm" /\ Objects[8] = "server"
BY DEF Objects

LEMMA AliveIsBuilt ==
  ASSUME built \in 0..8
  PROVE  /\ Alive("logger") <=> built >= 1
         /\ Alive("condition") <=> built >= 2
         /\ Alive("runner") <=> built >= 3
         /\ Alive("gch") <=> built >= 6
         /\ Alive("pm") <=> built >= 7
         /\ Alive("server") <=> built >= 8
<1>1. \A i \in 1..built : i \in {1, 2, 3, 4, 5, 6, 7, 8}
  OBVIOUS
<1>2. Alive("logger") <=> 1 \in 1..built
  BY <1>1, ObjectsAre DEF Alive
<1>3. Alive("condition") <=> 2 \in 1..built
  BY <1>1, ObjectsAre DEF Alive
<1>4. Alive("runner") <=> 3 \in 1..built
  BY <1>1, ObjectsAre DEF Alive
<1>5. Alive("gch") <=> 6 \in 1..built
  BY <1>1, ObjectsAre DEF Alive
<1>6. Alive("pm") <=> 7 \in 1..built
  BY <1>1, ObjectsAre DEF Alive
<1>7. Alive("server") <=> 8 \in 1..built
  BY <1>1, ObjectsAre DEF Alive
<1> QED BY <1>2, <1>3, <1>4, <1>5, <1>6, <1>7

LEMMA InitInv == Init => IInv
<1> SUFFICES ASSUME Init PROVE IInv
  OBVIOUS
<1>1. "version" \in GlobalCommands
  BY DEF GlobalCommands
<1>2. TypeOK
  <2>1. UNION {sessions, started, pmSessions, connecting, hungup} = {}
    BY DEF Init
  <2>2. 0 \in 0..Len(Objects)
    BY ObjectsAre
  <2> QED BY <1>1, <2>1, <2>2 DEF Init, TypeOK
<1>3. Threads /\ Commands
  BY DEF Init, Threads, Commands
<1>4. Constructing /\ Waiting
  BY DEF Init, Constructing, Waiting
<1>5. OneServerRuns
  BY DEF Init, OneServerRuns
<1> QED BY <1>2, <1>3, <1>4, <1>5 DEF IInv

-----------------------------------------------------------------------------
(* The steps of main().                                                    *)
LEMMA OpenLogStep ==
  ASSUME IInv, OpenLog
  PROVE  IInv'
<1>1. /\ phase = "constructing" /\ built = 0
      /\ \/ lock' = "us" /\ built' = 1 /\ phase' = phase /\ io' = io
         \/ lock' = lock /\ built' = 0 /\ phase' = "crashed" /\ io' = "crashed"
      /\ UNCHANGED <<closing, current, cmd, signal, connecting, hungup, rpLock, stopped,
                     signaled, registered, sessions, pmSessions, startVars>>
  BY DEF OpenLog, Crash
<1>2. io = "none" /\ rpLock = "none"
  BY <1>1 DEF IInv, Threads, Constructing, startVars
<1>3. TypeOK'
  BY <1>1, <1>2, ObjectsAre DEF IInv, TypeOK, startVars
<1>4. Threads' /\ Commands' /\ Constructing' /\ Waiting'
  BY <1>1, <1>2 DEF IInv, Threads, Commands, Constructing, Waiting, startVars
<1>5. OneServerRuns'
  BY <1>1 DEF OneServerRuns, Ended
<1> QED BY <1>3, <1>4, <1>5 DEF IInv

LEMMA ConstructStep ==
  ASSUME IInv, Construct
  PROVE  IInv'
<1>1. /\ phase = "constructing" /\ built \in 1..7 /\ built' = built + 1
      /\ io' = IF built' = 3 THEN "poll" ELSE io
      /\ registered' = registered \cup (IF built' = 6 THEN GlobalCommands
                                        ELSE IF built' = 7 THEN ProcessCommands ELSE {})
      /\ phase' = IF built' = 8 THEN "waiting" ELSE phase
      /\ UNCHANGED <<closing, current, cmd, env, rpLock, stopped, signaled, sessions,
                     pmSessions, startVars>>
  <2>1. built \in 1..7 /\ built' \in 2..8 /\ built' = built + 1
    BY ObjectsAre DEF Construct, IInv, TypeOK, startVars
  <2>2. /\ Objects[built'] = "runner" <=> built' = 3
        /\ Objects[built'] = "gch" <=> built' = 6
        /\ Objects[built'] = "pm" <=> built' = 7
    BY <2>1, ObjectsAre
  <2>3. CommandsOf(Objects[built']) = IF built' = 6 THEN GlobalCommands
                                      ELSE IF built' = 7 THEN ProcessCommands ELSE {}
    BY <2>2 DEF CommandsOf
  <2> QED BY <2>1, <2>2, <2>3, ObjectsAre DEF Construct
<1>2. TypeOK'
  BY <1>1, ObjectsAre DEF IInv, TypeOK, Threads, env, startVars
<1>3. Threads'
  BY <1>1 DEF IInv, TypeOK, Threads, startVars
<1>4. /\ ~stopped /\ closing = "no" /\ rpLock = "none" /\ io \in {"none", "poll", "set", "notify"}
      /\ built >= 7 => ProcessCommands \subseteq registered
      /\ sessions = {} /\ started = {} /\ pmSessions = {} /\ connecting = {}
  BY <1>1 DEF IInv, Constructing, startVars
<1>5. /\ ~stopped' /\ closing' = "no" /\ rpLock' = "none" /\ io' \in {"none", "poll", "set", "notify"}
      /\ built' >= 7 => ProcessCommands \subseteq registered'
      /\ sessions' = {} /\ started' = {} /\ pmSessions' = {} /\ connecting' = {}
  BY <1>1, <1>4 DEF env, startVars
<1>6. Constructing' /\ Waiting'
  BY <1>1, <1>5 DEF Constructing, Waiting, startVars
<1>7. Commands'
  <2>1. GlobalCommands \cap ProcessCommands = {}
    BY DEF GlobalCommands, ProcessCommands
  <2> QED BY <1>1, <2>1 DEF IInv, Threads, Commands
<1>8. OneServerRuns'
  BY <1>1 DEF IInv, OneServerRuns, Ended, env
<1> QED BY <1>2, <1>3, <1>6, <1>7, <1>8 DEF IInv

(* main() waits, stops the context, gives up or closes the server.         *)
LEMMA PhaseStep ==
  ASSUME IInv, Wait \/ StopIo \/ ConstructionFails \/ SetStop \/ StopRunner
  PROVE  IInv'
<1>1. /\ phase' \in {"stopping", "unwinding"} /\ ~Ended
      /\ closing' \in {"no", "stopped", "closed"} /\ stopped' \in BOOLEAN
      /\ UNCHANGED <<built, ioVars, env, rpLock, signaled, registered, sessions,
                     pmSessions, startVars>>
  BY DEF Wait, StopIo, ConstructionFails, SetStop, StopRunner, Last, Ended, mainVars,
         IInv, TypeOK, startVars
<1>2. TypeOK'
  BY <1>1 DEF IInv, TypeOK, ioVars, env, startVars
<1> QED
  BY <1>1, <1>2 DEF IInv, Threads, Commands, Constructing, Waiting, OneServerRuns, Ended,
                    ioVars, env, startVars

LEMMA CloseSessionsStep ==
  ASSUME IInv, CloseSessions
  PROVE  IInv'
<1>1. /\ phase = "unwinding" /\ phase' \in {"unwinding", "crashed"}
      /\ io' \in {io, "crashed"}
      /\ closing' \in {"stopped", "closed"}
      /\ UNCHANGED <<built, current, cmd, env, rpLock, stopped, signaled, registered,
                     sessions, pmSessions, startVars>>
  BY DEF CloseSessions, Last, Crash
<1>2. TypeOK'
  BY <1>1 DEF IInv, TypeOK, env, startVars
<1> QED
  BY <1>1, <1>2 DEF IInv, Threads, Commands, Constructing, Waiting, OneServerRuns, Ended, env, startVars

LEMMA DropStep ==
  ASSUME IInv, NEW s \in Sessions, DropSession(s)
  PROVE  IInv'
<1>1. /\ phase = "unwinding"
      /\ sessions' \subseteq sessions /\ pmSessions' \subseteq pmSessions
      /\ UNCHANGED <<mainVars, ioVars, env, rpLock, stopped, signaled, registered, startVars>>
  BY DEF DropSession, SessionEnded, Last
<1>2. TypeOK'
  BY <1>1 DEF IInv, TypeOK, mainVars, ioVars, env, startVars
<1> QED
  BY <1>1, <1>2 DEF IInv, Threads, Commands, Constructing, Waiting, OneServerRuns, Ended,
                    mainVars, ioVars, env, startVars

(* A command leaves the registry only when no handler is at work.          *)
LEMMA UnregisterStep ==
  ASSUME IInv, NEW object, NEW key, Unregister(object, key)
  PROVE  IInv'
<1>1. /\ phase = "unwinding" /\ rpLock = "none"
      /\ registered' \subseteq registered
      /\ UNCHANGED <<mainVars, ioVars, env, rpLock, stopped, signaled, sessions,
                     pmSessions, startVars>>
  BY DEF Unregister, Last, LockFree
<1>2. TypeOK'
  BY <1>1 DEF IInv, TypeOK, mainVars, ioVars, env, startVars
<1>3. Commands'
  BY <1>1 DEF IInv, TypeOK, Commands, mainVars, ioVars, startVars
<1> QED
  BY <1>1, <1>2, <1>3 DEF IInv, Threads, Constructing, Waiting, OneServerRuns, Ended,
                          mainVars, ioVars, env, startVars

(* An object goes after the commands it handles, the runner after its      *)
(* thread.                                                                 *)
LEMMA DestroyedStep ==
  ASSUME IInv, Destroyed
  PROVE  IInv'
<1>1. /\ phase = "unwinding" /\ phase' \in {"unwinding", "done"}
      /\ built \in 1..8 /\ built' = built - 1
      /\ UNCHANGED <<closing, ioVars, env, rpLock, stopped, signaled, registered,
                     sessions, pmSessions, startVars>>
  BY ObjectsAre DEF Destroyed, Destructible, IInv, TypeOK, startVars
<1>2. /\ built = 3 => io = "exited"
      /\ built = 6 => registered \cap GlobalCommands = {}
      /\ built = 7 => registered \cap ProcessCommands = {}
  BY ObjectsAre DEF Destroyed, Destructible, CommandsOf
<1>3. TypeOK'
  BY <1>1, ObjectsAre DEF IInv, TypeOK, ioVars, env, startVars
<1>4. Threads' /\ Commands'
  BY <1>1, <1>2 DEF IInv, Threads, Commands, ioVars
<1>5. OneServerRuns'
  BY <1>1 DEF IInv, OneServerRuns, Ended, env
<1> QED BY <1>1, <1>3, <1>4, <1>5 DEF IInv, Constructing, Waiting, startVars

-----------------------------------------------------------------------------
(* The outside: sessions of clients need a server.                         *)
LEMMA EnvironmentStep ==
  ASSUME IInv, Environment
  PROVE  IInv'
<1>1. /\ signal' \in {"armed", "pending", "handled"}
      /\ UNION {connecting', hungup'} \subseteq Sessions
      /\ lock' \in {"none", "us", "other"} /\ (lock' = lock \/ lock # "us" \/ Ended)
      /\ UNCHANGED <<mainVars, ioVars, rpLock, stopped, signaled, registered, sessions,
                     pmSessions, startVars>>
  BY DEF Environment, Signal, OtherServer, Connect, Hangup, IInv, TypeOK, startVars
<1>2. phase = "constructing" => connecting' = connecting
  BY AliveIsBuilt, ObjectsAre
     DEF Environment, Signal, OtherServer, Connect, Hangup, IInv, TypeOK, Constructing, startVars
<1>3. TypeOK'
  BY <1>1 DEF IInv, TypeOK, mainVars, ioVars, startVars
<1>4. Threads' /\ Commands' /\ Constructing' /\ OneServerRuns'
  BY <1>1, <1>2
     DEF IInv, Threads, Commands, Constructing, OneServerRuns, Ended, mainVars, ioVars,
         startVars
<1>5. Waiting'
  <2>1. ASSUME NEW s \in connecting', s \notin connecting
        PROVE  s \notin sessions \cup started /\ ~Accepting(s)
    BY <2>1 DEF Environment, Signal, OtherServer, Connect, Hangup
  <2> QED BY <1>1, <2>1 DEF IInv, Waiting, Accepting, mainVars, ioVars, startVars
<1> QED BY <1>3, <1>4, <1>5 DEF IInv

-----------------------------------------------------------------------------
(* The steps of the I/O thread.  It takes a handler with no lock held.     *)
LEMMA BeginStep ==
  ASSUME IInv, BeginSignal \/ BeginHandler \/ Exited
  PROVE  IInv'
<1>1. /\ io = "poll" /\ rpLock = "none"
      /\ io' \in {"set", "accept", "remove", "parse", "exited"}
      /\ io' = "exited" => stopped
      /\ current' \in Sessions /\ cmd' \in GlobalCommands \cup ProcessCommands
      /\ signal' \in {"armed", "pending", "handled"}
      /\ connecting' \subseteq connecting /\ reading' \subseteq reading
      /\ UNCHANGED <<mainVars, hungup, lock, rpLock, stopped, signaled, registered,
                     sessions, started, pmSessions>>
  BY DEF BeginSignal, BeginHandler, Exited, BeginAccept, BeginRead, BeginGone, Free,
         env, mainVars, startVars, IInv, TypeOK
<1>2. /\ io' = "accept" => current' \in connecting /\ current' \notin connecting'
      /\ io' = "parse" => current' \in sessions \cap started
      /\ io' = "remove" => current' \in started
  BY DEF BeginSignal, BeginHandler, Exited, BeginAccept, BeginRead, BeginGone, IInv, TypeOK
<1>3. TypeOK'
  BY <1>1 DEF IInv, TypeOK, mainVars
<1>4. Threads' /\ Commands'
  BY <1>1 DEF IInv, Threads, Commands, mainVars
<1>5. Constructing'
  BY <1>1, <1>2 DEF IInv, Constructing, mainVars
<1>6. Waiting'
  BY <1>1, <1>2 DEF IInv, Waiting, mainVars
<1>7. OneServerRuns'
  BY <1>1 DEF IInv, OneServerRuns, Ended, mainVars
<1> QED BY <1>3, <1>4, <1>5, <1>6, <1>7 DEF IInv

(* The handlers of connections, which fill and empty both lists.           *)
Connection ==
  \/ Accept \/ Push \/ Start \/ StartFails \/ RemoveFailed
  \/ (\E s \in Sessions : RemoveAnother(s)) \/ Release \/ Remove

LEMMA ConnectionStep ==
  ASSUME IInv, Connection
  PROVE  IInv'
<1>1. /\ io \in {"accept", "push", "start", "failed", "release", "remove"}
      /\ io' \in {"push", "start", "failed", "release", "poll"}
      /\ sessions' \subseteq sessions \cup {current}
      /\ started' \subseteq started \cup {current}
      /\ pmSessions' \subseteq pmSessions \cup {current}
      /\ UNCHANGED <<mainVars, current, cmd, env, rpLock, stopped, signaled, registered>>
  BY DEF Connection, Accept, Push, Start, StartFails, RemoveFailed, RemoveAnother, Release,
         Remove, SessionEnded, startVars
<1>2. reading' \subseteq started'
  BY DEF Connection, Accept, Push, Start, StartFails, RemoveFailed, RemoveAnother, Release,
         Remove, startVars, IInv, TypeOK
<1>3. TypeOK'
  <2>1. UNION {sessions', started', pmSessions', connecting', hungup'} \subseteq Sessions
    BY <1>1 DEF IInv, TypeOK, env
  <2> QED BY <1>1, <1>2, <2>1 DEF IInv, TypeOK, mainVars, env
<1>4. Threads' /\ Commands' /\ Constructing'
  BY <1>1 DEF IInv, Threads, Commands, Constructing, mainVars
<1>5. Waiting'
  <2> SUFFICES ASSUME phase = "waiting" PROVE Waiting'
    BY <1>1 DEF Waiting, mainVars
  <2>1. /\ built = 8 /\ closing = "no" /\ registered \cap ProcessCommands # {}
        /\ UNCHANGED <<phase, built, closing, registered, current, connecting>>
    BY <1>1 DEF IInv, Waiting, mainVars, env, ProcessCommands
  <2>2. CASE Accept
    BY <2>1, <2>2 DEF Accept, IInv, Waiting, startVars
  <2>3. CASE Push
    BY <2>1, <2>3 DEF Push, IInv, Waiting, startVars
  <2>4. CASE Start
    BY <2>1, <2>4 DEF Start, IInv, Waiting
  <2>5. CASE StartFails
    BY <2>1, <2>5 DEF StartFails, IInv, Waiting, startVars
  <2>6. CASE RemoveFailed
    <3>1. sessions' \cap started = sessions \cap started
      BY <2>6 DEF RemoveFailed
    <3> QED BY <2>1, <2>6, <3>1 DEF RemoveFailed, IInv, Waiting, startVars
  <2>7. ASSUME NEW s \in Sessions, RemoveAnother(s) PROVE Waiting'
    BY <2>1, <2>7 DEF RemoveAnother, SessionEnded, IInv, Waiting, startVars
  <2>8. CASE Release
    BY <2>1, <2>8 DEF Release, SessionEnded, IInv, Waiting, startVars
  <2>9. CASE Remove
    BY <2>1, <2>9 DEF Remove, SessionEnded, IInv, Waiting, startVars
  <2> QED BY <2>2, <2>3, <2>4, <2>5, <2>6, <2>7, <2>8, <2>9 DEF Connection
<1>6. OneServerRuns'
  BY <1>1 DEF IInv, OneServerRuns, Ended, mainVars, env
<1> QED BY <1>3, <1>4, <1>5, <1>6 DEF IInv

(* A request, from the parser to the response, and the condition.          *)
LEMMA RequestStep ==
  ASSUME IInv, Parse \/ Lock \/ Unlock \/ Reply \/ Set \/ Notify
  PROVE  IInv'
<1>1. /\ io \in {"parse", "lock", "unlock", "reply", "set", "notify"}
      /\ io' \in {"lock", "unlock", "set", "manage", "reply", "notify", "poll"}
      /\ rpLock' \in {"none", "io"} /\ signaled' \in BOOLEAN
      /\ UNCHANGED <<mainVars, current, cmd, env, stopped, registered, sessions,
                     pmSessions, startVars>>
  BY DEF Parse, Lock, Unlock, Reply, Set, Notify, IInv, TypeOK, startVars
<1>2. /\ rpLock' = "io" => io' \in {"set", "notify", "manage", "unlock"}
      /\ io' \in {"manage", "unlock"} => rpLock' = "io"
  BY DEF Parse, Lock, Unlock, Reply, Set, Notify, IInv, TypeOK, startVars
<1>3. TypeOK'
  BY <1>1, <1>2 DEF IInv, TypeOK, mainVars, env, startVars
<1>4. /\ io' = "manage" => cmd \in registered \cap ProcessCommands
      /\ io' \in {"set", "notify"} /\ rpLock' = "io" => "stop" \in registered
  BY DEF Parse, Lock, Unlock, Reply, Set, Notify, IInv, TypeOK, Commands,
         GlobalCommands, ProcessCommands, startVars
<1>5. Threads' /\ Commands'
  BY <1>1, <1>4 DEF IInv, Threads, Commands, mainVars
<1>6. Constructing'
  BY <1>1 DEF Parse, Lock, Unlock, Reply, Set, Notify, IInv, TypeOK, Constructing,
              mainVars, env, startVars
<1>7. Waiting'
  <2>1. io' \in {"parse", "lock", "manage"} => io \in {"parse", "lock"}
    BY DEF Parse, Lock, Unlock, Reply, Set, Notify
  <2> QED BY <1>1, <2>1 DEF IInv, Waiting, mainVars, env, startVars
<1>8. OneServerRuns'
  BY <1>1 DEF IInv, OneServerRuns, Ended, mainVars, env
<1> QED BY <1>3, <1>5, <1>6, <1>7, <1>8 DEF IInv

(* A call of the process manager, and the crashes.                         *)
LEMMA CrashStep ==
  ASSUME IInv, Manage \/ RemoveFails \/ IoCrash
  PROVE  IInv'
<1>1. /\ \/ phase' = "crashed" /\ io' = "crashed"
         \/ io = "manage" /\ phase' = phase /\ io' = "unlock"
      /\ UNCHANGED <<built, closing, current, cmd, env, rpLock, stopped, signaled,
                     registered, sessions, pmSessions, startVars>>
  BY DEF Manage, RemoveFails, IoCrash, Crash
<1>2. TypeOK'
  <2>1. rpLock = "io" => io # "none"
    BY DEF IInv, TypeOK, startVars
  <2> QED BY <1>1, <2>1 DEF IInv, TypeOK, env, startVars
<1>3. Threads' /\ Commands'
  BY <1>1 DEF IInv, Threads, Commands
<1>4. Constructing' /\ Waiting'
  BY <1>1 DEF IInv, Constructing, Waiting, env, startVars
<1>5. OneServerRuns'
  BY <1>1 DEF IInv, OneServerRuns, Ended, env
<1> QED BY <1>2, <1>3, <1>4, <1>5 DEF IInv

-----------------------------------------------------------------------------
LEMMA StepInv == IInv /\ [Next]_vars => IInv'
<1> SUFFICES ASSUME IInv, [Next]_vars
             PROVE  IInv'
  OBVIOUS
<1>1. CASE MainStep \/ ConstructionFails
  BY <1>1, OpenLogStep, ConstructStep, PhaseStep, CloseSessionsStep, DropStep, UnregisterStep,
     DestroyedStep DEF MainStep
<1>2. CASE Environment
  BY <1>2, EnvironmentStep
<1>3. CASE IoStep
  BY <1>3, BeginStep, ConnectionStep, RequestStep, CrashStep DEF IoStep, RunHandler, Connection
<1>4. CASE UNCHANGED vars
  BY <1>4 DEF vars, mainVars, ioVars, env, IInv, TypeOK, Threads, Commands,
              Constructing, Waiting, OneServerRuns, Ended, startVars
<1> QED BY <1>1, <1>2, <1>3, <1>4 DEF Next

(* No step of either thread or of another server breaks the invariant.     *)
THEOREM Inductive == Spec => []IInv
BY InitInv, StepInv, PTL DEF Spec

(* The state of both threads is well formed and the mutex is held exactly  *)
(* inside the call of a handler (requestprocessor.cxx:86-95).              *)
THEOREM TypeCorrect == Spec => []TypeOK
<1>1. IInv => TypeOK
  BY DEF IInv
<1> QED BY Inductive, <1>1, PTL

(* main() does not destroy a command handler while the I/O thread is in it *)
(* (requestprocessor.cxx:86-95, 129-145).                                  *)
THEOREM HandlersOutlive == Spec => []HandlersOutliveTheirRequests
<1>1. IInv => HandlersOutliveTheirRequests
  <2> SUFFICES ASSUME IInv PROVE HandlersOutliveTheirRequests
    OBVIOUS
  <2>1. built \in 0..8
    BY ObjectsAre DEF IInv, TypeOK
  <2> QED
    BY <2>1, AliveIsBuilt
       DEF HandlersOutliveTheirRequests, IInv, Commands, GlobalCommands
<1> QED BY Inductive, <1>1, PTL

(* The process manager knows the sessions that a running server has and has*)
(* started, and no other, and requests come from those                     *)
(* (tcpserver.hxx:161-181, 356-367, sessionhandler.cxx:13-25).             *)
THEOREM SessionsAreKnown == Spec => []ManagerKnowsTheSessions
<1>1. IInv => ManagerKnowsTheSessions
  BY DEF IInv, Waiting, ManagerKnowsTheSessions
<1> QED BY Inductive, <1>1, PTL

(* The log, the condition and the I/O context outlive the use the I/O      *)
(* thread makes of them (main.cxx:128-149, iorunner.hxx:21-32).            *)
THEOREM ThreadJoined == Spec => []ThreadIsJoined
<1>1. IInv => ThreadIsJoined
  <2> SUFFICES ASSUME IInv PROVE ThreadIsJoined
    OBVIOUS
  <2>1. built \in 0..8
    BY ObjectsAre DEF IInv, TypeOK
  <2> QED BY <2>1, AliveIsBuilt DEF ThreadIsJoined, IInv, Threads
<1> QED BY Inductive, <1>1, PTL

(* Of two servers with one log file at most one gets past its logger, and  *)
(* while it runs no other does (logger.cxx:22-36, main.cxx:127-132).       *)
THEOREM OnlyOneRuns == Spec => []OneServerRuns
<1>1. IInv => OneServerRuns
  BY DEF IInv
<1> QED BY Inductive, <1>1, PTL
=============================================================================
