----------------------------- MODULE ServerMain -----------------------------
(***************************************************************************)
(* The life of the server: main() constructs its objects, waits for the    *)
(* exit condition, stops the I/O context and destroys the objects in       *)
(* reverse order, while the one I/O thread runs the handlers of signals,   *)
(* connections and requests.  io.stop() does not wait for the handler that *)
(* is running, and the thread is joined only when the runner is destroyed, *)
(* after the server, the command handlers and the request processor.       *)
(* The lock of the log file tells whether another server is running.       *)
(*                                                                         *)
(* A handler that uses an object whose life has ended finds its memory as  *)
(* it was, or crashes.                                                     *)
(***************************************************************************)
EXTENDS Integers, Sequences, FiniteSets

CONSTANTS
  Sessions,  \* ids of the sessions that clients open (model checking only)
  Asserts    \* whether assert() is compiled in

ASSUME MainAssumption == IsFiniteSet(Sessions) /\ Asserts \in BOOLEAN

VARIABLES
  phase,      \* of main(): "constructing", "waiting", "stopping", "unwinding", "done"
  built,      \* how many of the objects exist
  closing,    \* of ~TcpServer: "no", "stopped" (m_stop is set), "closed" (sockets)
  io,         \* where the I/O thread is
  current,    \* the session its handler works for
  cmd,        \* the command being processed
  rpLock,     \* who holds RequestProcessor::m_mutex across steps
  stopped,    \* the io_context is stopped
  signaled,   \* Condition::m_signaled
  signal,     \* "armed", "pending" or "handled"
  registered, \* the commands in RequestProcessor::m_handlers
  sessions,   \* TcpServer::m_sessions
  started,    \* the sessions whose handler was constructed
  reading,    \* the sessions with an outstanding read
  pmSessions, \* ProcessManager::m_sessions
  connecting, \* connections to accept
  hungup,     \* clients that are gone
  lock        \* who has locked the log file: "none", "us" or "other"

mainVars == <<phase, built, closing>>
ioVars == <<io, current, cmd>>
env == <<signal, connecting, hungup, lock>>
startVars == <<started, reading>>
vars == <<mainVars, ioVars, env, rpLock, stopped, signaled, registered, sessions,
          startVars, pmSessions>>

(* The local objects of main() in the order of their construction.         *)
Objects == <<"logger", "condition", "runner", "signals", "rp", "gch", "pm", "server">>

Alive(object) == \E i \in 1..built : Objects[i] = object

(* The object whose turn it is to be destroyed.                            *)
Last(object) == phase = "unwinding" /\ built > 0 /\ Objects[built] = object

GlobalCommands == {"stop", "version"}
ProcessCommands == {"list_processes", "diff_processes"}

CommandsOf(object) ==
  CASE object = "gch" -> GlobalCommands
    [] object = "pm" -> ProcessCommands
    [] OTHER -> {}

LockFree == rpLock = "none"

(* The process has ended.                                                  *)
Ended == phase \in {"done", "crashed"}

(* abort() or a fault ends both threads.                                   *)
Crash == phase' = "crashed" /\ io' = "crashed"

-----------------------------------------------------------------------------
Init ==
  /\ phase = "constructing" /\ built = 0 /\ closing = "no"
  /\ io = "none" /\ cmd = "version"
  /\ current \in Sessions
  /\ rpLock = "none"
  /\ stopped = FALSE /\ signaled = FALSE /\ signal = "armed"
  /\ registered = {}
  /\ sessions = {} /\ started = {} /\ reading = {} /\ pmSessions = {}
  /\ connecting = {} /\ hungup = {}
  /\ lock \in {"none", "other"}

-----------------------------------------------------------------------------
(* Mutant: only errors other than EWOULDBLOCK are errors.                  *)
OpenLogUnlocked ==
  /\ phase = "constructing" /\ built = 0
  /\ \/ built' = 1 /\ UNCHANGED <<phase, io>>
        /\ lock' = IF lock = "none" THEN "us" ELSE lock
     \/ Crash /\ UNCHANGED <<built, lock>>
  /\ UNCHANGED <<closing, current, cmd, signal, connecting, hungup, rpLock, stopped, signaled,
                 registered, sessions, pmSessions, startVars>>

(* The logger, before main() catches anything: it opens the log file and   *)
(* locks it, or throws.                                                    *)
OpenLog ==
  /\ phase = "constructing" /\ built = 0
  /\ \/ lock = "none" /\ lock' = "us" /\ built' = 1 /\ UNCHANGED <<phase, io>>
     \/ Crash /\ UNCHANGED <<built, lock>>
  /\ UNCHANGED <<closing, current, cmd, signal, connecting, hungup, rpLock, stopped, signaled,
                 registered, sessions, pmSessions, startVars>>

(* main(): the construction of the next object.  The runner starts the I/O *)
(* thread, the command handlers register themselves.                       *)
Construct ==
  /\ phase = "constructing" /\ built \in 1..(Len(Objects) - 1)
  /\ built' = built + 1
  /\ io' = IF Objects[built'] = "runner" THEN "poll" ELSE io
  /\ registered' = registered \cup CommandsOf(Objects[built'])
  /\ phase' = IF built' = Len(Objects) THEN "waiting" ELSE phase
  /\ UNCHANGED <<closing, current, cmd, env, rpLock, stopped, signaled, sessions,
                 pmSessions, startVars>>

(* A constructor throws, and what was built is destroyed.                  *)
ConstructionFails ==
  /\ phase = "constructing" /\ built \in 1..(Len(Objects) - 1)
  /\ phase' = "unwinding"
  /\ UNCHANGED <<built, closing, ioVars, env, rpLock, stopped, signaled, registered,
                 sessions, pmSessions, startVars>>

Wait ==
  /\ phase = "waiting" /\ signaled
  /\ phase' = "stopping"
  /\ UNCHANGED <<built, closing, ioVars, env, rpLock, stopped, signaled, registered,
                 sessions, pmSessions, startVars>>

StopIo ==
  /\ phase = "stopping"
  /\ stopped' = TRUE
  /\ phase' = "unwinding"
  /\ UNCHANGED <<built, closing, ioVars, env, rpLock, signaled, registered, sessions,
                 pmSessions, startVars>>

(* ~TcpServer, its members included.  A session is closed with a shutdown  *)
(* of its socket, which throws out of a noexcept function when the client  *)
(* has reset the connection.                                               *)
SetStop ==
  /\ Last("server") /\ closing = "no"
  /\ closing' = "stopped"
  /\ UNCHANGED <<phase, built, ioVars, env, rpLock, stopped, signaled, registered,
                 sessions, pmSessions, startVars>>

CloseSessions ==
  /\ Last("server") /\ closing = "stopped"
  /\ \/ closing' = "closed" /\ UNCHANGED <<phase, io>>
     \/ sessions \cap hungup # {} /\ Crash /\ UNCHANGED closing
  /\ UNCHANGED <<built, current, cmd, env, rpLock, stopped, signaled, registered,
                 sessions, pmSessions, startVars>>

(* onAccept() holds a reference of its own to the session it creates.      *)
HeldByAccept(s) == io \in {"start", "failed", "release"} /\ current = s

(* ~SessionHandler ends the session with the request processor, which      *)
(* calls every registered handler under its mutex.                         *)

(* Mutant: the session handler is destroyed without a word.                *)
SessionForgotten(s) == UNCHANGED pmSessions

SessionEnded(s) ==
  pmSessions' = IF registered \cap ProcessCommands # {} THEN pmSessions \ {s}
                                                        ELSE pmSessions

DropSession(s) ==
  /\ Last("server") /\ closing = "closed" /\ s \in sessions
  /\ sessions' = sessions \ {s}
  /\ IF HeldByAccept(s) \/ s \notin started
     THEN UNCHANGED pmSessions
     ELSE LockFree /\ SessionEnded(s)
  /\ UNCHANGED <<mainVars, ioVars, env, rpLock, stopped, signaled, registered,
                 startVars>>

(* Mutant: a handler is destroyed without waiting for the request.         *)
UnregisterUnlocked(object, key) ==
  /\ Last(object) /\ key \in registered \cap CommandsOf(object)
  /\ registered' = registered \ {key}
  /\ UNCHANGED <<mainVars, ioVars, env, rpLock, stopped, signaled, sessions,
                 pmSessions, startVars>>

(* ~GlobalCmdHandler and ~ProcessManager.                                  *)
Unregister(object, key) ==
  /\ Last(object) /\ key \in registered \cap CommandsOf(object)
  /\ LockFree
  /\ registered' = registered \ {key}
  /\ UNCHANGED <<mainVars, ioVars, env, rpLock, stopped, signaled, sessions,
                 pmSessions, startVars>>

(* ~IoRunner stops the context, then joins the thread.                     *)
StopRunner ==
  /\ Last("runner") /\ ~stopped
  /\ stopped' = TRUE
  /\ UNCHANGED <<mainVars, ioVars, env, rpLock, signaled, registered, sessions,
                 pmSessions, startVars>>

(* Mutant: the thread is not joined.                                       *)
DestructibleUnjoined ==
  /\ phase = "unwinding" /\ built > 0
  /\ registered \cap CommandsOf(Objects[built]) = {}
  /\ Objects[built] = "server" => closing = "closed" /\ sessions = {}
  /\ Objects[built] = "runner" => stopped

(* Every step of the destructor of the last object has been made.          *)
Destructible ==
  /\ phase = "unwinding" /\ built > 0
  /\ registered \cap CommandsOf(Objects[built]) = {}
  /\ Objects[built] = "server" => closing = "closed" /\ sessions = {}
  /\ Objects[built] = "runner" => stopped /\ io = "exited"

Destroyed ==
  /\ Destructible
  /\ built' = built - 1
  /\ phase' = IF built' = 0 THEN "done" ELSE phase
  /\ UNCHANGED <<closing, ioVars, env, rpLock, stopped, signaled, registered,
                 sessions, pmSessions, startVars>>

MainStep ==
  \/ OpenLog \/ Construct \/ Wait \/ StopIo \/ SetStop \/ CloseSessions
  \/ \E s \in Sessions : DropSession(s)
  \/ \E key \in GlobalCommands : Unregister("gch", key)
  \/ \E key \in ProcessCommands : Unregister("pm", key)
  \/ StopRunner \/ Destroyed

-----------------------------------------------------------------------------
(* The outside.                                                            *)
Signal ==
  /\ Alive("signals") /\ signal = "armed"
  /\ signal' = "pending"
  /\ UNCHANGED <<mainVars, ioVars, connecting, hungup, lock, rpLock, stopped, signaled,
                 registered, sessions, pmSessions, startVars>>

Accepting(s) == io \in {"accept", "push"} /\ current = s

Connect(s) ==
  /\ Alive("server") /\ closing = "no"
  /\ s \notin connecting \cup sessions \cup started \cup hungup
  /\ ~Accepting(s)
  /\ connecting' = connecting \cup {s}
  /\ UNCHANGED <<mainVars, ioVars, signal, hungup, lock, rpLock, stopped, signaled,
                 registered, sessions, pmSessions, startVars>>

Hangup(s) ==
  /\ s \in connecting \cup sessions \/ Accepting(s)
  /\ s \notin hungup
  /\ hungup' = hungup \cup {s}
  /\ UNCHANGED <<mainVars, ioVars, signal, connecting, lock, rpLock, stopped, signaled,
                 registered, sessions, pmSessions, startVars>>

(* Another server locks the log file, which nobody does or whose owner has *)
(* ended, and ends.  That it truncates the file before that is left out.   *)
OtherServer ==
  /\ \/ (lock = "none" \/ Ended) /\ lock' = "other"
     \/ lock = "other" /\ lock' = "none"
  /\ UNCHANGED <<mainVars, ioVars, signal, connecting, hungup, rpLock, stopped, signaled,
                 registered, sessions, pmSessions, startVars>>

Environment == Signal \/ OtherServer \/ \E s \in Sessions : Connect(s) \/ Hangup(s)

-----------------------------------------------------------------------------
(* The I/O thread takes the next handler, unless the context was stopped.  *)
Free == io = "poll" /\ ~stopped

BeginSignal ==
  /\ Free /\ signal = "pending" /\ Alive("signals")
  /\ signal' = "handled"
  /\ io' = "set"
  /\ UNCHANGED <<mainVars, current, cmd, connecting, hungup, lock, rpLock, stopped, signaled,
                 registered, sessions, pmSessions, startVars>>

BeginAccept(s) ==
  /\ Free /\ s \in connecting
  /\ connecting' = connecting \ {s}
  /\ io' = "accept" /\ current' = s
  /\ UNCHANGED <<mainVars, cmd, signal, hungup, lock, rpLock, stopped, signaled, registered,
                 sessions, pmSessions, startVars>>

BeginRead(s, c) ==
  /\ Free /\ s \in (sessions \cap reading) \ hungup
  /\ io' = "parse" /\ current' = s /\ cmd' = c
  /\ UNCHANGED <<mainVars, env, rpLock, stopped, signaled, registered, sessions,
                 pmSessions, startVars>>

(* The read has failed: the client is gone, or the session was destroyed   *)
(* and its socket closed while the read was outstanding.                   *)
BeginGone(s) ==
  /\ Free /\ s \in reading /\ (s \in hungup \/ s \notin sessions)
  /\ reading' = reading \ {s}
  /\ io' = "remove" /\ current' = s
  /\ UNCHANGED <<mainVars, cmd, env, rpLock, stopped, signaled, registered, sessions,
                 pmSessions, started>>

Exited ==
  /\ io = "poll" /\ stopped
  /\ io' = "exited"
  /\ UNCHANGED <<mainVars, current, cmd, env, rpLock, stopped, signaled, registered,
                 sessions, pmSessions, startVars>>

-----------------------------------------------------------------------------
(* onAccept(): m_stop is looked at before anything else.                   *)
Accept ==
  /\ io = "accept"
  /\ io' = IF closing = "no" THEN "push" ELSE "poll"
  /\ UNCHANGED <<mainVars, current, cmd, env, rpLock, stopped, signaled, registered,
                 sessions, pmSessions, startVars>>

Push ==
  /\ io = "push"
  /\ sessions' = sessions \cup {current}
  /\ io' = "start"
  /\ UNCHANGED <<mainVars, current, cmd, env, rpLock, stopped, signaled, registered,
                 pmSessions, startVars>>

(* start(): the constructor of the session handler, and the first read.    *)
Start ==
  /\ io = "start" /\ LockFree
  /\ pmSessions' = IF registered \cap ProcessCommands # {}
                   THEN pmSessions \cup {current} ELSE pmSessions
  /\ started' = started \cup {current} /\ reading' = reading \cup {current}
  /\ io' = "release"
  /\ UNCHANGED <<mainVars, current, cmd, env, rpLock, stopped, signaled, registered,
                 sessions>>

(* start() fails when the client is gone already: remote_endpoint() throws *)
(* before there is a session handler.                                      *)
StartFails ==
  /\ io = "start" /\ current \in hungup
  /\ io' = "failed"
  /\ UNCHANGED <<mainVars, current, cmd, env, rpLock, stopped, signaled, registered,
                 sessions, startVars, pmSessions>>

(* The id that onAccept() removes then is read from an empty optional.  It *)
(* may be that of another session, whose handler is destroyed with it,     *)
RemoveAnother(s) ==
  /\ io = "failed" /\ s \in sessions \cap started /\ LockFree
  /\ sessions' = sessions \ {s}
  /\ SessionEnded(s)
  /\ io' = "release"
  /\ UNCHANGED <<mainVars, current, cmd, env, rpLock, stopped, signaled, registered,
                 startVars>>

(* or of one that failed to start, or of none.                             *)
RemoveFailed ==
  /\ io = "failed"
  /\ sessions' \in {sessions} \cup {sessions \ {s} : s \in sessions \ started}
  /\ io' = "release"
  /\ UNCHANGED <<mainVars, current, cmd, env, rpLock, stopped, signaled, registered,
                 startVars, pmSessions>>

(* onAccept() returns; its reference may be the last one to the session.   *)
Release ==
  /\ io = "release"
  /\ IF current \in sessions \/ current \notin started
     THEN UNCHANGED pmSessions
     ELSE LockFree /\ SessionEnded(current)
  /\ io' = "poll"
  /\ UNCHANGED <<mainVars, current, cmd, env, rpLock, stopped, signaled, registered,
                 sessions, startVars>>

(* onRead() with an error: close() and removeSession().                    *)
Remove ==
  /\ io = "remove" /\ LockFree
  /\ sessions' = sessions \ {current}
  /\ SessionEnded(current)
  /\ io' = "poll"
  /\ UNCHANGED <<mainVars, current, cmd, env, rpLock, stopped, signaled, registered,
                 startVars>>

(* The client has reset the connection and shutdown() throws.              *)
RemoveFails ==
  /\ io = "remove"
  /\ Crash
  /\ UNCHANGED <<built, closing, current, cmd, env, rpLock, stopped, signaled,
                 registered, sessions, pmSessions, startVars>>

(* SessionHandler::process() parses the request in its buffer.             *)
Parse ==
  /\ io = "parse"
  /\ io' = "lock"
  /\ UNCHANGED <<mainVars, current, cmd, env, rpLock, stopped, signaled, registered,
                 sessions, pmSessions, startVars>>

(* RequestProcessor::process() takes the mutex, calls the handler of the   *)
(* command and releases the mutex.                                         *)

(* Mutant: the handlers are called without the mutex.                      *)
CallUnlocked ==
  /\ io = "lock"
  /\ io' = IF cmd \notin registered \/ cmd = "version" THEN "unlock"
           ELSE IF cmd = "stop" THEN "set" ELSE "manage"
  /\ UNCHANGED <<mainVars, current, cmd, env, rpLock, stopped, signaled, registered,
                 sessions, pmSessions, startVars>>

Lock ==
  /\ io = "lock" /\ LockFree
  /\ rpLock' = "io"
  /\ io' = IF cmd \notin registered \/ cmd = "version" THEN "unlock"
           ELSE IF cmd = "stop" THEN "set" ELSE "manage"
  /\ UNCHANGED <<mainVars, current, cmd, env, stopped, signaled, registered, sessions,
                 pmSessions, startVars>>

(* ProcessManager::process() of a session it knows, or does not.           *)
Manage ==
  /\ io = "manage"
  /\ IF Asserts /\ current \notin pmSessions
     THEN Crash ELSE io' = "unlock" /\ UNCHANGED phase
  /\ UNCHANGED <<built, closing, current, cmd, env, rpLock, stopped, signaled,
                 registered, sessions, pmSessions, startVars>>

Unlock ==
  /\ io = "unlock"
  /\ rpLock' = "none"
  /\ io' = "reply"
  /\ UNCHANGED <<mainVars, current, cmd, env, stopped, signaled, registered, sessions,
                 pmSessions, startVars>>

(* The rest of SessionHandler::process() and the write of the response.    *)
Reply ==
  /\ io = "reply"
  /\ io' = "poll"
  /\ UNCHANGED <<mainVars, current, cmd, env, rpLock, stopped, signaled, registered,
                 sessions, pmSessions, startVars>>

(* Condition::set(), from the signal handler or the stop command.          *)

(* Mutant: a signal that finds nobody waiting is forgotten.                *)
SetWaiting ==
  /\ io = "set"
  /\ signaled' = (phase = "waiting")
  /\ io' = "notify"
  /\ UNCHANGED <<mainVars, current, cmd, env, rpLock, stopped, registered, sessions,
                 pmSessions, startVars>>

Set ==
  /\ io = "set"
  /\ signaled' = TRUE
  /\ io' = "notify"
  /\ UNCHANGED <<mainVars, current, cmd, env, rpLock, stopped, registered, sessions,
                 pmSessions, startVars>>

Notify ==
  /\ io = "notify"
  /\ io' = IF rpLock = "io" THEN "unlock" ELSE "poll"
  /\ UNCHANGED <<mainVars, current, cmd, env, rpLock, stopped, signaled, registered,
                 sessions, pmSessions, startVars>>

(* What the handler uses next has been destroyed, or is being destroyed.   *)
UsesTheDead ==
  \/ io \in {"push", "failed", "remove"} /\ (closing # "no" \/ ~Alive("server"))
  \/ io \in {"parse", "reply", "remove"} /\ current \notin sessions
  \/ io \in {"start", "release", "remove", "lock", "unlock"} /\ ~Alive("rp")

IoCrash ==
  /\ UsesTheDead
  /\ Crash
  /\ UNCHANGED <<built, closing, current, cmd, env, rpLock, stopped, signaled,
                 registered, sessions, pmSessions, startVars>>

BeginHandler ==
  \E s \in Sessions :
    \/ BeginAccept(s) \/ BeginGone(s)
    \/ \E c \in GlobalCommands \cup ProcessCommands : BeginRead(s, c)

(* The handler that is running, up to its return.                          *)
RunHandler ==
  \/ Accept \/ Push \/ Start \/ StartFails \/ Release \/ Remove \/ RemoveFails
  \/ RemoveFailed \/ \E s \in Sessions : RemoveAnother(s)
  \/ Parse \/ Lock \/ Manage \/ Unlock \/ Reply
  \/ Set \/ Notify
  \/ IoCrash

IoStep == BeginSignal \/ BeginHandler \/ RunHandler \/ Exited

Next ==
  \/ MainStep \/ ConstructionFails
  \/ Environment
  \/ IoStep
  \/ Ended /\ UNCHANGED vars

(* Both threads are scheduled.  The I/O context runs its ready handlers in *)
(* the order they became ready, so a signal is handled in the end however  *)
(* many requests there are.                                                *)
Fairness ==
  /\ WF_vars(MainStep)
  /\ WF_vars(RunHandler \/ Exited)
  /\ SF_vars(BeginSignal)

Spec == Init /\ [][Next]_vars /\ Fairness

-----------------------------------------------------------------------------
(* The state of the threads and of the objects they share is well formed,  *)
(* and m_mutex is held exactly inside a call of a handler                  *)
(* (requestprocessor.cxx:86-95).                                           *)
TypeOK ==
  /\ phase \in {"constructing", "waiting", "stopping", "unwinding", "done",
               "crashed"}
  /\ built \in 0..Len(Objects)
  /\ closing \in {"no", "stopped", "closed"}
  /\ io \in {"none", "poll", "set", "notify", "accept", "push", "start", "failed",
             "release", "remove", "parse", "lock", "manage", "unlock", "reply", "exited",
             "crashed"}
  /\ current \in Sessions /\ cmd \in GlobalCommands \cup ProcessCommands
  /\ rpLock \in {"none", "io"}
  /\ rpLock = "io" => io \in {"set", "notify", "manage", "unlock", "crashed"}
  /\ io \in {"manage", "unlock"} => rpLock = "io"
  /\ stopped \in BOOLEAN /\ signaled \in BOOLEAN
  /\ signal \in {"armed", "pending", "handled"}
  /\ registered \subseteq GlobalCommands \cup ProcessCommands
  /\ UNION {sessions, started, pmSessions, connecting, hungup} \subseteq Sessions
  /\ reading \subseteq started
  /\ lock \in {"none", "us", "other"}

(* While the I/O thread is in a command handler, main() does not destroy   *)
(* it: both unregister under the mutex the thread holds                    *)
(* (requestprocessor.cxx:86-95, 129-145).                                  *)
HandlersOutliveTheirRequests ==
  /\ io = "manage" => Alive("pm")
  /\ io \in {"set", "notify"} /\ rpLock = "io" => Alive("gch")

(* As long as the server runs, the process manager keeps a list for the    *)
(* sessions that the server has and has started, and for no other, although*)
(* a session that does not start is removed by the id of any; and a request*)
(* comes from one of them (tcpserver.hxx:161-181, 356-367,                 *)
(* sessionhandler.cxx:13-25).                                              *)
ManagerKnowsTheSessions ==
  phase = "waiting" =>
    /\ pmSessions = sessions \cap started
    /\ io \in {"parse", "lock", "manage"} => current \in pmSessions

(* The log, the condition and the I/O context are destroyed after the I/O  *)
(* thread has left them, although the wait may end before set() has        *)
(* notified (main.cxx:128-149, iorunner.hxx:21-32).                        *)
ThreadIsJoined ==
  io \notin {"none", "exited", "crashed"} =>
    Alive("logger") /\ Alive("condition") /\ Alive("runner")

(* Of two servers with one log file at most one gets past its logger, and  *)
(* while it runs no other does (logger.cxx:22-36, main.cxx:127-132).       *)
OneServerRuns == built > 0 /\ ~Ended => lock = "us"

(* A signal, whenever it comes, and a stop command end the process: neither*)
(* is lost when main() does not wait yet, and no thread waits forever for  *)
(* the mutex or for the other (condition.hxx:35-62, main.cxx:160-190).     *)
StopEndsTheProcess == (signal = "pending" \/ io = "set") ~> Ended

(* assert(it != m_sessions.end()) (processmanager.cxx:49): a request comes *)
(* from a session the process manager knows.                               *)
RequestsComeFromSessions ==
  io = "manage" => current \in pmSessions
=============================================================================
