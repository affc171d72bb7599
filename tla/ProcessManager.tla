--------------------------- MODULE ProcessManager ---------------------------
(***************************************************************************)
(* ProcessManager: for each session, the processes last reported to it.    *)
(* list_processes reads them anew; diff_processes updates them, marks the  *)
(* newcomers and reports the processes that are gone.  The operating       *)
(* system starts and ends processes between any two steps of a request.    *)
(*                                                                         *)
(* m_mutex is held for a whole request, so that sessions start and end     *)
(* only between requests.                                                  *)
(***************************************************************************)
EXTENDS Integers, FiniteSets, Functions

CONSTANTS
  Pids,        \* process ids
  SessionIds,  \* session ids
  TimeRange    \* the number of values of a timestamp: 2^32 in the code

ASSUME ManagerAssumption == TimeRange \in Nat \ {0}

VARIABLES
  running,    \* the pids that a process has, in the operating system
  sessions,   \* m_sessions
  pc,         \* where the request being processed is
  cmd,        \* its session and whether it is list_processes
  pids,       \* local of readProcesses: the enumerated pids still to read
  unswept,    \* local of readProcesses: what the sweep has still to visit
  response,   \* the response of the request, as a table of named bags
  enumerated, \* history: the pids the request has enumerated
  view        \* history: the pids each client knows of from its responses

vars == <<running, sessions, pc, cmd, pids, unswept, response, enumerated, view>>

NoProcesses == [p \in {} |-> 0]
NewSession == [timestamp |-> 0, processes |-> NoProcesses, removedPids |-> {}]
NoResponse == [k \in {} |-> 0]

(* The session, and the processes of the session, of the request.          *)
Session == sessions[cmd.session]
Processes == Session.processes

SetSession(s, new) == sessions' = [sessions EXCEPT ![s] = new]

-----------------------------------------------------------------------------
Init ==
  /\ running = {}
  /\ sessions = [s \in {} |-> NewSession]
  /\ pc = "idle"
  /\ cmd \in [session : SessionIds, initial : {TRUE}]
  /\ pids = {} /\ unswept = {}
  /\ response = NoResponse
  /\ enumerated = {}
  /\ view = [s \in SessionIds |-> {}]

(* The operating system.                                                   *)
Spawn(p) ==
  /\ p \notin running
  /\ running' = running \cup {p}
  /\ UNCHANGED <<sessions, pc, cmd, pids, unswept, response, enumerated, view>>

Exit(p) ==
  /\ p \in running
  /\ running' = running \ {p}
  /\ UNCHANGED <<sessions, pc, cmd, pids, unswept, response, enumerated, view>>

(* The request processor calls both once for each registered command; the  *)
(* second call finds the work done and changes nothing.                    *)
StartSession(s) ==
  /\ pc = "idle"
  /\ s \notin DOMAIN sessions
  /\ sessions' = [t \in DOMAIN sessions \cup {s} |->
                    IF t = s THEN NewSession ELSE sessions[t]]
  /\ view' = [view EXCEPT ![s] = {}]
  /\ UNCHANGED <<running, pc, cmd, pids, unswept, response, enumerated>>

(* Mutant: m_mutex is not taken.                                           *)
EndSessionUnlocked(s) ==
  /\ s \in DOMAIN sessions
  /\ sessions' = Restrict(sessions, DOMAIN sessions \ {s})
  /\ UNCHANGED <<running, pc, cmd, pids, unswept, response, enumerated, view>>

EndSession(s) ==
  /\ pc = "idle"
  /\ s \in DOMAIN sessions
  /\ sessions' = Restrict(sessions, DOMAIN sessions \ {s})
  /\ UNCHANGED <<running, pc, cmd, pids, unswept, response, enumerated, view>>

-----------------------------------------------------------------------------
(* Mutant: the pids removed by earlier requests are reported again.        *)
BeginKeepingRemoved(s, initial) ==
  /\ pc = "idle"
  /\ s \in DOMAIN sessions
  /\ SetSession(s, [timestamp |-> (sessions[s].timestamp + 1) % TimeRange,
                    processes |-> IF initial THEN NoProcesses
                                             ELSE sessions[s].processes,
                    removedPids |-> sessions[s].removedPids])
  /\ cmd' = [session |-> s, initial |-> initial]
  /\ pc' = "enumerate"
  /\ response' = NoResponse /\ enumerated' = {}
  /\ UNCHANGED <<running, pids, unswept, view>>

(* Mutant: list_processes keeps the processes of earlier requests.         *)
BeginUncleared(s, initial) ==
  /\ pc = "idle"
  /\ s \in DOMAIN sessions
  /\ SetSession(s, [timestamp |-> (sessions[s].timestamp + 1) % TimeRange,
                    processes |-> sessions[s].processes,
                    removedPids |-> {}])
  /\ cmd' = [session |-> s, initial |-> initial]
  /\ pc' = "enumerate"
  /\ response' = NoResponse /\ enumerated' = {}
  /\ UNCHANGED <<running, pids, unswept, view>>

Begin(s, initial) ==
  /\ pc = "idle"
  /\ s \in DOMAIN sessions
  /\ SetSession(s, [timestamp |-> (sessions[s].timestamp + 1) % TimeRange,
                    processes |-> IF initial THEN NoProcesses
                                             ELSE sessions[s].processes,
                    removedPids |-> {}])
  /\ cmd' = [session |-> s, initial |-> initial]
  /\ pc' = "enumerate"
  /\ response' = NoResponse /\ enumerated' = {}
  /\ UNCHANGED <<running, pids, unswept, view>>

(* /proc is listed, or cannot be opened and passes for empty.              *)
Enumerate ==
  /\ pc = "enumerate"
  /\ pids' \in {running, {}}
  /\ enumerated' = pids'
  /\ pc' = "read"
  /\ UNCHANGED <<running, sessions, cmd, unswept, response, view>>

(* readProcess(): a process that has exited since is recorded as such.     *)
Reading(p) == [timestamp |-> Session.timestamp, newcomer |-> FALSE, valid |-> p \in running]

(* Mutant: a known process is refreshed in place and stays a newcomer.     *)
ReadInPlace(p) ==
  /\ pc = "read" /\ p \in pids
  /\ pids' = pids \ {p}
  /\ LET known == p \in DOMAIN Processes
         info == [Reading(p) EXCEPT
                    !.newcomer = IF known THEN Processes[p].newcomer
                                          ELSE ~cmd.initial]
     IN  SetSession(cmd.session,
                    [Session EXCEPT !.processes =
                       [q \in DOMAIN Processes \cup {p} |->
                          IF q = p THEN info ELSE Processes[q]]])
  /\ UNCHANGED <<running, pc, cmd, unswept, response, enumerated, view>>

Read(p) ==
  /\ pc = "read" /\ p \in pids
  /\ pids' = pids \ {p}
  /\ LET new == ~cmd.initial /\ p \notin DOMAIN Processes
         info == [Reading(p) EXCEPT !.newcomer = new]
     IN  SetSession(cmd.session,
                    [Session EXCEPT !.processes =
                       [q \in DOMAIN Processes \cup {p} |->
                          IF q = p THEN info ELSE Processes[q]]])
  /\ UNCHANGED <<running, pc, cmd, unswept, response, enumerated, view>>

ReadDone ==
  /\ pc = "read" /\ pids = {}
  /\ pc' = IF cmd.initial THEN "respond" ELSE "sweep"
  /\ unswept' = IF cmd.initial THEN {} ELSE DOMAIN Processes
  /\ UNCHANGED <<running, sessions, cmd, pids, response, enumerated, view>>

-----------------------------------------------------------------------------
SweepKeep(p) ==
  /\ pc = "sweep" /\ p \in unswept
  /\ Processes[p].timestamp >= Session.timestamp
  /\ unswept' = unswept \ {p}
  /\ UNCHANGED <<running, sessions, pc, cmd, pids, response, enumerated, view>>

(* Mutant: the sweep looks at the process and not at when it was seen.     *)
SweepEraseDead(p) ==
  /\ pc = "sweep" /\ p \in unswept
  /\ ~Processes[p].valid
  /\ SetSession(cmd.session,
                [Session EXCEPT
                   !.processes = Restrict(Processes, DOMAIN Processes \ {p}),
                   !.removedPids = @ \cup {p}])
  /\ unswept' = unswept \ {p}
  /\ UNCHANGED <<running, pc, cmd, pids, response, enumerated, view>>

(* The iterator is advanced after the element it points to was erased: the *)
(* freed node may still lead to the next one, seem to be the last one, or  *)
(* bring the program down.                                                 *)
SweepErase(p) ==
  /\ pc = "sweep" /\ p \in unswept
  /\ Processes[p].timestamp < Session.timestamp
  /\ SetSession(cmd.session,
                [Session EXCEPT
                   !.processes = Restrict(Processes, DOMAIN Processes \ {p}),
                   !.removedPids = @ \cup {p}])
  /\ \/ pc' = pc /\ unswept' = unswept \ {p}
     \/ pc' = pc /\ unswept' = {}
     \/ pc' = "crashed" /\ unswept' = {}
  /\ UNCHANGED <<running, cmd, pids, response, enumerated, view>>

SweepDone ==
  /\ pc = "sweep" /\ unswept = {}
  /\ pc' = "respond"
  /\ UNCHANGED <<running, sessions, cmd, pids, unswept, response, enumerated, view>>

-----------------------------------------------------------------------------
(* The two bags of a response, under their keys and with their names.      *)
Listed ==
  [name |-> "process_list",
   items |-> [p \in DOMAIN Processes |->
                [newcomer |-> Processes[p].newcomer, valid |-> Processes[p].valid]]]

Deleted == [name |-> "process_list", items |-> Session.removedPids]

Respond ==
  /\ pc = "respond"
  /\ response' = [k \in {"process_list"} \cup
                        (IF cmd.initial THEN {} ELSE {"deleted_process_list"}) |->
                    IF k = "process_list" THEN Listed ELSE Deleted]
  /\ view' = [view EXCEPT ![cmd.session] =
                IF cmd.initial THEN DOMAIN Processes
                ELSE (@ \cup DOMAIN Processes) \ Session.removedPids]
  /\ pc' = "idle"
  /\ UNCHANGED <<running, sessions, cmd, pids, unswept, enumerated>>

Next ==
  \/ \E p \in Pids : Spawn(p) \/ Exit(p)
  \/ \E s \in SessionIds : StartSession(s) \/ EndSession(s)
  \/ \E s \in SessionIds, initial \in BOOLEAN : Begin(s, initial)
  \/ Enumerate
  \/ \E p \in Pids : Read(p) \/ SweepKeep(p) \/ SweepErase(p)
  \/ ReadDone \/ SweepDone \/ Respond

Spec == Init /\ [][Next]_vars

-----------------------------------------------------------------------------
Time == 0..(TimeRange - 1)
Info == [timestamp : Time, newcomer : BOOLEAN, valid : BOOLEAN]
SessionOK(s) ==
  /\ s \in [timestamp : Time, processes : [DOMAIN s.processes -> Info],
            removedPids : SUBSET Pids]
  /\ DOMAIN s.processes \subseteq Pids

(* The sessions are well formed, and a request works on one of them.       *)
TypeOK ==
  /\ running \subseteq Pids
  /\ DOMAIN sessions \subseteq SessionIds
  /\ \A s \in DOMAIN sessions : SessionOK(sessions[s])
  /\ pc \in {"idle", "enumerate", "read", "sweep", "respond", "crashed"}
  /\ cmd \in [session : SessionIds, initial : BOOLEAN]
  /\ pc # "idle" => cmd.session \in DOMAIN sessions
  /\ pids \subseteq Pids
  /\ pc = "sweep" => unswept \subseteq DOMAIN Processes
  /\ enumerated \subseteq Pids
  /\ view \in [SessionIds -> SUBSET Pids]

Quiet(s) == pc = "idle" \/ s # cmd.session

(* A client that keeps the pids listed and drops the pids deleted knows    *)
(* exactly the processes the session holds: no process disappears without  *)
(* being reported, and none is reported deleted and listed again, whatever *)
(* starts and exits while /proc is read (processmanager.cxx:94-179).       *)
ClientIsInSync ==
  \A s \in DOMAIN sessions :
    Quiet(s) => view[s] = DOMAIN sessions[s].processes

(* A diff marks a process it found as new exactly when the client does not *)
(* know of it (processmanager.cxx:144-157, 198-201).                       *)
NewcomersAreNew ==
  [][ pc = "respond" /\ pc' = "idle" /\ ~cmd.initial =>
        \A p \in enumerated :
          response'["process_list"].items[p].newcomer <=> p \notin view[cmd.session]
    ]_vars

(* A pid is reported deleted only when the request did not find it, even   *)
(* when it could not be read (processmanager.cxx:165-178).                 *)
DeletedWereNotFound ==
  "deleted_process_list" \in DOMAIN response /\ pc = "idle" =>
    response["deleted_process_list"].items \cap enumerated = {}

(* What the client of each session is told keeps the promise of            *)
(* ProcessLists, over any number of requests: every list has all that was  *)
(* found, every process it knew is listed or reported deleted and not      *)
(* both, and what stays of one that was not found it knew of before        *)
(* (processmanager.cxx:94-179).                                            *)
Told(key) == IF key \in DOMAIN response THEN response[key].items ELSE {}
List == IF response = NoResponse THEN NoProcesses ELSE Told("process_list")

Lists == INSTANCE ProcessLists WITH
  open <- DOMAIN sessions,
  known <- view,
  answer <- [listed |-> DOMAIN List,
             newcomers |-> {p \in DOMAIN List : List[p].newcomer},
             deleted |-> Told("deleted_process_list")]

ImplementsLists == Lists!Spec

(* "detect deleted processes" (processmanager.cxx:167): what a diff lists, *)
(* it found in /proc.                                                      *)
DiffListsOnlyFound ==
  pc = "respond" /\ ~cmd.initial => DOMAIN Processes \subseteq enumerated

(* assert(prop.first == prop.second->name()) (propertybag.cxx:360): a bag  *)
(* in a table has the name of its key.                                     *)
BagsHaveTheirKeysNames == \A k \in DOMAIN response : response[k].name = k
=============================================================================
