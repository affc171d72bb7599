-------------------------- MODULE RequestProcessor --------------------------
(***************************************************************************)
(* RequestProcessor::process(): one request after the other, from the text *)
(* SessionHandler hands over to the text of the response, with what the    *)
(* two command handlers put into it.  The main thread may unregister a     *)
(* handler and end the session of the request between any two steps; the   *)
(* handlers are called under m_mutex.  The exit condition and the other    *)
(* sessions are in ServerMain, the processes listed in ProcessManager.     *)
(*                                                                         *)
(* Exceptions are caught in process(), but not those of an accessor that   *)
(* is noexcept: they end the program, as assertions do in builds that have *)
(* them, and as the iterator of an erased process may.                     *)
(***************************************************************************)
EXTENDS PropertyBag

CONSTANTS
  Requests,  \* JSON documents, or NotJson for a text that is not JSON
  NotJson,
  Infos,     \* what may be known of a process
  Listings,  \* what ProcessManager may find
  NoId       \* stands for the absence of a member

VARIABLES
  asserts,   \* is the build one with assertions?
  pc,        \* where the request is
  request,   \* the request
  handlers,  \* m_handlers: the commands that have a handler
  known,     \* does the process manager know the session of the request?
  bag,       \* parsedRequest
  id,        \* requestId
  key,       \* the command
  listed,    \* what ProcessManager finds: the processes, and the pids gone
  response,  \* the bag of the response
  out        \* the JSON that is returned

ASSUME RequestsAssumption ==
  /\ Requests \subseteq Json \cup {NotJson}
  /\ NotJson \notin Json
  /\ NoId \notin Json

ASSUME ListingsAssumption ==
  /\ Infos \subseteq [pid : Int, newcomer : BOOLEAN, valid : BOOLEAN, ruid : Int,
                      comm : Texts, exe : Texts, cmdLine : Texts]
  /\ Listings \subseteq [processes : Seq(Infos), removed : Seq(Int)]

(* The properties that are registered, by type.  The ids of the parent,    *)
(* the group, the session and the terminal are left out.                   *)
IntProperties == {"request.id", "process.pid"}
TextProperties ==
  {"request.request", "response.status", "response.reason",
   "response.srv_version", "process.error", "process.comm",
   "process.stat_comm", "process.exe", "process.cmdline"}
ArrayProperties == {"process.process_list", "process.deleted_process_list"}
KnownProperties == IntProperties \cup TextProperties \cup ArrayProperties

(* Responses have these as well.                                           *)
OtherProperties == {"process.ruid", "process.newcomer"}

ASSUME PropertiesAssumption ==
  /\ KnownProperties \subseteq DOMAIN Registry
  /\ \A n \in IntProperties : Registry[n].type = "int"
  /\ \A n \in TextProperties : Registry[n].type = "string"
  /\ \A n \in ArrayProperties : Registry[n].type = "array"
  /\ OtherProperties \cap DOMAIN Registry = {}
  /\ KnownProperties \cup OtherProperties \subseteq Names \ DOMAIN CutKeys

ASSUME TextsAssumption ==
  {"success", "fail", "exception", "Not a JSON object", "Unsupported request",
   "Ill-formed request", "v", "not read"} \subseteq Texts

(* A response is a table with an array of tables of properties.            *)
ASSUME ResponseDepthAssumption == MaxDepth >= 4

vars ==
  <<asserts, pc, request, handlers, known, bag, id, key, listed, response, out>>

GlobalCommands == {"stop", "version"}
ProcessCommands == {"list_processes", "diff_processes"}

-----------------------------------------------------------------------------
(* Building responses.                                                     *)

(* insert(): what is in a table already stays.                             *)
AddToTable(table, key_, item) ==
  [table EXCEPT ![2] = [k \in Names |->
     IF k = key_ /\ ~Full(Body(table)[k]) THEN item ELSE Body(table)[k]]]

Text(s) == <<"string", s>>
Number(n) == <<IF n < 0 THEN "negative" ELSE "int", n>>

AddProperty(table, name, type, scalar) ==
  AddToTable(table, name, Bag(name, "property", <<type, scalar>>))

AddText(table, name, text) == AddProperty(table, name, "string", Text(text))
AddInt(table, name, n) == AddProperty(table, name, "int", Number(n))

AddIf(condition, table, name, text) ==
  IF condition THEN AddText(table, name, text) ELSE table

NewTable == Bag("", "table", [k \in Names |-> NoBag])

Succeeded(table) ==
  AddText(AddInt(table, "request.id", id), "response.status", "success")

FailJson(id_, reason) ==
  Object(<< <<"request.id", <<"scalar", Number(id_)>> >>,
            <<"response.status", <<"scalar", Text("fail")>> >>,
            <<"response.reason", <<"scalar", Text(reason)>> >> >>)

(* ProcessInfo::serialize(): the ids of the parent, the group, the session *)
(* and the terminal are told like the user's.                              *)
Serialized(info) ==
  LET pid == AddInt(NewTable, "process.pid", info.pid)
      new == IF info.newcomer
             THEN AddProperty(pid, "process.newcomer", "bool", <<"bool", "true">>)
             ELSE pid
      ids == AddText(AddInt(new, "process.ruid", info.ruid),
                     "process.comm", info.comm)
      comm == AddIf(info.comm # "", ids, "process.stat_comm", info.comm)
      exe == AddIf(info.exe # "", comm, "process.exe", info.exe)
  IN  IF info.valid
      THEN AddIf(info.cmdLine # "", exe, "process.cmdline", info.cmdLine)
      ELSE AddText(new, "process.error", "not read")

(* The array of the pids that are gone has the name of the other one.      *)
ProcessLists ==
  LET list == Bag("process.process_list", "array",
                  [i \in DOMAIN listed.processes |->
                     Serialized(listed.processes[i])])
      gone == Bag("process.process_list", "array",
                  [i \in DOMAIN listed.removed |->
                     Bag("", "property", <<"int", Number(listed.removed[i])>>)])
      table == AddToTable(NewTable, "process.process_list", list)
  IN  IF key = "diff_processes"
      THEN AddToTable(table, "process.deleted_process_list", gone)
      ELSE table

Handled ==
  CASE key = "stop" -> Succeeded(NewTable)
    [] key = "version" ->
         AddText(Succeeded(NewTable), "response.srv_version", "v")
    [] OTHER -> Succeeded(ProcessLists)

-----------------------------------------------------------------------------
NothingListed == [processes |-> << >>, removed |-> << >>]

Init ==
  /\ asserts \in BOOLEAN
  /\ handlers = GlobalCommands \cup ProcessCommands
  /\ known = TRUE
  /\ pc = "idle"
  /\ request = NotJson
  /\ bag = NoBag /\ id = 0 /\ key = ""
  /\ listed = NothingListed
  /\ response = NewTable
  /\ out = Nothing

(* ~ProcessManager() and then ~GlobalCmdHandler() in the main thread.      *)
Unregister ==
  /\ pc # "terminated"
  /\ \E c \in handlers :
       /\ c \in GlobalCommands => handlers \cap ProcessCommands = {}
       /\ handlers' = handlers \ {c}
  /\ UNCHANGED <<asserts, pc, request, known, bag, id, key, listed, response, out>>

(* ~SessionHandler in the main thread, which tells the handlers there are. *)
EndSession ==
  /\ pc # "terminated"
  /\ known /\ handlers \cap ProcessCommands # {}
  /\ known' = FALSE
  /\ UNCHANGED <<asserts, pc, request, handlers, bag, id, key, listed, response, out>>

(* A request comes from a session that has been started.                   *)
Receive(r) ==
  /\ pc = "idle"
  /\ request' = r
  /\ pc' = "parse"
  /\ known' = TRUE
  /\ UNCHANGED <<asserts, handlers, bag, id, key, listed, response, out>>

Fail(id_, reason) ==
  /\ out' = FailJson(id_, reason)
  /\ pc' = "answered"

(* The handler of std::exception.                                          *)
Throw == Fail(0, "exception")

(* An exception leaves a noexcept function, or an assertion fails.         *)
Terminate == pc' = "terminated" /\ out' = out

Frame == <<asserts, request, handlers, known, response>>

Local == <<Frame, listed>>

Parse ==
  /\ pc = "parse"
  /\ request # NotJson
  /\ bag' = FromJson[<<"", request>>]
  /\ IF Kind(bag') = "table" THEN pc' = "id" /\ out' = out
                            ELSE Fail(0, "Not a JSON object")
  /\ UNCHANGED <<Local, id, key>>

ParseThrows ==
  /\ pc = "parse"
  /\ request = NotJson
  /\ Throw
  /\ UNCHANGED <<Local, bag, id, key>>

Has(name) == Full(Body(bag)[name])
HoldsProperty(name) == Kind(Body(bag)[name]) = "property"
Holds(name, type) == Body(Body(bag)[name]) # NoValue /\ Body(Body(bag)[name])[1] = type

ReadId ==
  /\ pc = "id"
  /\ \/ /\ ~Has("request.id")
        /\ pc' = "command"
        /\ UNCHANGED <<id, out>>
     \/ /\ Has("request.id") /\ ~HoldsProperty("request.id")
        /\ Terminate
        /\ id' = id
     \/ /\ Has("request.id") /\ HoldsProperty("request.id")
        /\ IF Holds("request.id", "int")
           THEN /\ id' = Body(Body(bag)["request.id"])[2][2]
                /\ pc' = "command"
                /\ out' = out
           ELSE Throw /\ id' = id
  /\ UNCHANGED <<Local, bag, key>>

(* Mutant: the command is taken without a look at what kind of value it is.*)
FindCommandUnchecked ==
  /\ pc = "command"
  /\ \/ /\ ~Has("request.request")
        /\ Fail(id, "Unsupported request")
        /\ key' = key
     \/ /\ Has("request.request") /\ ~HoldsProperty("request.request")
        /\ Terminate
        /\ key' = key
     \/ /\ Has("request.request") /\ HoldsProperty("request.request")
        /\ IF Holds("request.request", "string")
           THEN /\ key' = Body(Body(bag)["request.request"])[2][2]
                /\ pc' = "handle"
                /\ out' = out
           ELSE Throw /\ key' = key
  /\ UNCHANGED <<Local, bag, id>>

FindCommand ==
  /\ pc = "command"
  /\ \/ /\ ~Has("request.request")
        /\ Fail(id, "Unsupported request")
        /\ key' = key
     \/ /\ Has("request.request") /\ ~HoldsProperty("request.request")
        /\ Fail(id, "Ill-formed request")
        /\ key' = key
     \/ /\ Has("request.request") /\ HoldsProperty("request.request")
        /\ IF Holds("request.request", "string")
           THEN /\ key' = Body(Body(bag)["request.request"])[2][2]
                /\ pc' = "handle"
                /\ out' = out
           ELSE Throw /\ key' = key
  /\ UNCHANGED <<Local, bag, id>>

(* The handler succeeds: GlobalCmdHandler always does, ProcessManager for  *)
(* a session it knows.                                                     *)
Handle ==
  /\ pc = "handle"
  /\ key \in handlers
  /\ key \in ProcessCommands => known
  /\ listed' \in IF key \in ProcessCommands THEN Listings ELSE {listed}
  /\ key # "diff_processes" => listed'.removed = << >>
  /\ pc' = "respond"
  /\ UNCHANGED <<Frame, bag, id, key, out>>

(* ProcessManager::process() of a session that was ended: an assertion, or *)
(* a handler that returns false.                                           *)
HandleEnded ==
  /\ pc = "handle"
  /\ key \in handlers \cap ProcessCommands
  /\ ~known
  /\ IF asserts THEN Terminate ELSE Fail(id, "Unsupported request")
  /\ UNCHANGED <<Local, bag, id, key>>

(* The sweep advances an iterator to a process it has erased.  Handle has  *)
(* the outcomes that are no crash.                                         *)
SweepCrashes ==
  /\ pc = "handle"
  /\ key = "diff_processes" /\ key \in handlers
  /\ known
  /\ listed' \in {l \in Listings : l.removed # << >>}
  /\ Terminate
  /\ UNCHANGED <<Frame, bag, id, key>>

(* Mutant: the answer to an unknown command forgets the id.                *)
NoHandlerForgetful ==
  /\ pc = "handle"
  /\ key \notin handlers
  /\ Fail(0, "Unsupported request")
  /\ UNCHANGED <<Local, bag, id, key>>

NoHandler ==
  /\ pc = "handle"
  /\ key \notin handlers
  /\ Fail(id, "Unsupported request")
  /\ UNCHANGED <<Local, bag, id, key>>

Respond ==
  /\ pc = "respond"
  /\ response' = Handled
  /\ IF asserts /\ ~NamedByKeys(response')
     THEN Terminate
     ELSE IF HasValues(response')
          THEN out' = ToJson[response'] /\ pc' = "answered"
          ELSE Throw
  /\ UNCHANGED <<asserts, request, handlers, known, bag, id, key, listed>>

(* The response is on its way to the client, and what process() had is gone.*)
Return ==
  /\ pc = "answered"
  /\ pc' = "idle"
  /\ request' = NotJson
  /\ bag' = NoBag /\ id' = 0 /\ key' = ""
  /\ listed' = NothingListed
  /\ response' = NewTable
  /\ out' = Nothing
  /\ UNCHANGED <<asserts, handlers, known>>

Next ==
  \/ Unregister \/ EndSession
  \/ \E r \in Requests : Receive(r)
  \/ Parse \/ ParseThrows \/ ReadId \/ FindCommand
  \/ Handle \/ HandleEnded \/ SweepCrashes \/ NoHandler \/ Respond \/ Return

Spec == Init /\ [][Next]_vars

-----------------------------------------------------------------------------
(* What the client sent and got, read off the two documents: the first of  *)
(* the members with a key counts.                                          *)
FirstOf(v, key_) ==
  LET at == {i \in DOMAIN Body(v) : Body(v)[i][1] = key_}
  IN  Body(v)[CHOOSE i \in at : \A j \in at : i <= j][2]

Sent(name) ==
  IF request # NotJson /\ Kind(request) = "object" /\ name \in Keys(request)
  THEN FirstOf(request, name) ELSE NoId

Got(name) == Body(FirstOf(out, name))[2]

IsString(v) == v # NoId /\ Kind(v) = "scalar" /\ Body(v)[1] = "string"
IsInt(v) == v # NoId /\ Kind(v) = "scalar" /\ Body(v)[1] \in {"int", "negative"}

SentId == IF IsInt(Sent("request.id")) THEN Body(Sent("request.id"))[2] ELSE 0

(* The client can match the answer: it carries the id of the request.  The *)
(* exception is a command that is a scalar and not a string: process()     *)
(* answers what throws with the id 0.                                      *)
AnswerIsMatched ==
  pc = "answered" =>
    /\ out \in Json /\ Keyed[out]
    /\ Got("request.id") \in {0, SentId}
    /\ \/ Got("request.id") = SentId
       \/ /\ Sent("request.request") # NoId
          /\ Kind(Sent("request.request")) = "scalar"
          /\ ~IsString(Sent("request.request"))

(* A command succeeds if it was asked for as a string in an object whose   *)
(* id, if any, is an int, and it is one of the four.  It does not fail if  *)
(* its handler is still there and, for a command of ProcessManager, the    *)
(* session still known to it.  A success tells every process listed.       *)
AnswerTellsOutcome ==
  pc = "answered" =>
    LET id_ == Sent("request.id")
        proper == /\ IsString(Sent("request.request"))
                  /\ id_ = NoId \/ IsInt(id_)
        asked == Body(Sent("request.request"))[2]
    IN  /\ Got("response.status") \in {"success", "fail"}
        /\ Got("response.status") = "success" =>
             proper /\ asked \in GlobalCommands \cup ProcessCommands
        /\ Got("response.status") = "fail" =>
             ~(proper /\ asked \in handlers /\ (asked \in ProcessCommands => known))
        /\ Got("response.status") = "success" /\ asked = "list_processes" =>
             LET told == Body(FirstOf(out, "process.process_list"))
             IN  /\ Len(told) = Len(listed.processes)
                 /\ \A i \in DOMAIN told :
                      /\ Body(FirstOf(told[i], "process.pid"))[2] = listed.processes[i].pid
                      /\ listed.processes[i].newcomer
                           = ("process.newcomer" \in Keys(told[i]))
                      /\ listed.processes[i].valid
                           = ("process.error" \notin Keys(told[i]))

(* A bag says what a value says, but for scalars whose property is not     *)
(* registered or has another type, and for what an array cannot hold.      *)
SaysWhat(agrees, v, b) ==
  CASE Kind(v) = "object" ->
         /\ Kind(b) = "table"
         /\ \A k \in Names : Full(Body(b)[k]) <=> k \in Keys(v)
         /\ \A k \in Keys(v) : agrees[<<FirstOf(v, k), Body(b)[k]>>]
    [] Kind(v) = "array" ->
         /\ Kind(b) = "array"
         /\ Body(b) = << >> \/ Len(Body(b)) = Len(Body(v))
         /\ \A i \in DOMAIN Body(b) :
              Full(Body(b)[i]) => agrees[<<Body(v)[i], Body(b)[i]>>]
    [] OTHER ->
         /\ Kind(b) = "property"
         /\ Body(b) = NoValue \/ Body(b)[2] = Body(v)

Agrees[p \in Json \X Bags] == SaysWhat(Agrees, p[1], p[2])

(* Every property has a value, and no item of an array is missing.         *)
Whole(b) ==
  /\ HasValues(b)
  /\ \A p \in Parts[b] : Kind(p) = "array" => \A i \in DOMAIN Body(p) : Full(Body(p)[i])

(* A handler gets the request the client sent: its members and items at    *)
(* their places, the first of those with equal keys, and nothing missing   *)
(* that the error handler was not told of.                                 *)
HandlersGetTheRequest ==
  pc \in {"id", "command", "handle", "respond"} =>
    /\ Agrees[<<request, bag>>]
    /\ ~HasErrors[<<"", request>>] => Whole(bag)

(* The bag, without the values of properties that are not registered.      *)
OnlyRegistered(registered, b) ==
  IF Kind(b) \in {"array", "table"}
  THEN [b EXCEPT ![2] = [k \in DOMAIN Body(b) |-> registered[Body(b)[k]]]]
  ELSE IF Name(b) \in DOMAIN Registry \cup {""} THEN b
       ELSE [b EXCEPT ![2] = NoValue]

Registered[b \in Bags] == OnlyRegistered(Registered, b)

(* A client that reads an answer with propertyBagFromJson() gets the bag   *)
(* the handlers filled, but for the properties processprops.cxx does not   *)
(* register (the user id and the newcomer mark).                           *)
AnswerIsReadBack ==
  /\ pc = "answered"
  /\ Got("response.status") = "success"
  /\ NamedByKeys(response)
  => FromJson[<<"", out>>] = Registered[response]

(* A request ends the server by one of four faults: its id is an object or *)
(* an array, which a noexcept accessor throws at; with assertions, it is a *)
(* diff_processes, whose second array has the name of the first, or a list *)
(* or diff of a session that was ended meanwhile; and it is a              *)
(* diff_processes that finds a process gone, by the erased iterator.       *)
OnlyFaultsTerminate ==
  pc = "terminated" =>
    \/ Sent("request.id") # NoId /\ Kind(Sent("request.id")) # "scalar"
    \/ asserts /\ key = "diff_processes"
    \/ asserts /\ key \in ProcessCommands /\ ~known
    \/ key = "diff_processes" /\ listed.removed # << >>
=============================================================================
