# Specifications of kexplorer-server

This directory holds TLA+ specifications of kexplorer-server, a daemon that
answers questions about the processes of a machine over TCP, of its library
`kesrv` and of its command line client `kesctl`. TLC checks them on small
instances; TLAPS proves some of their theorems for every instance.

    tlc -config ContinuousBuffer.cfg ContinuousBuffer.tla
    tlc -config TcpServer.cfg MCTcpServer.tla
    tlapm SessionHandlerProofs.tla

`PROJECT.json` names the module of each configuration: it is the `MC` module
where there is one.

Paths below are relative to the repository: `K/` is `src/kexplorer-server/`,
`V/` is `src/kesrv/`, `I/` is `include/kesrv/`.

## The system

| component | state | operations | talks to |
|---|---|---|---|
| `ContinuousBuffer` (`I/util/continuousbuffer.hxx`) | a vector, the start and the length of its content | push, pop, reset, data, used | used by `SessionHandler` and `kesctl` |
| `SessionHandler` (`K/sessionhandler.cxx`) | a buffer, the depth of braces and its maximum | process a chunk | called by a session of `TcpServer`; calls `RequestProcessor` |
| `RequestProcessor` (`K/requestprocessor.cxx`) | handlers by command, under a mutex | process, register, unregister, start and end a session | calls the command handlers with the mutex held |
| `GlobalCmdHandler` (`K/globalcmdhandler.cxx`) | none of its own | stop, version | sets the exit `Condition` |
| `ProcessManager` (`V/processmgr/processmanager.cxx`) | for each session: timestamp, processes, removed pids; a mutex | list_processes, diff_processes, start and end a session | reads `ProcFs` |
| `ProcFs` (`V/processmgr/procfs.cxx`) | none | enumerate pids, read a process | /proc, which changes all the time |
| `TcpServer` (`K/tcpserver.hxx`) | acceptor, retry timer, sessions; per session a double buffer, a read and any number of writes outstanding | accept, read, write, close | owns the session handlers |
| `main`, `IoRunner`, `Condition` (`K/main.cxx`, `K/iorunner.hxx`, `I/condition.hxx`) | the objects on the stack of `main`, the I/O thread, a flag | start, wait, stop | everything |
| `PropertyBag` and JSON (`V/propertybag.cxx`, `V/knownprops.cxx`) | the registry of properties | convert both ways | `RequestProcessor` |
| `kesctl` (`src/kesctl`) | a buffer, a socket | send a command, read the response | the server |
| `Logger` (`K/logger.cxx`) | a file and its lock | open and lock, write a line | everything; other servers on the machine, by the lock |
| `NetUtil`, strings, exceptions | none | split an address, format | everything |

One thread runs all handlers of the I/O context (`K/main.cxx:148`); the thread
of `main` constructs and destroys. They share the request processor's mutex,
the condition, the I/O context and, on the way out, everything else.

What is hard in this code:

* framing: a request ends where the count of braces returns to zero, over
  chunks of any size, in a buffer that is parsed in place and moved;
* change: processes start and exit between any two reads of /proc, and the
  diffs a client receives must still add up;
* lifetime: completion handlers hold raw pointers, and `io.stop()` does not
  wait for the handler that runs when `main` starts destroying its objects;
* buffers shared by an outstanding read and the chunk being processed, and
  buffers of responses that are freed while they are written;
* failure: accepts that fail, clients that vanish, exceptions out of functions
  that are declared not to throw.

`PROJECT.json` lists these hazards at their lines with the properties that
would show them going wrong.

## The modules

### The buffer

`ContinuousBufferOps` has the operations of the buffer as operators on a record
(cells, start, used, cap). `push` may move the content to the front
(`ToFront`), grow the vector (`Resize`) and copy the chunk (`CopyIn`); `Fits`
is the comparison of `space()`. A push beyond the limit is refused, but only
after the content has been moved, as in the code. `ContinuousBuffer` makes them
actions with any chunk and any count, and `BoundedQueue` says what it promises:
a queue of at most max(size, limit) bytes. `ContinuousBuffer.cfg` has three
letters, an initial size of 3 and a limit of 4, so that moving, growing and
refusing all occur and combine; the content is compared cell by cell.

### Framing

`SessionHandler` has an action for every turn of the scan loop and every
straight part of `process()`. `MessageFramer` is the abstract specification: it
keeps the bytes not yet handed over, and looks at them as a whole to say
whether a chunk completes a request, leaves one pending, or must be refused. Its
refinement (`ImplementsFramer`) says that resuming the scan, counting in
`m_jsonDepthMax` and popping the request with its terminator come to the same as
counting anew. `SessionHandler.cfg` has size 2 and limit 4 and chunks of up to
three bytes, opening, closing or other: every stream of that shape is tried.
What parsing in place leaves behind is a byte of its own (`Junk`), so that any
of it in a later request would be seen. Size and limit differ here, in
`K/main.cxx:179-180` they are both 65536; the difference only adds growth.

A request is the bytes up to the end of the chunk in which the count returns to
zero. Two requests in one chunk are one for the code, and for the model.
Braces inside JSON strings count too.

### Requests and their JSON

`PropertyBag` has the two conversions as recursive functions: `FromJson` builds
a tree of named bags along the registry of properties, `ToJson` writes one. JSON
values (`Json`) and bags (`Bags`) are sets of nested tuples, of a depth of
`MaxDepth` at most; each function has a step (`BagFromJson`, `BagToJson`) which
takes the function it is applied to the parts of a value with. The rest of the
recursions are `HasErrors` (is the error handler called?), `Parts` (a bag and
all that is in it) and `Keyed`. They follow the code into its corners: the first of equal keys wins, a property that
is not registered or has another type is kept without a value, the items of an
array that cannot be held are dropped, a key with a NUL is cut when it becomes
a name. Scalars are classes (the ones rapidjson's `Is...()` tell apart), with a
number for those of numbers; names and texts are compared and never taken apart,
and come from the sets `Names` and `Texts`.

`RequestProcessor` is `process()` in steps, from the text of a request to that
of its response. The names and types of the properties are those that
`V/processmgr/processprops.cxx` and `V/util/requestutil.cxx` register
(`PropertiesAssumption`); the user id and the newcomer mark have a type and are
not registered. Between any two steps the command handlers may be unregistered,
in the order in which `main` destroys them, and the session of the request may
be ended (`EndSession`). `ProcessManager::process()` then fails an assertion, or
returns false and the client is told "Unsupported request" (`HandleEnded`). A
diff that finds a process gone may crash on its erased iterator
(`SweepCrashes`), or list as `Handle` does. An exception is answered with
the id 0, as the handler of `std::exception` does; one that leaves a `noexcept`
accessor ends the program, and so does a failed assertion in a build that has
them. `OnlyFaultsTerminate` lists the four faults by which a request ends the
server; it does not say that they are wanted. What the process manager lists is any list of at most one process and at
most one pid that is gone in the run, and any list in the proofs: how the list
comes about is `ProcessManager`'s.

`MCRequestProcessor` gives all requests of up to two members, in any order and
with equal keys, over ids and commands of every kind, members of nested arrays
and objects, and documents that are no object. Two members are what the
processor looks at; every rule of the conversion has a member that exercises it.
Ids are numbers of either sign; texts are any strings (`TestTexts`). Values are
at most four deep (`MaxDepth`), as deep as a list of processes that have
properties is, and requests are three deep. The server is asked one request
after the other and its response is forgotten, hence no counter to bound. `CHECK_DEADLOCK FALSE`, since the program may end.

### Processes

`ProcessManager` models a request as a sequence of steps: `Begin` (the
timestamp, the cleared lists), `Enumerate`, a `Read` of each pid, the sweep and
`Respond`. The operating system (`Spawn`, `Exit`) acts between any two of them,
and gives a pid of the past to a new process. `m_mutex` is held all along, so
sessions start and end only at rest. Enumeration takes a snapshot of /proc or
finds nothing, as when `opendir` fails; the four reads of one process are one
step. The sweep erases the element its iterator points to and then advances the
iterator: `SweepErase` continues, ends the sweep or crashes, which are the
outcomes a build may have. A behaviour that crashed stops, hence
`CHECK_DEADLOCK FALSE`.

`view` is a history variable: what the client of each session knows from the
responses. `ClientIsInSync` says that it is what the session holds.

The timestamp of a session is counted modulo `TimeRange`, which is 2^32 in the
code. The run has 3, so that it wraps at every third request with ordinary steps
between, and no other bound: any number of requests and of births, over two
pids and two sessions. A pid is used again, a process is deleted and comes back,
a diff is made after a diff that deleted something. What is gone at a wrap looks
newer than the request and stays listed; so may what the sweep passed over
because of its iterator. The proofs take any range.

`ProcessLists` is what a client can rely on, without timestamps, sweeps or
steps: an answer at a time. A list holds what was found. A diff holds what was
found, and of what was known and not found a part that is kept for another while,
because the sweep of the code may leave it, for the iterator or the wrap; the
rest is deleted. Newcomers are what
was found and not known. In `ImplementsLists` the sessions that are open, the
views and the response are mapped to `open`, `known` and `answer`, and every
step inside a request is a stutter.

`ProcFs` looks into the reading of one process, call by call: `stat64` of the
directory, `open` and `read` of `stat`, `comm` and `cmdline`, `lstat` and
`readlink` of `exe`. Between any two calls the process may exit, another start
under its pid, or execute another program. A file that is open stays that of its
process and reads empty when the process is gone. The parser of `readStat()` is
modelled turn by turn, since names with parentheses and spaces are the hard
part: `ParseCharacter` is a turn of its inner loop, with the jump to the last
parenthesis (`CloseAfter`), `ParseField` a turn of the outer one, which assigns
what the field tells (`WithField`), and `Parsed` its end. Offsets are those of
the code; pids, states and numbers are one character. All names of up to two of
the characters `(`, `)`, space and a letter, those of three that begin with `)`,
and one that imitates the end of a record are tried, with two programs under the
pid (`MaxLives`). Two are enough for every pair of calls to straddle a change; a
third program could only change again what has been read. The reading may end
with nothing left to happen: `CHECK_DEADLOCK FALSE`.

### The server

`TcpServer` has the accept loop, the retry timer and the sessions with their
outstanding reads and writes. A chunk is what one read returns. The operating
system fills the active half of the double buffer at any time while a read is
outstanding, also while the other half is processed. A handler of a destroyed
session finds a closed socket or crashes (`OrphanRead`, `OrphanWrite`).
`StreamIsIntact` relates what the session handler was given, what is in the
buffers and what the client sent.

Responses are counted in parts: `Size` gives the parts of the response to each
chunk, none for a chunk that completes no request, and `Room` what a socket
holds between the two ends. One attempt of `async_write` asks for at most
`Attempt` parts (65536 bytes in the library) and transfers what the socket has
room for (`Fitting`). `write()` makes the first attempt while the buffer of the
response is alive (`WriteAtOnce`), unless an earlier write of the session waits
for room. The lambda does not keep the buffer, so
that all later attempts (`WriteMore`) read freed memory; `intact` records which
of the two a part was read by. Such an attempt may also fail, when the memory
is gone (`OnWrite`). `wire` is what the socket has taken, in order, `received`
how much of that the client has. Writes that are outstanding together go on in
any order.

`patient` is a history variable: the clients that have sent a chunk only after
they had the responses to all earlier ones, as `kesctl` does. For them the writes
do what a reader of the code expects: responses come whole and in order
(`ResponsesComeWhole`), and one that fits both into the socket and into one
attempt is sent as it was made (`FittingResponsesAreIntact`). A larger one is
continued from freed memory even if the socket has room for it. For other clients two writes may be outstanding
at once, and parts of responses mix; the run includes them and neither property
speaks of them. What the code does not do, to send a response that does not
fit as it was made, is not claimed.

`MCTcpServer` has two clients with two chunks each and one failed accept: enough
for a swap in each direction, for a read completed during processing, and for a
failed start that removes the other session. The responses to one client have
two parts and one, with room for two and one to an attempt: the first fits into
the socket and takes two attempts, the second takes one and may be behind it.
The other client gets none. The behaviours end when the
clients have nothing left to do, hence `CHECK_DEADLOCK FALSE`.

Fairness: the I/O context runs ready handlers, the timer expires and the
operating system reports what a socket has received or that its peer is gone,
and takes more of a write when there is room (`WriteMore`). No client is obliged
to do anything, not even to read: that it does is a premise of
`ResponsesArrive`.

`ServerMain` has the two threads: `main`, object by object in the order of
construction and back, and the I/O thread, which handles signals, accepts,
requests and hangups in steps that end at a lock or at a change of what the
threads share. Before the first object of its `try` block `main` opens and locks
the log file (`OpenLog`); another server may hold that lock at the start, take
it and give it back at any time (`OtherServer`). The lock is released with the
logger, last of all. The use of an object whose life has ended is either a crash
or goes on with the memory as it was (`UsesTheDead`). The start of a session fails
when its client is gone already (`StartFails`); the id that `onAccept()` then
removes is read from an empty optional and may be that of another session, which
is destroyed while its read is outstanding (`RemoveAnother`), of one that failed
to start, or of none (`RemoveFailed`). So a session that failed to start stays in
the server, and the process manager never hears of it:
`ManagerKnowsTheSessions` says that the process manager knows the sessions of
the server that were started, no others, and the one whose request is in hand.
The read of a destroyed session completes (`BeginGone`) and finds nothing to
remove; that its memory may belong to a new session by then is left out.
`Asserts` says whether
assertions are compiled in, as in the default build. `Crash` ends both threads;
the model then stutters, so deadlock is checked. Fairness: both threads are
scheduled, and the handlers that are ready run in the order in which they became
ready, hence strong fairness of the signal's. Calls of `main` into the request
processor are one step when the mutex is free; `TcpServer::m_mutex` is left out,
since with one I/O thread it never has two contenders, and the destructor does
not take it.

### The client

`Kesctl` is the command line client: endpoints tried one by one, a command
written, the response read in pieces, the signals. Each piece is appended
(`Take`) and scanned byte by byte from the depths kept so far (`ScanByte`), as
in `process()`; then the client prints and ends, or reads on. It uses the buffer
as the queue that `ContinuousBuffer` was shown to implement. The server is its
environment: it answers or not, in any pieces, closes or resets. The response
may be refused for its length (`TooLong`) or its braces (`ScanThrows`).
`MCKesctl` has responses whose strings hold braces, one that is longer than the
limit of 7, and two endpoints. `~Client()` ends the program when the connection
was reset (`End`).

Fairness: the steps of the client, since its I/O context runs what is ready.
The server and the user owe nothing. Without a response and a signal the client
waits for ever, hence `CHECK_DEADLOCK FALSE`.

## What the runs show

| run | shows |
|---|---|
| `buffer` | the buffer is a bounded queue |
| `framing` | chunks are framed as counting over the whole stream says; depth and content stay in step |
| `framing_nul` | a request that fills the buffer to the limit is parsed without its terminator |
| `requests` | handlers get the request that was sent, clients get an answer that tells the outcome, carries their id and reads back as what was filled in; by which faults a request ends the server |
| `processes` | clients are kept in step by lists and diffs over any number of requests, wrapped timestamps included, newcomers are marked once, nothing that was found is reported deleted; the answers are those of `ProcessLists` |
| `processes_stale` | a diff may list a process that is gone |
| `processes_names` | each diff response breaks an assertion of the JSON writer |
| `procfs` | what is told of a process was true of one with its pid, and nothing is missing of one that was left alone |
| `server_life` | handlers outlive their requests, the process manager knows the sessions that were started, the thread is joined before what it uses goes, one server at most gets past its logger, a stop ends the process |
| `server_assert` | a request may reach the process manager after its session was ended |
| `sessions` | streams arrive intact; responses to clients that wait come whole, and intact when they fit into the socket and one attempt; clients are accepted after failures, hangups end sessions, responses arrive at clients that read |
| `kesctl` | responses are printed whole, however they are cut; nothing ends without a word; an answer ends the command |

The four runs that end in a violation show disagreements between the code and
what it says of itself: a comment, or an assertion. `PROJECT.json` quotes them
under "findings".

Each property of a passing run has a mutant, an operator beside the definition
it replaces, that changes the model as a slip in the code would and breaks the
property.

## What is proved

The proofs are for every value of the constants: any alphabet, size, limit,
length of chunks, set of pids, sessions or clients, JSON of any depth, with and
without assertions. They rest on the named assumptions of the modules (sizes are
naturals, model values differ, ids are none of the marks 0 and -1, the properties
the server registers are in the registry, there are finitely many names) and on
nothing else.

`SessionHandlerProofs` begins with the buffer: the content stays inside the
vector (`BufferTypeCorrect`), and the buffer implements `BoundedQueue`
(`BufferImplements`, `ImplementsQueueSpec`). `WellFormed` is inductive as it
stands. The refinement rests on three lemmas: a push that is not refused appends
(`PushAppends`), a pop drops (`PopDrops`), a reset empties (`ResetEmpties`).

It goes on to the session: the depth kept between calls is that of the bytes in the
buffer (`DepthMatches`), and the handler implements `MessageFramer`
(`Implements`). The framer counts a stream anew for every chunk and the handler
resumes, so the inductive invariant says what resuming relies on: no prefix of
what has been counted closes more than it opened (`NestedSoFar`), what is left
between calls is no complete request (`NotComplete`), the chunk in hand is the
end of the content and was sent by the client (`ChunkInHand`), and a request is
dispatched at depth zero (`Dispatched`). Counting is a cardinality; `CountNext`
and `DepthNext` say what one more byte does to it.

`RequestProcessorProofs`: the handlers get the request that was sent
(`RequestsReachHandlers`); the answer carries its id (`AnswersAreMatched`), tells
the outcome and all processes (`OutcomesAreTold`) and is read back as the bag the
handler filled (`AnswersAreReadBack`); and a request ends the server by four
faults only (`OnlyFaultsEnd`). Two arguments meet.

* The conversions, by induction over the depth of a value. That a recursive
  function has the value its definition gives it is `Exists` in `Recursion`, for
  any function whose value depends on values of smaller depth; `FromJson`,
  `ToJson`, `HasErrors`, `Parts`, `Keyed`, `Agrees`, `Registered` and the levels
  of `Json` and `Bags` are instances of it (the lemmas named `...Unfolds`). From
  them follow `RequestIsRead` (any bag that is read agrees with its JSON),
  `FineIsWritten` (a bag whose properties have the types of responses, whose
  arrays are registered and whose names are not cut is written as JSON a parser
  takes) and `WrittenIsReadBack` (and, if every bag is named like its key, read
  back). `HandledIs` shows that the handlers make such bags, whatever they list;
  the second array of `diff_processes` has the wrong name, and is shown to have
  it (`SecondListMisnamed`), which is why the assertion fails there and nowhere
  else.
* The steps of `process()`. The inductive invariant (`IInv`) keeps what each
  step has found: the bag is that of the request (`IsRead`), the id and the
  command are those of its first members of these names, by type (`IdIsRead`,
  `KeyIsRead`), and an answer is either that of the handler to a proper request
  or a failure with a reason for it (`IsAnswered`): the request is not proper, its
  handler is gone or its session was ended, and the id is that of the request unless the command is
  a scalar of the wrong type. The properties are not inductive by themselves:
  they compare an answer with a request that the last steps no longer look at.

`ProcessManagerProofs`: clients are in step with their sessions (`InSync`),
nothing that was found is reported deleted (`DeletionsAreTrue`), newcomers are
marked (`NewcomersAreMarked`). In the middle of a request the client knows
either what the session holds or what it is about to be told is gone
(`Partition`); a pid that has not been read is held exactly if the client knows
it (`Unread`); one that has been read is up to date (`WereRead`); only diffs
sweep (`SweepsDiffs`). This covers all outcomes of the sweep's iterator. The
same invariant gives `Implementation`, the refinement of `ProcessLists`: the step
that matters is `Respond`, where `Partition` says that what is left of the old
view is what is listed or deleted.

`ServerMainProofs`: a handler outlives the request it handles
(`HandlersOutlive`), the process manager knows exactly the sessions of a running
server that were started (`SessionsAreKnown`), the thread is joined before what it uses goes
(`ThreadJoined`), and one server at most is past its logger (`OnlyOneRuns`). The
invariant says what each thread may rely on in the other: when there is a thread
(`Threads`), which objects stand behind the registered commands (`Commands`),
and what holds while `main` constructs and waits (`Constructing`, `Waiting`).

`TcpServerProofs`: streams arrive intact (`StreamsArriveIntact`). What the
handler was given, what is in the two halves of the buffer and what is in the
socket make one sequence; reading, swapping and processing move a chunk from one
place to the next and leave the sequence alone (`Reading`, `Swapping`,
`Processing`). The invariant also bounds its length by what was sent, keeps
writes below the chunks processed, and keeps queued clients apart from those
that were started (`Queues`): otherwise an accept could overwrite a read. That
the chunk in process is the next one (`ChunkIsNext`) is a consequence, and gives
the types.

It goes on from there to the writes, for any sizes of responses and any room:
types (`TypeCorrect`), responses that come whole and in order
(`ResponsesAreWhole`), and intact when they fit (`FittingAreIntact`). For every
session the socket is not overfull (`RoomKept`) and holds parts of responses to
chunks that were processed (`PartsKnown`), of an outstanding write exactly the
first ones (`WritesCounted`), and all of a write that has ended (`WritesEnded`).
A patient client has received all responses but the last (`HasResponses`). So
nothing but that last one is in its socket, which is why what fits, into the
socket and into an attempt, is taken by the first attempt (`FittingTaken`): that ties the patience of the client to the
life of the buffer.

`KesctlProofs`: the client does not end without a response, a message or a
signal (`EndsAreExplained`), and prints a response whole, however it was cut
(`ResponsesArePrinted`). What was received, what arrives and what is unsent are
the response in order, but for what a reset lost (`Stream`); the depth is that
of the bytes counted (`Counts`); and nothing has been printed while the client
works (`Unprinted`). A response whose braces balance at its end only is then
printed there and nowhere before.

`ProcFsProofs`: what is told of a process was true (`ToldIsTrue`), and is
complete of one that was left alone (`UndisturbedAreComplete`), for names of any
characters, any arguments, and any order of system calls, exits, starts and
executions. What the parser does is an induction over its turns, which the
invariant makes: in the record of a process whose name has n characters it
stops at eleven places only (`Place`), and at each it has told the fields before
that place (`Upto`, `At`). That the name ends at the last parenthesis, wherever
others are in it, is `LastClose`; that it is cut out whole is `NameTold`. Around
the parser, what has been told is of some process seen since the read began
(`StatTold`, `OthersTold`), and if only one has been seen, of that one (`SoFar`),
or of none (`NothingSoFar`).

## What is only model-checked

Liveness under fairness (`StopEndsTheProcess`, `ClientsAreAccepted`,
`HangupIsNoticed`, `ResponsesArrive`, `AnswerEndsTheCommand`) is out of the
prover's reach. Every safety invariant, action property and refinement that a
passing run checks is proved.

The library's theorems on induction and on recursive functions take an operator
as a parameter, which the provers cannot instantiate; `Recursion` takes it as a
constant instead, which an instance of the module substitutes. `Texts` is a
constant for a similar reason: no backend proves that a string is in `STRING`.

## Plan

Done: all components but those below, with the conversions, the bytes of a
response through the writes of a session, the lock of the log file, the
refinements of the buffer, of the framer and of the process lists, and the safety
properties of `ProcessManager`, `ProcFs`, `ServerMain`, `TcpServer`, `Kesctl` and
`RequestProcessor` proved.

1. An exchange of `kesctl` with the server: requests, framing, the abort of a
   session and the stop of the server, composed from the abstract
   specifications (`MessageFramer`, `ProcessLists`, a queue for each direction).
2. Two I/O threads, which `IoRunner` allows and `main` does not use, and
   `TcpServer::m_mutex` with them.
3. What the properties of `RequestProcessor` leave open, as invariants of its
   own: the deleted list of `diff_processes`, and the texts of `list_processes`.

## Not modelled

* `NetUtil` (`V/util/netutil.cxx`): one conversion of one argument of the command
  line.
* Utilities: strings of fixed size, CRC-32, handles, the formatting of
  exceptions and messages. Values without state that others share.
* The command lines and `daemonize()`, which end before the first object exists.
* `3rd_party`: the vendored googletest and rapidjson are most of the lines of the
  tree, about 60,000 of 67,000. They are not this program's logic; what the code
  needs of rapidjson (its `Is...()` classes, the first of equal keys, parsing in
  place) is modelled where it is used. The tests are not modelled either.

Of what is modelled, these are left out: the contents of the log, and that a
server which does not get the lock has already truncated it; start times of
processes and the numbers of a stat record after the parent's pid; properties
of type double in the writer, which none is registered with; the bytes inside a
part of a response.
