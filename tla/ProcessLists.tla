---------------------------- MODULE ProcessLists ----------------------------
(***************************************************************************)
(* What ProcessManager promises the client of a session: an answer at a    *)
(* time, each of which lists the processes that were found, and after      *)
(* which the client knows exactly the processes of the last list.          *)
(***************************************************************************)
CONSTANTS
  Pids,       \* process ids
  SessionIds  \* session ids

VARIABLES
  open,   \* the sessions
  known,  \* the pids the client of each session knows of
  answer  \* the last answer, until the next request

vars == <<open, known, answer>>

NoAnswer == [listed |-> {}, newcomers |-> {}, deleted |-> {}]

Init ==
  /\ open = {}
  /\ known = [s \in SessionIds |-> {}]
  /\ answer = NoAnswer

Open(s) ==
  /\ s \notin open
  /\ open' = open \cup {s}
  /\ known' = [known EXCEPT ![s] = {}]
  /\ UNCHANGED answer

Close(s) ==
  /\ s \in open
  /\ open' = open \ {s}
  /\ UNCHANGED <<known, answer>>

Ask ==
  /\ answer' = NoAnswer
  /\ UNCHANGED <<open, known>>

Answer(s, listed, newcomers, deleted) ==
  /\ s \in open
  /\ known' = [known EXCEPT ![s] = listed]
  /\ answer' = [listed |-> listed, newcomers |-> newcomers, deleted |-> deleted]
  /\ UNCHANGED open

(* list_processes: no process is new to who knows none.                    *)
List(s, found) == Answer(s, found, {}, {})

(* diff_processes: of the processes that were known and not found, some    *)
(* may be listed for another while, with the mark they have.  The others   *)
(* are deleted; what was found and not known is new.                       *)
Diff(s, found, kept, marked) ==
  /\ kept \subseteq known[s] \ found /\ marked \subseteq kept
  /\ Answer(s, found \cup kept, (found \ known[s]) \cup marked,
            known[s] \ (found \cup kept))

Next ==
  \/ \E s \in SessionIds : Open(s) \/ Close(s)
  \/ Ask
  \/ \E s \in SessionIds, found \in SUBSET Pids : List(s, found)
  \/ \E s \in SessionIds, found, kept, marked \in SUBSET Pids :
       Diff(s, found, kept, marked)

Spec == Init /\ [][Next]_vars
=============================================================================
