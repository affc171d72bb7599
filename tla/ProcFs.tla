------------------------------- MODULE ProcFs -------------------------------
(***************************************************************************)
(* ProcessManager::readProcess() on one pid: readStat(), readComm(),       *)
(* readExePath() and readCmdLine() of ProcFs, system call by system call,  *)
(* while processes start, exit and execute other programs under that pid.  *)
(* The loop of readStat() over its record is modelled turn by turn.        *)
(*                                                                         *)
(* A record of /proc is a sequence of characters.  The pid, the state and  *)
(* the numbers after it are one character each; only the first of those    *)
(* numbers is kept, and tells which process the record is of.              *)
(***************************************************************************)
EXTENDS Integers, Sequences, FiniteSets

CONSTANTS
  Names,     \* the names processes may have, as sequences of characters
  Args,      \* the argument lists processes may have
  MaxLives   \* bounds the programs run under the pid (model checking only)

Character == UNION {{n[i] : i \in DOMAIN n} : n \in Names}

ASSUME ProcFsAssumption == MaxLives \in 1..9 /\ Names \subseteq Seq(Character)

VARIABLES
  os,     \* the program run under the pid, and the number of its process
  lives,  \* how many programs have run under the pid
  pc,     \* the next system call
  file,   \* the number of the process whose file is open, or 0
  line,   \* the record of the process, while it is parsed
  start, end, index,   \* where the parser is in it: two offsets and a field
  stat,   \* the Stat that readStat() returns
  comm, exe, cmdLine,  \* what the three others return
  seen    \* history: what has been under the pid since the read began

parser == <<line, start, end, index>>
told == <<stat, comm, exe, cmdLine>>
vars == <<os, lives, pc, file, parser, told, seen>>

Nobody == [process |-> 0, name |-> << >>, args |-> << >>]
Pid == "7"
Digit == <<"1", "2", "3", "4", "5", "6", "7", "8", "9">>

(* Names are without the end of a line, at which both readers stop.        *)
Record(p) == <<Pid, " ", "(">> \o p.name
             \o <<")", " ", "S", " ", Digit[p.process], " ", "0">>

-----------------------------------------------------------------------------
(* The parser of readStat().  Offsets are those of the code: the character *)
(* at an offset is the next one of the sequence.                           *)

(* Mutant: the name ends at the first parenthesis that closes (strchr).    *)
FirstCloseAfter(s, i) ==
  CHOOSE j \in i..Len(s) : s[j] = ")" /\ \A k \in i..(j - 1) : s[k] # ")"

(* The last parenthesis that closes; the kernel writes one in each record. *)
CloseAfter(s, i) ==
  CHOOSE j \in i..Len(s) : s[j] = ")" /\ \A k \in (j + 1)..Len(s) : s[k] # ")"

BlankStat == [valid |-> FALSE, pid |-> Pid, comm |-> << >>, state |-> "?", ppid |-> "-1"]

(* What the field between start and end tells.                             *)
WithField ==
  CASE index = 0 -> [stat EXCEPT !.pid = line[start + 1]]
    [] index = 1 /\ end > start + 3 -> [stat EXCEPT !.comm = SubSeq(line, start + 3, end - 1)]
    [] index = 2 -> [stat EXCEPT !.state = line[start + 2]]
    [] index = 3 -> [stat EXCEPT !.ppid = line[start + 2]]
    [] OTHER -> stat

-----------------------------------------------------------------------------
Init ==
  /\ os \in [process : {1}, name : Names, args : Args]
  /\ lives = 1
  /\ pc = "idle" /\ file = 0
  /\ line = << >> /\ start = 0 /\ end = 0 /\ index = 0
  /\ stat = BlankStat
  /\ comm = << >> /\ exe = << >> /\ cmdLine = << >>
  /\ seen = {}

env == <<os, lives, seen>>
local == <<file, parser, told>>

Exit ==
  /\ os.process # 0
  /\ os' = Nobody
  /\ seen' = seen \cup {Nobody}
  /\ UNCHANGED <<lives, pc, local>>

(* A process that is new, or the same one with another program.            *)
Run(process, name, args) ==
  /\ lives < MaxLives
  /\ lives' = lives + 1
  /\ os' = [process |-> process, name |-> name, args |-> args]
  /\ seen' = seen \cup {os'}
  /\ UNCHANGED <<pc, local>>

Spawn == os.process = 0 /\ \E n \in Names, a \in Args : Run(lives + 1, n, a)
Exec == os.process # 0 /\ \E n \in Names, a \in Args : Run(os.process, n, a)

Begin ==
  /\ pc = "idle"
  /\ seen' = {os}
  /\ stat' = BlankStat
  /\ comm' = << >> /\ exe' = << >> /\ cmdLine' = << >>
  /\ pc' = "stat64"
  /\ UNCHANGED <<os, lives, file, parser>>

(* stat64() on the directory: without it the process is not found.         *)
StatDirectory ==
  /\ pc = "stat64"
  /\ pc' = IF os.process = 0 THEN "open comm" ELSE "open stat"
  /\ UNCHANGED <<env, local>>

OpenStat ==
  /\ pc = "open stat"
  /\ file' = os.process
  /\ pc' = IF os.process = 0 THEN "open comm" ELSE "read stat"
  /\ UNCHANGED <<env, parser, told>>

(* A file that is open stays that of its process, and can be read as long  *)
(* as that process lives.                                                  *)
Line(text) == IF file # 0 /\ file = os.process THEN text ELSE << >>

ReadStat ==
  /\ pc = "read stat"
  /\ line' = Line(Record(os))
  /\ start' = 0 /\ end' = 0 /\ index' = 0
  /\ file' = 0
  /\ pc' = "parse"
  /\ UNCHANGED <<env, told>>

InField == end < Len(line) /\ line[end + 1] # " "

(* One turn of the search for the end of a field.                          *)
ParseCharacter ==
  /\ pc = "parse" /\ start < Len(line) /\ InField
  /\ end' = IF line[end + 1] = "(" THEN CloseAfter(line, end + 1) ELSE end + 1
  /\ UNCHANGED <<env, pc, file, line, start, index, told>>

ParseField ==
  /\ pc = "parse" /\ start < Len(line) /\ ~InField
  /\ stat' = IF end > start THEN WithField ELSE stat
  /\ index' = index + 1
  /\ start' = end
  /\ end' = end + 1
  /\ UNCHANGED <<env, pc, file, line, comm, exe, cmdLine>>

(* A record that is empty is valid, with all as it was.                    *)
Parsed ==
  /\ pc = "parse" /\ start >= Len(line)
  /\ stat' = [stat EXCEPT !.valid = TRUE]
  /\ line' = << >> /\ start' = 0 /\ end' = 0 /\ index' = 0
  /\ pc' = "open comm"
  /\ UNCHANGED <<env, file, comm, exe, cmdLine>>

OpenComm ==
  /\ pc = "open comm"
  /\ file' = os.process
  /\ pc' = "read comm"
  /\ UNCHANGED <<env, parser, told>>

ReadComm ==
  /\ pc = "read comm"
  /\ comm' = Line(os.name)
  /\ file' = 0
  /\ pc' = "lstat exe"
  /\ UNCHANGED <<env, parser, stat, exe, cmdLine>>

(* Mutant: a link of size 0, which all links of /proc are, is not read.    *)
StatExeOfSize ==
  /\ pc = "lstat exe"
  /\ pc' = "open cmdline"
  /\ UNCHANGED <<env, local>>

StatExe ==
  /\ pc = "lstat exe"
  /\ pc' = IF os.process = 0 THEN "open cmdline" ELSE "readlink exe"
  /\ UNCHANGED <<env, local>>

(* The link tells the program, which has the name of the process here.  A  *)
(* thread of the kernel has no program: its link is there and not readable.*)
ExeOf(p) == IF p.args = << >> THEN << >> ELSE p.name

ReadExe ==
  /\ pc = "readlink exe"
  /\ exe' = ExeOf(os)
  /\ pc' = "open cmdline"
  /\ UNCHANGED <<env, file, parser, stat, comm, cmdLine>>

OpenCmdLine ==
  /\ pc = "open cmdline"
  /\ file' = os.process
  /\ pc' = "read cmdline"
  /\ UNCHANGED <<env, parser, told>>

(* The arguments that are not empty, with spaces between them.             *)
Words(args) == SelectSeq(args, LAMBDA a : a # "")

ReadCmdLine ==
  /\ pc = "read cmdline"
  /\ cmdLine' = Line(Words(os.args))
  /\ file' = 0
  /\ pc' = "done"
  /\ UNCHANGED <<env, parser, stat, comm, exe>>

Return ==
  /\ pc = "done"
  /\ pc' = "idle"
  /\ seen' = {}
  /\ UNCHANGED <<os, lives, local>>

Next ==
  \/ Exit \/ Spawn \/ Exec
  \/ Begin \/ StatDirectory \/ OpenStat \/ ReadStat
  \/ ParseCharacter \/ ParseField \/ Parsed
  \/ OpenComm \/ ReadComm
  \/ StatExe \/ ReadExe \/ OpenCmdLine \/ ReadCmdLine \/ Return

Spec == Init /\ [][Next]_vars

-----------------------------------------------------------------------------
(* Whatever is told of a process was true of one that had the pid while it *)
(* was read, and the fields of its record are those of one program at one  *)
(* instant: a name with parentheses or spaces moves none of them ("avoid   *)
(* process names like ":-) 1 2 3"", procfs.cxx:99).                        *)
(* "Stat::pid is always valid" (procfs.cxx:57) though the process be lost. *)
ToldWasTrue ==
  pc = "done" =>
    /\ stat.pid = Pid
    /\ stat.ppid # "-1" =>
         \E p \in seen \ {Nobody} :
           /\ stat = [valid |-> TRUE, pid |-> Pid, comm |-> p.name,
                      state |-> "S", ppid |-> Digit[p.process]]
    /\ comm \in {p.name : p \in seen \cup {Nobody}}
    /\ exe \in {ExeOf(p) : p \in seen \cup {Nobody}}
    /\ cmdLine \in {<< >>} \cup {Words(p.args) : p \in seen}

(* A process that runs the same program from the first call to the last is *)
(* told completely, and one that was never there is not made up.           *)
UndisturbedIsComplete ==
  pc = "done" /\ Cardinality(seen) = 1 =>
    LET p == CHOOSE q \in seen : TRUE
    IN  IF p = Nobody
        THEN /\ stat = BlankStat
             /\ comm = << >> /\ exe = << >> /\ cmdLine = << >>
        ELSE /\ stat = [valid |-> TRUE, pid |-> Pid, comm |-> p.name,
                        state |-> "S", ppid |-> Digit[p.process]]
             /\ comm = p.name /\ exe = ExeOf(p) /\ cmdLine = Words(p.args)
=============================================================================
