---------------------------- MODULE ProcFsProofs ----------------------------
(***************************************************************************)
(* Proofs about ProcFs, for any names and arguments of processes: what is  *)
(* told was true, and is complete of a process that was left alone.        *)
(***************************************************************************)
EXTENDS ProcFs, SequenceTheorems, FiniteSetTheorems, TLAPS

Somebody == [process : 1..MaxLives, name : Names, args : Args]
People == Somebody \cup {Nobody}

AfterExe == {"open cmdline", "read cmdline", "done"}
AfterComm == {"lstat exe", "readlink exe"} \cup AfterExe
AfterStat == {"open comm", "read comm"} \cup AfterComm

Types ==
  /\ pc \in {"idle", "stat64", "open stat", "read stat", "parse"} \cup AfterStat
  /\ lives \in 1..MaxLives
  /\ os \in People /\ seen \subseteq People /\ IsFiniteSet(seen)
  /\ pc # "idle" => os \in seen

(* The fields before field i have been told.                               *)
Told(valid, pid, name, state, ppid) ==
  [valid |-> valid, pid |-> pid, comm |-> name, state |-> state, ppid |-> ppid]

Yes == TRUE
No == FALSE
Named(p) == Told(No, Pid, p.name, "?", "-1")
Stated(p) == Told(No, Pid, p.name, "S", "-1")
Parented(p) == Told(No, Pid, p.name, "S", Digit[p.process])

Upto(p, i) ==
  CASE i \in {0, 1} -> BlankStat
    [] i = 2 -> Named(p)
    [] i = 3 -> Stated(p)
    [] OTHER -> Parented(p)

(* Where the parser stops in a record whose name has n characters.         *)
Place(n) ==
  \/ index = 0 /\ start = 0 /\ end \in {0, 1}
  \/ index = 1 /\ start = 1 /\ end \in {2, n + 4}
  \/ index = 2 /\ start = n + 4 /\ end \in {n + 5, n + 6}
  \/ index = 3 /\ start = n + 6 /\ end \in {n + 7, n + 8}
  \/ index = 4 /\ start = n + 8 /\ end \in {n + 9, n + 10}
  \/ index = 5 /\ start = n + 10

At(p) == line = Record(p) /\ Place(Len(p.name)) /\ stat = Upto(p, index)

Parsing ==
  pc = "parse" =>
    \/ line = << >> /\ start = 0 /\ stat = BlankStat
    \/ \E p \in seen \cap Somebody : At(p)

Complete(p) == Told(Yes, Pid, p.name, "S", Digit[p.process])

StatTold ==
  /\ pc \in {"stat64", "open stat", "read stat"} => stat = BlankStat
  /\ pc \in AfterStat =>
       \/ stat \in {BlankStat, [BlankStat EXCEPT !.valid = TRUE]}
       \/ \E p \in seen \cap Somebody : stat = Complete(p)

OthersTold ==
  pc # "idle" =>
    /\ \E p \in seen \cup {Nobody} : comm = p.name
    /\ \E p \in seen \cup {Nobody} : exe = ExeOf(p)
    /\ cmdLine = << >> \/ \E p \in seen : cmdLine = Words(p.args)

(* Of a process that has been there all along, and of none.                *)
SoFar(p) ==
  /\ pc \in {"read stat", "read comm", "read cmdline"} => file = p.process
  /\ pc = "parse" => line # << >>
  /\ pc \in AfterStat => stat = Complete(p)
  /\ pc \in AfterComm => comm = p.name
  /\ pc \in AfterExe => exe = ExeOf(p)
  /\ pc = "done" => cmdLine = Words(p.args)

NothingSoFar ==
  /\ pc \notin {"read stat", "parse"}
  /\ stat = BlankStat /\ comm = << >> /\ exe = << >> /\ cmdLine = << >>

Undisturbed ==
  pc # "idle" =>
    /\ \A p \in Somebody : seen = {p} => SoFar(p)
    /\ seen = {Nobody} => NothingSoFar

IInv == Types /\ Parsing /\ StatTold /\ OthersTold /\ Undisturbed

-----------------------------------------------------------------------------
(* The characters of a record.                                             *)
LEMMA Digits ==
  ASSUME NEW k \in 1..9
  PROVE  Digit[k] \notin {" ", "(", ")"}
<1>1. k \in {1, 2, 3, 4, 5, 6, 7, 8, 9}
  OBVIOUS
<1>2. Digit[k] \in {"1", "2", "3", "4", "5", "6", "7", "8", "9"}
  BY <1>1 DEF Digit
<1> QED BY <1>2

Cells(p, n, r) ==
  /\ n \in Nat /\ Len(r) = n + 10 /\ r # << >>
  /\ r[1] = Pid /\ r[2] = " " /\ r[3] = "("
  /\ \A i \in 1..n : r[3 + i] = p.name[i]
  /\ r[n + 4] = ")" /\ r[n + 5] = " " /\ r[n + 6] = "S" /\ r[n + 7] = " "
  /\ r[n + 8] = Digit[p.process] /\ r[n + 9] = " " /\ r[n + 10] = "0"

LEMMA RecordCells ==
  ASSUME NEW p \in Somebody
  PROVE  Cells(p, Len(p.name), Record(p)) /\ p.name \in Seq(Character)
<1> DEFINE n == Len(p.name)
           r == Record(p)
           C == Character \cup {Pid, " ", "(", ")", "S", "0", Digit[p.process]}
           a == <<Pid, " ", "(">>
           b == <<")", " ", "S", " ", Digit[p.process], " ", "0">>
           c == a \o p.name
<1>1. p.name \in Seq(Character) /\ p.name \in Seq(C) /\ n \in Nat
  <2>1. p.name \in Seq(Character)
    BY ProcFsAssumption DEF Somebody
  <2>2. n \in Nat /\ p.name \in [1..n -> Character]
    BY <2>1, LenProperties
  <2>3. p.name \in [1..n -> C]
    <3>1. Character \subseteq C
      OBVIOUS
    <3> HIDE DEF C
    <3> QED BY <2>2, <3>1
  <2>4. p.name \in Seq(C)
    BY <2>2, <2>3, SeqDef
  <2> QED BY <2>1, <2>2, <2>4
<1>2. a \in Seq(C) /\ Len(a) = 3 /\ a[1] = Pid /\ a[2] = " " /\ a[3] = "("
  OBVIOUS
<1>3. /\ b \in Seq(C) /\ Len(b) = 7
      /\ b[1] = ")" /\ b[2] = " " /\ b[3] = "S" /\ b[4] = " "
      /\ b[5] = Digit[p.process] /\ b[6] = " " /\ b[7] = "0"
  OBVIOUS
<1>4. r = c \o b
  BY DEF Record
<1>0. b \in Seq(C) /\ Len(b) = 7 /\ Len(a) = 3
  BY <1>2, <1>3
<1> HIDE DEF a, b, C, n, r
<1>5. /\ c \in Seq(C) /\ Len(c) = Len(a) + Len(p.name)
      /\ \A i \in 1..(Len(a) + Len(p.name)) :
           c[i] = IF i <= Len(a) THEN a[i] ELSE p.name[i - Len(a)]
  BY <1>1, <1>2, ConcatProperties
<1>15. Len(p.name) = n
  BY DEF n
<1> HIDE DEF c
<1>6. /\ Len(c \o b) = Len(c) + Len(b)
      /\ \A i \in 1..(Len(c) + Len(b)) :
           (c \o b)[i] = IF i <= Len(c) THEN c[i] ELSE b[i - Len(c)]
  <2>1. b \in Seq(C) /\ c \in Seq(C)
    BY <1>0, <1>5
  <2> QED BY <2>1, ConcatProperties
<1>7. Len(c) = n + 3 /\ Len(r) = n + 10
  <2>1. n \in Nat /\ Len(c) = Len(a) + Len(p.name) /\ Len(c \o b) = Len(c) + Len(b)
    BY <1>1, <1>5, <1>6
  <2> QED BY <1>0, <1>4, <1>15, <2>1
<1>8. /\ \A i \in 1..(n + 3) : c[i] = IF i <= 3 THEN a[i] ELSE p.name[i - 3]
      /\ \A i \in 1..(n + 10) : r[i] = IF i <= n + 3 THEN c[i] ELSE b[i - (n + 3)]
  BY <1>1, <1>2, <1>3, <1>4, <1>5, <1>6, <1>7, <1>15
<1>9. r[1] = a[1] /\ r[2] = a[2] /\ r[3] = a[3]
  <2>1. /\ 1 \in 1..(n + 3) /\ 1 \in 1..(n + 10)
        /\ 2 \in 1..(n + 3) /\ 2 \in 1..(n + 10)
        /\ 3 \in 1..(n + 3) /\ 3 \in 1..(n + 10)
    BY <1>1
  <2> QED BY <1>1, <1>8, <2>1
<1>10. ASSUME NEW i \in 1..n PROVE r[3 + i] = p.name[i]
  <2>1. 3 + i \in 1..(n + 3) /\ 3 + i \in 1..(n + 10) /\ ~(3 + i <= 3) /\ (3 + i) - 3 = i
    BY <1>1, <1>10
  <2> QED BY <1>8, <2>1
<1>11. ASSUME NEW i \in 1..7 PROVE r[n + 3 + i] = b[i]
  <2>1. /\ n + 3 + i \in 1..(n + 10) /\ ~(n + 3 + i <= n + 3)
        /\ (n + 3 + i) - (n + 3) = i
    BY <1>1, <1>11
  <2> QED BY <1>8, <2>1
<1>12. /\ r[n + 3 + 1] = b[1] /\ r[n + 3 + 2] = b[2] /\ r[n + 3 + 3] = b[3]
       /\ r[n + 3 + 4] = b[4] /\ r[n + 3 + 5] = b[5] /\ r[n + 3 + 6] = b[6]
       /\ r[n + 3 + 7] = b[7]
  BY <1>11
<1>13. /\ n + 3 + 1 = n + 4 /\ n + 3 + 2 = n + 5 /\ n + 3 + 3 = n + 6 /\ n + 3 + 4 = n + 7
       /\ n + 3 + 5 = n + 8 /\ n + 3 + 6 = n + 9 /\ n + 3 + 7 = n + 10
  BY <1>1
<1>14. r # << >>
  BY <1>1, <1>7
<1>16. Cells(p, n, r)
  BY <1>1, <1>2, <1>3, <1>7, <1>9, <1>10, <1>12, <1>13, <1>14 DEF Cells
<1> QED BY <1>1, <1>16 DEF n, r

(* The search from the parenthesis that opens ends at the one that the     *)
(* kernel writes behind the name, whatever the name holds.                 *)
LEMMA LastClose ==
  ASSUME NEW p \in Somebody, NEW r, r = Record(p)
  PROVE  CloseAfter(r, 3) = Len(p.name) + 4
<1> DEFINE n == Len(p.name)
           Last(j) == r[j] = ")" /\ \A k \in (j + 1)..Len(r) : r[k] # ")"
<1>1. /\ n \in Nat /\ Len(r) = n + 10 /\ r[n + 4] = ")"
      /\ r[n + 5] = " " /\ r[n + 6] = "S" /\ r[n + 7] = " "
      /\ r[n + 8] = Digit[p.process] /\ r[n + 9] = " " /\ r[n + 10] = "0"
  BY RecordCells DEF Cells
<1>0. n \in Nat /\ Len(r) = n + 10
  BY <1>1
<1>2. r[n + 8] # ")"
  <2>1. p.process \in 1..9
    BY ProcFsAssumption DEF Somebody
  <2> QED BY <1>1, <2>1, Digits
<1> HIDE DEF n
<1>3. ASSUME NEW j \in (n + 5)..(n + 10) PROVE r[j] # ")"
  <2>1. j \in {n + 5, n + 6, n + 7, n + 8, n + 9, n + 10}
    BY <1>0, <1>3
  <2> QED BY <1>1, <1>2, <2>1
<1>4. n + 4 \in 3..Len(r) /\ Last(n + 4)
  <2>1. n + 4 \in 3..Len(r)
    BY <1>0
  <2>2. ASSUME NEW k \in ((n + 4) + 1)..Len(r) PROVE r[k] # ")"
    BY <1>0, <1>3, <2>2
  <2> QED BY <1>1, <2>1, <2>2
<1>5. ASSUME NEW j \in 3..Len(r), Last(j) PROVE j = n + 4
  <2>1. ~(j < n + 4)
    <3> SUFFICES ASSUME j < n + 4 PROVE FALSE
      OBVIOUS
    <3>1. n + 4 \in (j + 1)..Len(r)
      <4>1. j \in 3..Len(r)
        OBVIOUS
      <4> QED BY <1>0, <4>1
    <3> QED BY <1>1, <1>5, <3>1
  <2>2. ~(j > n + 4)
    <3> SUFFICES ASSUME j > n + 4 PROVE FALSE
      OBVIOUS
    <3>1. j \in (n + 5)..(n + 10)
      <4>1. j \in 3..Len(r)
        OBVIOUS
      <4> QED BY <1>0, <4>1
    <3> QED BY <1>3, <1>5, <3>1
  <2>3. j \in 3..Len(r)
    OBVIOUS
  <2> QED BY <1>0, <2>1, <2>2, <2>3
<1>6. CloseAfter(r, 3) = CHOOSE j \in 3..Len(r) : Last(j)
  BY DEF CloseAfter
<1> HIDE DEF Last
<1>7. (CHOOSE j \in 3..Len(r) : Last(j)) = n + 4
  BY <1>4, <1>5
<1> QED BY <1>6, <1>7 DEF n
-----------------------------------------------------------------------------
(* The parser: from place to place, and what it has told when it ends.     *)
LEMMA CharacterStep ==
  ASSUME NEW p \in Somebody, At(p), ParseCharacter
  PROVE  At(p)'
<1> DEFINE n == Len(p.name)
           e == end + 1
<1>1. Cells(p, n, line) /\ line = Record(p) /\ Place(n) /\ stat = Upto(p, index)
  BY RecordCells DEF At
<1>2. n \in Nat /\ Len(line) = n + 10
  BY <1>1 DEF Cells
<1>3. p.process \in 1..9
  BY ProcFsAssumption DEF Somebody
<1>4. /\ line[1] = Pid /\ line[2] = " " /\ line[3] = "("
      /\ line[n + 5] = " " /\ line[n + 6] = "S" /\ line[n + 7] = " "
      /\ line[n + 8] = Digit[p.process] /\ line[n + 9] = " " /\ line[n + 10] = "0"
  BY <1>1 DEF Cells
<1>5. CloseAfter(line, 3) = n + 4
  BY <1>1, LastClose
<1>6. /\ line[e] # " "
      /\ line[e] = "(" => end' = CloseAfter(line, e)
      /\ line[e] # "(" => end' = e
  BY DEF ParseCharacter, InField
<1>7. UNCHANGED <<line, start, index, stat>>
  BY DEF ParseCharacter, told
<1>8. start < Len(line) /\ end < Len(line)
  BY DEF ParseCharacter, InField
<1>e. e = end + 1
  OBVIOUS
<1> HIDE DEF n, e
<1>9. Place(n)'
  <2>1. CASE index = 0 /\ start = 0 /\ end = 0
    <3>1. e = 1
      BY <1>e, <2>1
    <3>2. end' = 1
      BY <1>4, <1>6, <3>1 DEF Pid
    <3> QED BY <1>7, <2>1, <3>2 DEF Place
  <2>2. CASE index = 0 /\ start = 0 /\ end = 1
    <3>1. e = 2
      BY <1>e, <2>2
    <3> QED BY <1>4, <1>6, <3>1
  <2>3. CASE index = 1 /\ start = 1 /\ end = 2
    <3>1. e = 3
      BY <1>e, <2>3
    <3>2. end' = n + 4
      BY <1>4, <1>5, <1>6, <3>1
    <3> QED BY <1>7, <2>3, <3>2 DEF Place
  <2>4. CASE end = n + 4 \/ end = n + 6 \/ end = n + 8
    <3>1. e = n + 5 \/ e = n + 7 \/ e = n + 9
      BY <1>2, <1>e, <2>4
    <3> QED BY <1>4, <1>6, <3>1
  <2>5. CASE index = 2 /\ start = n + 4 /\ end = n + 5
    <3>1. e = n + 6
      BY <1>2, <1>e, <2>5
    <3>2. end' = n + 6
      BY <1>4, <1>6, <3>1
    <3> QED BY <1>7, <2>5, <3>2 DEF Place
  <2>6. CASE index = 3 /\ start = n + 6 /\ end = n + 7
    <3>1. e = n + 8
      BY <1>2, <1>e, <2>6
    <3>2. end' = n + 8
      BY <1>3, <1>4, <1>6, <3>1, Digits
    <3> QED BY <1>7, <2>6, <3>2 DEF Place
  <2>7. CASE index = 4 /\ start = n + 8 /\ end = n + 9
    <3>1. e = n + 10
      BY <1>2, <1>e, <2>7
    <3>2. end' = n + 10
      BY <1>4, <1>6, <3>1
    <3> QED BY <1>7, <2>7, <3>2 DEF Place
  <2>8. CASE end = n + 10 \/ start = n + 10
    BY <1>2, <1>8, <2>8
  <2> QED BY <1>1, <2>1, <2>2, <2>3, <2>4, <2>5, <2>6, <2>7, <2>8 DEF Place
<1> QED BY <1>1, <1>7, <1>9 DEF At, Upto, n

(* What a field tells: the name is all that is between the parentheses.    *)
LEMMA NameTold ==
  ASSUME NEW p \in Somebody
  PROVE  LET n == Len(p.name)
         IN  /\ n > 0 => SubSeq(Record(p), 4, n + 3) = p.name
             /\ n = 0 => p.name = << >>
             /\ n \in Nat
<1> DEFINE n == Len(p.name)
           r == Record(p)
           t == SubSeq(r, 4, n + 3)
<1>1. Cells(p, n, r) /\ p.name \in Seq(Character)
  BY RecordCells
<1>2. n \in Nat /\ (\A i \in 1..n : r[3 + i] = p.name[i])
  BY <1>1 DEF Cells
<1>3. p.name \in [1..n -> Character]
  BY <1>1, LenProperties
<1>4. n = 0 => p.name = << >>
  BY <1>1
<1>5. ASSUME n > 0 PROVE t = p.name
  <2>n. n = Len(p.name)
    OBVIOUS
  <2> HIDE DEF n, r
  <2>1. ASSUME NEW i \in 4..(n + 3) PROVE r[i] \in Character
    <3> DEFINE j == i - 3
    <3>1. j \in 1..n /\ 3 + j = i
      BY <1>2, <2>1
    <3> HIDE DEF j
    <3>2. r[i] = p.name[j]
      BY <1>2, <3>1
    <3> QED BY <1>3, <3>1, <3>2
  <2>2. 4 \in Int /\ n + 3 \in Int
    BY <1>2
  <2>3. /\ t \in Seq(Character)
        /\ Len(t) = (IF 4 <= n + 3 THEN (n + 3) - 4 + 1 ELSE 0)
        /\ \A i \in 1..((n + 3) - 4 + 1) : t[i] = r[4 + i - 1]
    BY <2>1, <2>2, SubSeqProperties
  <2> HIDE DEF t
  <2>4. Len(t) = n /\ (n + 3) - 4 + 1 = n
    <3>1. Len(t) = (IF 4 <= n + 3 THEN (n + 3) - 4 + 1 ELSE 0)
      BY <2>3
    <3> QED BY <1>2, <1>5, <3>1
  <2>5. ASSUME NEW i \in 1..n PROVE t[i] = p.name[i]
    <3>1. 4 + i - 1 = 3 + i
      BY <1>2, <2>5
    <3>2. t[i] = r[4 + i - 1]
      BY <2>3, <2>4
    <3> QED BY <1>2, <3>1, <3>2
  <2> QED BY <1>1, <2>3, <2>4, <2>5, <2>n, SeqEqual
<1> QED BY <1>2, <1>4, <1>5
PutValid(r, x) == [r EXCEPT !.valid = x]
PutPid(r, x) == [r EXCEPT !.pid = x]
PutComm(r, x) == [r EXCEPT !.comm = x]
PutState(r, x) == [r EXCEPT !.state = x]
PutPpid(r, x) == [r EXCEPT !.ppid = x]

LEMMA Updates ==
  ASSUME NEW v, NEW a, NEW b, NEW c, NEW d, NEW x
  PROVE  /\ PutValid(Told(v, a, b, c, d), x) = Told(x, a, b, c, d)
         /\ PutPid(Told(v, a, b, c, d), x) = Told(v, x, b, c, d)
         /\ PutComm(Told(v, a, b, c, d), x) = Told(v, a, x, c, d)
         /\ PutState(Told(v, a, b, c, d), x) = Told(v, a, b, x, d)
         /\ PutPpid(Told(v, a, b, c, d), x) = Told(v, a, b, c, x)
BY DEF Told, PutValid, PutPid, PutComm, PutState, PutPpid

LEMMA UptoNext ==
  ASSUME NEW p
  PROVE  /\ Upto(p, 0) = BlankStat
         /\ [Upto(p, 0) EXCEPT !.pid = Pid] = Upto(p, 1)
         /\ [Upto(p, 1) EXCEPT !.comm = p.name] = Upto(p, 2)
         /\ p.name = << >> => Upto(p, 2) = Upto(p, 1)
         /\ [Upto(p, 2) EXCEPT !.state = "S"] = Upto(p, 3)
         /\ [Upto(p, 3) EXCEPT !.ppid = Digit[p.process]] = Upto(p, 4)
         /\ Upto(p, 5) = Upto(p, 4)
         /\ [Upto(p, 5) EXCEPT !.valid = TRUE] = Complete(p)
<1>1. /\ Upto(p, 0) = BlankStat /\ Upto(p, 1) = BlankStat /\ Upto(p, 2) = Named(p)
      /\ Upto(p, 3) = Stated(p) /\ Upto(p, 4) = Parented(p) /\ Upto(p, 5) = Parented(p)
  BY DEF Upto
<1>2. BlankStat = Told(No, Pid, << >>, "?", "-1")
  BY DEF BlankStat, Told, No
<1>3. PutPid(BlankStat, Pid) = BlankStat /\ PutComm(BlankStat, p.name) = Named(p)
  BY <1>2, Updates DEF Named
<1>4. p.name = << >> => Named(p) = BlankStat
  BY <1>2 DEF Named
<1>5. PutState(Named(p), "S") = Stated(p)
  BY Updates DEF Named, Stated
<1>6. PutPpid(Stated(p), Digit[p.process]) = Parented(p)
  BY Updates DEF Stated, Parented
<1>7. PutValid(Parented(p), Yes) = Complete(p)
  BY Updates DEF Parented, Complete
<1>8. [Parented(p) EXCEPT !.valid = TRUE] = PutValid(Parented(p), Yes)
  BY DEF PutValid, Yes
<1> QED BY <1>1, <1>3, <1>4, <1>5, <1>6, <1>7, <1>8 DEF PutPid, PutComm, PutState, PutPpid

LEMMA FieldStep ==
  ASSUME NEW p \in Somebody, At(p), ParseField
  PROVE  At(p)'
<1> DEFINE n == Len(p.name)
           e == end + 1
<1>1. Cells(p, n, line) /\ line = Record(p) /\ Place(n) /\ stat = Upto(p, index)
  BY RecordCells DEF At
<1>2. n \in Nat /\ Len(line) = n + 10
  BY <1>1 DEF Cells
<1>4. /\ line[1] = Pid /\ line[3] = "(" /\ line[n + 6] = "S"
      /\ line[n + 8] = Digit[p.process] /\ line[n + 10] = "0"
  BY <1>1 DEF Cells
<1>5. end < Len(line) => line[e] = " "
  BY DEF ParseField, InField
<1>6. line' = line /\ index' = index + 1 /\ start' = end /\ end' = end + 1
  BY DEF ParseField
<1>7. stat' = IF end > start THEN WithField ELSE stat
  BY DEF ParseField
<1>8. start < Len(line)
  BY DEF ParseField
<1>9. p.process \in 1..9
  BY ProcFsAssumption DEF Somebody
<1>10. /\ n > 0 => SubSeq(line, 4, n + 3) = p.name
       /\ n = 0 => p.name = << >>
  BY <1>1, NameTold
<1>e. e = end + 1
  OBVIOUS
<1> HIDE DEF n, e
<1>11. Place(n)' /\ stat' = Upto(p, index')
  <2>1. CASE index = 0 /\ start = 0 /\ end = 0
    <3>1. e = 1 /\ end < Len(line)
      BY <1>2, <1>e, <2>1
    <3> QED BY <1>4, <1>5, <3>1 DEF Pid
  <2>2. CASE index = 0 /\ start = 0 /\ end = 1
    <3>1. index' = 1 /\ start' = 1 /\ end' = 2 /\ start + 1 = 1 /\ end > start
      BY <1>6, <2>2
    <3>2. stat' = [stat EXCEPT !.pid = line[1]]
      BY <1>7, <2>2, <3>1 DEF WithField
    <3>3. stat' = Upto(p, 1)
      BY <1>1, <1>4, <2>2, <3>2, UptoNext
    <3> QED BY <3>1, <3>3 DEF Place
  <2>3. CASE index = 1 /\ start = 1 /\ end = 2
    <3>1. e = 3 /\ end < Len(line)
      BY <1>2, <1>e, <2>3
    <3> QED BY <1>4, <1>5, <3>1
  <2>4. CASE index = 1 /\ start = 1 /\ end = n + 4
    <3>1. /\ index' = 2 /\ start' = n + 4 /\ end' = n + 5 /\ end > start
          /\ start + 3 = 4 /\ end - 1 = n + 3 /\ (end > start + 3 <=> n > 0)
      BY <1>2, <1>6, <2>4
    <3>2. CASE n > 0
      <4>1. stat' = WithField /\ end > start + 3
        BY <1>7, <3>1, <3>2
      <4>2. stat' = [stat EXCEPT !.comm = SubSeq(line, start + 3, end - 1)]
        BY <2>4, <4>1 DEF WithField
      <4>3. stat' = [stat EXCEPT !.comm = p.name]
        BY <1>10, <3>1, <3>2, <4>2
      <4>4. stat' = Upto(p, 2)
        BY <1>1, <2>4, <4>3, UptoNext
      <4> QED BY <3>1, <4>4 DEF Place
    <3>3. CASE n = 0
      <4>1. ~(end > start + 3)
        BY <3>1, <3>3
      <4>2. stat' = stat /\ p.name = << >>
        BY <1>7, <1>10, <2>4, <3>3, <4>1 DEF WithField
      <4>3. stat' = Upto(p, 2)
        BY <1>1, <2>4, <4>2, UptoNext
      <4> QED BY <3>1, <4>3 DEF Place
    <3> QED BY <1>2, <3>2, <3>3
  <2>5. CASE index = 2 /\ start = n + 4 /\ end = n + 5
    <3>1. e = n + 6 /\ end < Len(line)
      BY <1>2, <1>e, <2>5
    <3> QED BY <1>4, <1>5, <3>1
  <2>6. CASE index = 2 /\ start = n + 4 /\ end = n + 6
    <3>1. /\ index' = 3 /\ start' = n + 6 /\ end' = n + 7 /\ end > start /\ start + 2 = n + 6
      BY <1>2, <1>6, <2>6
    <3>2. stat' = [stat EXCEPT !.state = line[n + 6]]
      BY <1>7, <2>6, <3>1 DEF WithField
    <3>3. stat' = Upto(p, 3)
      BY <1>1, <1>4, <2>6, <3>2, UptoNext
    <3> QED BY <3>1, <3>3 DEF Place
  <2>7. CASE index = 3 /\ start = n + 6 /\ end = n + 7
    <3>1. e = n + 8 /\ end < Len(line)
      BY <1>2, <1>e, <2>7
    <3> QED BY <1>4, <1>5, <1>9, <3>1, Digits
  <2>8. CASE index = 3 /\ start = n + 6 /\ end = n + 8
    <3>1. /\ index' = 4 /\ start' = n + 8 /\ end' = n + 9 /\ end > start /\ start + 2 = n + 8
      BY <1>2, <1>6, <2>8
    <3>2. stat' = [stat EXCEPT !.ppid = line[n + 8]]
      BY <1>7, <2>8, <3>1 DEF WithField
    <3>3. stat' = Upto(p, 4)
      BY <1>1, <1>4, <2>8, <3>2, UptoNext
    <3> QED BY <3>1, <3>3 DEF Place
  <2>9. CASE index = 4 /\ start = n + 8 /\ end = n + 9
    <3>1. e = n + 10 /\ end < Len(line)
      BY <1>2, <1>e, <2>9
    <3> QED BY <1>4, <1>5, <3>1
  <2>10. CASE index = 4 /\ start = n + 8 /\ end = n + 10
    <3>1. index' = 5 /\ start' = n + 10
      BY <1>6, <2>10
    <3>2. stat' = stat
      BY <1>7, <2>10 DEF WithField
    <3>3. stat' = Upto(p, 5)
      BY <1>1, <2>10, <3>2, UptoNext
    <3> QED BY <3>1, <3>3 DEF Place
  <2>11. CASE start = n + 10
    BY <1>2, <1>8, <2>11
  <2> QED BY <1>1, <2>1, <2>2, <2>3, <2>4, <2>5, <2>6, <2>7, <2>8, <2>9, <2>10, <2>11 DEF Place
<1> QED BY <1>1, <1>6, <1>11 DEF At, n

LEMMA ParsedStep ==
  ASSUME NEW p \in Somebody, At(p), Parsed
  PROVE  stat' = Complete(p)
<1> DEFINE n == Len(p.name)
<1>1. Cells(p, n, line) /\ Place(n) /\ stat = Upto(p, index)
  BY RecordCells DEF At
<1>2. n \in Nat /\ Len(line) = n + 10
  BY <1>1 DEF Cells
<1>3. start >= Len(line) /\ stat' = [stat EXCEPT !.valid = TRUE]
  BY DEF Parsed
<1> HIDE DEF n
<1>4. index = 5
  BY <1>1, <1>2, <1>3 DEF Place
<1> QED BY <1>1, <1>3, <1>4, UptoNext

LEMMA EmptyStep ==
  ASSUME line = << >>, start = 0
  PROVE  /\ ~ParseCharacter /\ ~ParseField
         /\ Parsed => stat' = [stat EXCEPT !.valid = TRUE]
<1>1. ~(start < Len(line))
  OBVIOUS
<1>2. ~ParseCharacter /\ ~ParseField
  BY <1>1 DEF ParseCharacter, ParseField
<1> QED BY <1>2 DEF Parsed

-----------------------------------------------------------------------------
LEMMA InitInv == Init => IInv
<1> SUFFICES ASSUME Init PROVE IInv
  OBVIOUS
<1>1. os \in Somebody
  BY ProcFsAssumption DEF Init, Somebody
<1>2. Types
  BY <1>1, ProcFsAssumption, FS_EmptySet DEF Init, Types, People
<1>3. pc = "idle"
  BY DEF Init
<1> QED BY <1>2, <1>3
        DEF IInv, Parsing, StatTold, OthersTold, Undisturbed, AfterStat, AfterComm, AfterExe

LEMMA NobodyIsNotSomebody == Nobody \notin Somebody
BY DEF Nobody, Somebody

(* Who is under the pid now has been there since the read began.           *)
LEMMA WhoIsThere ==
  ASSUME Types, pc # "idle"
  PROVE  /\ os \in seen
         /\ os.process = 0 <=> os = Nobody
         /\ os.process # 0 <=> os \in Somebody
<1>1. os \in seen /\ os \in Somebody \cup {Nobody}
  BY DEF Types, People
<1>2. os \in Somebody => os.process # 0
  BY ProcFsAssumption DEF Somebody
<1> QED BY <1>1, <1>2, NobodyIsNotSomebody DEF Nobody

(* What was true stays true when the process exits or another one starts,  *)
(* and who was left alone before is all that has been there.               *)
LEMMA WorldStep ==
  ASSUME IInv, os' \in People, lives' \in 1..MaxLives, seen' = seen \cup {os'},
         UNCHANGED <<pc, local>>
  PROVE  IInv'
<1>1. /\ pc' = pc /\ file' = file /\ line' = line /\ start' = start /\ end' = end
      /\ index' = index /\ stat' = stat /\ comm' = comm /\ exe' = exe
      /\ cmdLine' = cmdLine
  BY DEF local, parser, told
<1>2. seen \subseteq seen' /\ os' \in seen'
  OBVIOUS
<1>3. Types'
  <2>1. seen' \subseteq People /\ IsFiniteSet(seen')
    BY FS_AddElement DEF IInv, Types
  <2> QED BY <1>1, <1>2, <2>1 DEF IInv, Types
<1>4. Parsing'
  <2>1. ASSUME NEW p, At(p) PROVE At(p)'
    BY <1>1, <2>1 DEF At, Place
  <2> QED BY <1>1, <1>2, <2>1 DEF IInv, Parsing
<1>5. StatTold'
  BY <1>1, <1>2 DEF IInv, StatTold
<1>6. OthersTold'
  BY <1>1, <1>2 DEF IInv, OthersTold
<1>7. Undisturbed'
  <2>1. ASSUME NEW p, pc # "idle", seen' = {p} PROVE seen = {p}
    BY <1>2, <2>1, WhoIsThere DEF IInv
  <2>2. ASSUME NEW p, SoFar(p) PROVE SoFar(p)'
    BY <1>1, <2>2 DEF SoFar
  <2>3. ASSUME NothingSoFar PROVE NothingSoFar'
    BY <1>1, <2>3 DEF NothingSoFar
  <2> QED BY <1>1, <2>1, <2>2, <2>3 DEF IInv, Undisturbed
<1> QED BY <1>3, <1>4, <1>5, <1>6, <1>7 DEF IInv

-----------------------------------------------------------------------------
(* The steps of the reader, outside the parser.                            *)
LEMMA BeginStep ==
  ASSUME IInv, Begin
  PROVE  IInv'
<1>1. /\ pc = "idle" /\ pc' = "stat64" /\ os' = os /\ lives' = lives /\ seen' = {os}
      /\ stat' = BlankStat /\ comm' = << >> /\ exe' = << >> /\ cmdLine' = << >>
  BY DEF Begin
<1>2. Types'
  BY <1>1, FS_Singleton DEF IInv, Types
<1>3. Parsing' /\ StatTold'
  BY <1>1 DEF Parsing, StatTold, AfterStat, AfterComm, AfterExe
<1>4. << >> = Nobody.name /\ << >> = ExeOf(Nobody)
  BY DEF Nobody, ExeOf
<1>5. OthersTold'
  BY <1>1, <1>4 DEF OthersTold
<1>6. Undisturbed'
  BY <1>1 DEF Undisturbed, SoFar, NothingSoFar, AfterStat, AfterComm, AfterExe
<1> QED BY <1>2, <1>3, <1>5, <1>6 DEF IInv

LEMMA StatDirectoryStep ==
  ASSUME IInv, StatDirectory
  PROVE  IInv'
<1>1. /\ pc = "stat64" /\ pc' = IF os.process = 0 THEN "open comm" ELSE "open stat"
      /\ os' = os /\ lives' = lives /\ seen' = seen
      /\ stat' = stat /\ comm' = comm /\ exe' = exe /\ cmdLine' = cmdLine
  BY DEF StatDirectory, env, local, told
<1>2. pc' \in {"open comm", "open stat"} /\ stat = BlankStat
  BY <1>1 DEF IInv, StatTold
<1>3. Types' /\ Parsing' /\ StatTold' /\ OthersTold'
  BY <1>1, <1>2 DEF IInv, Types, Parsing, StatTold, OthersTold, AfterStat, AfterComm, AfterExe
<1>4. Undisturbed'
  BY <1>1, <1>2, WhoIsThere
     DEF IInv, Undisturbed, SoFar, NothingSoFar, AfterStat, AfterComm, AfterExe
<1> QED BY <1>3, <1>4 DEF IInv

LEMMA OpenStatStep ==
  ASSUME IInv, OpenStat
  PROVE  IInv'
<1>1. /\ pc = "open stat" /\ pc' = IF os.process = 0 THEN "open comm" ELSE "read stat"
      /\ file' = os.process
      /\ os' = os /\ lives' = lives /\ seen' = seen
      /\ stat' = stat /\ comm' = comm /\ exe' = exe /\ cmdLine' = cmdLine
  BY DEF OpenStat, env, told
<1>2. pc' \in {"open comm", "read stat"} /\ stat = BlankStat
  BY <1>1 DEF IInv, StatTold
<1>3. Types' /\ Parsing' /\ StatTold' /\ OthersTold'
  BY <1>1, <1>2 DEF IInv, Types, Parsing, StatTold, OthersTold, AfterStat, AfterComm, AfterExe
<1>4. Undisturbed'
  BY <1>1, <1>2, WhoIsThere
     DEF IInv, Undisturbed, SoFar, NothingSoFar, AfterStat, AfterComm, AfterExe
<1> QED BY <1>3, <1>4 DEF IInv

LEMMA ReadStatStep ==
  ASSUME IInv, ReadStat
  PROVE  IInv'
<1>1. /\ pc = "read stat" /\ pc' = "parse"
      /\ line' = IF file # 0 /\ file = os.process THEN Record(os) ELSE << >>
      /\ start' = 0 /\ end' = 0 /\ index' = 0
      /\ os' = os /\ lives' = lives /\ seen' = seen
      /\ stat' = stat /\ comm' = comm /\ exe' = exe /\ cmdLine' = cmdLine
  BY DEF ReadStat, env, told, Line
<1>2. stat = BlankStat
  BY <1>1 DEF IInv, StatTold
<1>3. Types' /\ StatTold' /\ OthersTold'
  BY <1>1 DEF IInv, Types, StatTold, OthersTold, AfterStat, AfterComm, AfterExe
<1>4. ASSUME file # 0, file = os.process PROVE os \in seen \cap Somebody /\ At(os)'
  <2>1. os \in seen \cap Somebody
    BY <1>1, <1>4, WhoIsThere DEF IInv
  <2>2. line' = Record(os) /\ stat' = Upto(os, 0)
    BY <1>1, <1>2, <1>4, UptoNext
  <2> QED BY <1>1, <2>1, <2>2 DEF At, Place
<1>5. Parsing'
  <2>1. CASE file # 0 /\ file = os.process
    BY <1>1, <1>4, <2>1 DEF Parsing
  <2>2. CASE ~(file # 0 /\ file = os.process)
    BY <1>1, <1>2, <2>2 DEF Parsing
  <2> QED BY <2>1, <2>2
<1>6. Undisturbed'
  <2>1. ASSUME NEW p \in Somebody, seen = {p} PROVE line' # << >>
    <3>1. p = os /\ file = p.process
      BY <1>1, <2>1, WhoIsThere DEF IInv, Undisturbed, SoFar
    <3>2. file # 0
      BY <2>1, <3>1, ProcFsAssumption DEF Somebody
    <3>3. Record(p) # << >>
      BY RecordCells DEF Cells
    <3> QED BY <1>1, <3>1, <3>2, <3>3
  <2>2. seen # {Nobody}
    BY <1>1 DEF IInv, Undisturbed, NothingSoFar
  <2> QED BY <1>1, <2>1, <2>2 DEF Undisturbed, SoFar, AfterStat, AfterComm, AfterExe
<1> QED BY <1>3, <1>5, <1>6 DEF IInv

LEMMA OpenCommStep ==
  ASSUME IInv, OpenComm
  PROVE  IInv'
<1>1. /\ pc = "open comm" /\ pc' = "read comm" /\ file' = os.process
      /\ os' = os /\ lives' = lives /\ seen' = seen
      /\ stat' = stat /\ comm' = comm /\ exe' = exe /\ cmdLine' = cmdLine
  BY DEF OpenComm, env, told
<1>2. Types' /\ Parsing' /\ StatTold' /\ OthersTold'
  BY <1>1 DEF IInv, Types, Parsing, StatTold, OthersTold, AfterStat, AfterComm, AfterExe
<1>3. Undisturbed'
  BY <1>1, WhoIsThere DEF IInv, Undisturbed, SoFar, NothingSoFar, AfterStat, AfterComm, AfterExe
<1> QED BY <1>2, <1>3 DEF IInv

LEMMA ReadCommStep ==
  ASSUME IInv, ReadComm
  PROVE  IInv'
<1>1. /\ pc = "read comm" /\ pc' = "lstat exe"
      /\ comm' = IF file # 0 /\ file = os.process THEN os.name ELSE << >>
      /\ os' = os /\ lives' = lives /\ seen' = seen
      /\ stat' = stat /\ exe' = exe /\ cmdLine' = cmdLine
  BY DEF ReadComm, env, parser, Line
<1>2. /\ os \in seen /\ (os.process = 0 <=> os = Nobody)
      /\ (os.process # 0 <=> os \in Somebody) /\ Nobody.name = << >>
  BY <1>1, WhoIsThere DEF IInv, Nobody
<1>3. Types' /\ Parsing' /\ StatTold'
  BY <1>1 DEF IInv, Types, Parsing, StatTold, AfterStat, AfterComm, AfterExe
<1>4. OthersTold'
  BY <1>1, <1>2 DEF IInv, OthersTold
<1>5. Undisturbed'
  BY <1>1, <1>2, NobodyIsNotSomebody
     DEF IInv, Undisturbed, SoFar, NothingSoFar, AfterStat, AfterComm, AfterExe
<1> QED BY <1>3, <1>4, <1>5 DEF IInv

LEMMA StatExeStep ==
  ASSUME IInv, StatExe
  PROVE  IInv'
<1>1. /\ pc = "lstat exe" /\ pc' = IF os.process = 0 THEN "open cmdline" ELSE "readlink exe"
      /\ os' = os /\ lives' = lives /\ seen' = seen
      /\ stat' = stat /\ comm' = comm /\ exe' = exe /\ cmdLine' = cmdLine
  BY DEF StatExe, env, local, told
<1>2. Types' /\ Parsing' /\ StatTold' /\ OthersTold'
  BY <1>1 DEF IInv, Types, Parsing, StatTold, OthersTold, AfterStat, AfterComm, AfterExe
<1>3. Undisturbed'
  BY <1>1, WhoIsThere DEF IInv, Undisturbed, SoFar, NothingSoFar, AfterStat, AfterComm, AfterExe
<1> QED BY <1>2, <1>3 DEF IInv

LEMMA ReadExeStep ==
  ASSUME IInv, ReadExe
  PROVE  IInv'
<1>1. /\ pc = "readlink exe" /\ pc' = "open cmdline" /\ exe' = ExeOf(os)
      /\ os' = os /\ lives' = lives /\ seen' = seen
      /\ stat' = stat /\ comm' = comm /\ cmdLine' = cmdLine
  BY DEF ReadExe, env, parser
<1>2. os \in seen /\ ExeOf(Nobody) = << >>
  BY <1>1, WhoIsThere DEF IInv, Nobody, ExeOf
<1>3. Types' /\ Parsing' /\ StatTold' /\ OthersTold'
  BY <1>1, <1>2 DEF IInv, Types, Parsing, StatTold, OthersTold, AfterStat, AfterComm, AfterExe
<1>4. Undisturbed'
  BY <1>1, <1>2 DEF IInv, Undisturbed, SoFar, NothingSoFar, AfterStat, AfterComm, AfterExe
<1> QED BY <1>3, <1>4 DEF IInv

LEMMA OpenCmdLineStep ==
  ASSUME IInv, OpenCmdLine
  PROVE  IInv'
<1>1. /\ pc = "open cmdline" /\ pc' = "read cmdline" /\ file' = os.process
      /\ os' = os /\ lives' = lives /\ seen' = seen
      /\ stat' = stat /\ comm' = comm /\ exe' = exe /\ cmdLine' = cmdLine
  BY DEF OpenCmdLine, env, told
<1>2. Types' /\ Parsing' /\ StatTold' /\ OthersTold'
  BY <1>1 DEF IInv, Types, Parsing, StatTold, OthersTold, AfterStat, AfterComm, AfterExe
<1>3. Undisturbed'
  BY <1>1, WhoIsThere DEF IInv, Undisturbed, SoFar, NothingSoFar, AfterStat, AfterComm, AfterExe
<1> QED BY <1>2, <1>3 DEF IInv

LEMMA ReadCmdLineStep ==
  ASSUME IInv, ReadCmdLine
  PROVE  IInv'
<1>1. /\ pc = "read cmdline" /\ pc' = "done"
      /\ cmdLine' = IF file # 0 /\ file = os.process THEN Words(os.args) ELSE << >>
      /\ os' = os /\ lives' = lives /\ seen' = seen
      /\ stat' = stat /\ comm' = comm /\ exe' = exe
  BY DEF ReadCmdLine, env, parser, Line
<1>2. /\ os \in seen /\ (os.process = 0 <=> os = Nobody)
      /\ (os.process # 0 <=> os \in Somebody)
  BY <1>1, WhoIsThere DEF IInv
<1>3. Types' /\ Parsing' /\ StatTold' /\ OthersTold'
  BY <1>1, <1>2 DEF IInv, Types, Parsing, StatTold, OthersTold, AfterStat, AfterComm, AfterExe
<1>4. Undisturbed'
  BY <1>1, <1>2, NobodyIsNotSomebody
     DEF IInv, Undisturbed, SoFar, NothingSoFar, AfterStat, AfterComm, AfterExe
<1> QED BY <1>3, <1>4 DEF IInv

LEMMA ReturnStep ==
  ASSUME IInv, Return
  PROVE  IInv'
<1>1. pc' = "idle" /\ os' = os /\ lives' = lives /\ seen' = {}
  BY DEF Return
<1> QED BY <1>1, FS_EmptySet
        DEF IInv, Types, Parsing, StatTold, OthersTold, Undisturbed, AfterStat, AfterComm, AfterExe

(* The parser: who is left alone has a record, and the record is parsed    *)
(* whoever is under the pid by now.                                        *)
LEMMA ParseStep ==
  ASSUME IInv, ParseCharacter \/ ParseField
  PROVE  IInv'
<1>1. /\ pc = "parse" /\ pc' = "parse" /\ line' = line
      /\ os' = os /\ lives' = lives /\ seen' = seen
      /\ comm' = comm /\ exe' = exe /\ cmdLine' = cmdLine
  BY DEF ParseCharacter, ParseField, env, told
<1>2. PICK p \in seen \cap Somebody : At(p)
  BY <1>1, EmptyStep DEF IInv, Parsing
<1>3. At(p)'
  BY <1>2, CharacterStep, FieldStep
<1>4. line # << >>
  BY <1>2, RecordCells DEF At, Cells
<1>5. Types' /\ Parsing' /\ StatTold' /\ OthersTold'
  BY <1>1, <1>2, <1>3 DEF IInv, Types, Parsing, StatTold, OthersTold, AfterStat, AfterComm, AfterExe
<1>6. Undisturbed'
  BY <1>1, <1>4 DEF IInv, Undisturbed, SoFar, NothingSoFar, AfterStat, AfterComm, AfterExe
<1> QED BY <1>5, <1>6 DEF IInv

LEMMA ParseEnds ==
  ASSUME IInv, Parsed
  PROVE  IInv'
<1>1. /\ pc = "parse" /\ pc' = "open comm" /\ stat' = [stat EXCEPT !.valid = TRUE]
      /\ os' = os /\ lives' = lives /\ seen' = seen
      /\ comm' = comm /\ exe' = exe /\ cmdLine' = cmdLine
  BY DEF Parsed, env
<1>2. \/ line = << >> /\ stat' = [BlankStat EXCEPT !.valid = TRUE]
      \/ \E p \in seen \cap Somebody : stat' = Complete(p)
  BY <1>1, ParsedStep DEF IInv, Parsing
<1>3. Types' /\ Parsing' /\ StatTold' /\ OthersTold'
  BY <1>1, <1>2 DEF IInv, Types, Parsing, StatTold, OthersTold, AfterStat, AfterComm, AfterExe
<1>4. Undisturbed'
  <2>1. ASSUME NEW p \in Somebody, seen = {p} PROVE stat' = Complete(p)
    <3>1. line # << >>
      BY <1>1, <2>1 DEF IInv, Undisturbed, SoFar
    <3> QED BY <1>2, <2>1, <3>1
  <2>2. seen # {Nobody}
    BY <1>1 DEF IInv, Undisturbed, NothingSoFar
  <2> QED BY <1>1, <2>1, <2>2 DEF Undisturbed, SoFar, AfterComm, AfterExe
<1> QED BY <1>3, <1>4 DEF IInv

-----------------------------------------------------------------------------
(* Every step of readProcess() and of the processes, in any order, keeps   *)
(* what is told true and, of a process that is left alone, complete.       *)
THEOREM Inductive == Spec => []IInv
<1>1. Init => IInv
  BY InitInv
<1>2. IInv /\ [Next]_vars => IInv'
  <2> SUFFICES ASSUME IInv, [Next]_vars
               PROVE  IInv'
    OBVIOUS
  <2>0. lives \in 1..MaxLives /\ os \in People
    BY DEF IInv, Types
  <2>1. CASE Exit
    <3>1. os' = Nobody /\ lives' = lives /\ seen' = seen \cup {os'} /\ UNCHANGED <<pc, local>>
      BY <2>1 DEF Exit
    <3> QED BY <2>0, <3>1, WorldStep DEF People
  <2>2. ASSUME NEW process \in 1..MaxLives, NEW n \in Names, NEW a \in Args,
               Run(process, n, a)
        PROVE  IInv'
    <3>1. /\ os' = [process |-> process, name |-> n, args |-> a]
          /\ seen' = seen \cup {os'} /\ UNCHANGED <<pc, local>>
          /\ lives' = lives + 1 /\ lives < MaxLives
      BY <2>2 DEF Run
    <3>2. os' \in People
      BY <3>1 DEF People, Somebody
    <3>3. lives' \in 1..MaxLives
      BY <2>0, <3>1, ProcFsAssumption
    <3> QED BY <3>1, <3>2, <3>3, WorldStep
  <2>3. CASE Spawn
    <3>1. PICK n \in Names, a \in Args : Run(lives + 1, n, a)
      BY <2>3 DEF Spawn
    <3>2. lives + 1 \in 1..MaxLives
      BY <2>0, <3>1, ProcFsAssumption DEF Run
    <3> QED BY <2>2, <3>1, <3>2
  <2>4. CASE Exec
    <3>1. os.process # 0 /\ \E n \in Names, a \in Args : Run(os.process, n, a)
      BY <2>4 DEF Exec
    <3>2. os.process \in 1..MaxLives
      BY <2>0, <3>1 DEF People, Somebody, Nobody
    <3> QED BY <2>2, <3>1, <3>2
  <2>5. CASE Begin
    BY <2>5, BeginStep
  <2>6. CASE StatDirectory
    BY <2>6, StatDirectoryStep
  <2>7. CASE OpenStat
    BY <2>7, OpenStatStep
  <2>8. CASE ReadStat
    BY <2>8, ReadStatStep
  <2>9. CASE ParseCharacter \/ ParseField
    BY <2>9, ParseStep
  <2>10. CASE Parsed
    BY <2>10, ParseEnds
  <2>11. CASE OpenComm
    BY <2>11, OpenCommStep
  <2>12. CASE ReadComm
    BY <2>12, ReadCommStep
  <2>13. CASE StatExe
    BY <2>13, StatExeStep
  <2>14. CASE ReadExe
    BY <2>14, ReadExeStep
  <2>15. CASE OpenCmdLine
    BY <2>15, OpenCmdLineStep
  <2>16. CASE ReadCmdLine
    BY <2>16, ReadCmdLineStep
  <2>17. CASE Return
    BY <2>17, ReturnStep
  <2>18. CASE UNCHANGED vars
    <3>1. /\ pc' = pc /\ lives' = lives /\ os' = os /\ seen' = seen /\ file' = file
          /\ line' = line /\ start' = start /\ end' = end /\ index' = index
          /\ stat' = stat /\ comm' = comm /\ exe' = exe /\ cmdLine' = cmdLine
      BY <2>18 DEF vars, parser, told
    <3>2. ASSUME NEW p, At(p) PROVE At(p)'
      BY <3>1, <3>2 DEF At, Place
    <3>3. Types' /\ Parsing' /\ StatTold' /\ OthersTold'
      BY <3>1, <3>2 DEF IInv, Types, Parsing, StatTold, OthersTold
    <3>4. Undisturbed'
      BY <3>1 DEF IInv, Undisturbed, SoFar, NothingSoFar
    <3> QED BY <3>3, <3>4 DEF IInv
  <2> QED BY <2>1, <2>3, <2>4, <2>5, <2>6, <2>7, <2>8, <2>9, <2>10, <2>11, <2>12,
             <2>13, <2>14, <2>15, <2>16, <2>17, <2>18 DEF Next
<1> QED BY <1>1, <1>2, PTL DEF Spec

(* However processes start, exit and execute other programs under the pid  *)
(* between the system calls of readProcess(), and whatever is in a name,   *)
(* what is told was true of one that had the pid, and the fields of its    *)
(* record are those of one program.                                        *)
THEOREM ToldIsTrue == Spec => []ToldWasTrue
<1>1. IInv => ToldWasTrue
  <2> SUFFICES ASSUME IInv, pc = "done" PROVE ToldWasTrue
    BY DEF ToldWasTrue
  <2>1. pc \in AfterStat /\ pc # "idle"
    BY DEF AfterStat, AfterComm, AfterExe
  <2>2. \/ stat \in {BlankStat, [BlankStat EXCEPT !.valid = TRUE]}
        \/ \E p \in seen \cap Somebody : stat = Complete(p)
    BY <2>1 DEF IInv, StatTold
  <2>3. ASSUME NEW p PROVE
          /\ Complete(p) = [valid |-> TRUE, pid |-> Pid, comm |-> p.name,
                            state |-> "S", ppid |-> Digit[p.process]]
          /\ Complete(p).pid = Pid
    BY DEF Complete, Told, Yes
  <2>4. /\ BlankStat.pid = Pid /\ BlankStat.ppid = "-1"
        /\ [BlankStat EXCEPT !.valid = TRUE].pid = Pid
        /\ [BlankStat EXCEPT !.valid = TRUE].ppid = "-1"
    BY DEF BlankStat
  <2>5. stat.pid = Pid
    BY <2>2, <2>3, <2>4
  <2>6. ASSUME stat.ppid # "-1"
        PROVE  \E p \in seen \ {Nobody} :
                 stat = [valid |-> TRUE, pid |-> Pid, comm |-> p.name,
                         state |-> "S", ppid |-> Digit[p.process]]
    <3>1. PICK p \in seen \cap Somebody : stat = Complete(p)
      BY <2>2, <2>4, <2>6
    <3> QED BY <2>3, <3>1, NobodyIsNotSomebody
  <2>7. /\ comm \in {p.name : p \in seen \cup {Nobody}}
        /\ exe \in {ExeOf(p) : p \in seen \cup {Nobody}}
        /\ cmdLine \in {<< >>} \cup {Words(p.args) : p \in seen}
    BY <2>1 DEF IInv, OthersTold
  <2> QED BY <2>5, <2>6, <2>7 DEF ToldWasTrue
<1> QED BY <1>1, Inductive, PTL

(* A process that runs one program from the first system call of           *)
(* readProcess() to the last is told with every field of its record, its   *)
(* name, its program and its arguments, and nothing is told of none.       *)
THEOREM UndisturbedAreComplete == Spec => []UndisturbedIsComplete
<1>1. IInv => UndisturbedIsComplete
  <2> SUFFICES ASSUME IInv, pc = "done", Cardinality(seen) = 1
               PROVE  UndisturbedIsComplete
    BY DEF UndisturbedIsComplete
  <2>1. PICK p \in People : seen = {p}
    <3>1. IsFiniteSet(seen) /\ seen \subseteq People /\ os \in seen
      BY DEF IInv, Types
    <3>2. \E q : seen = {q}
      BY <3>1, FS_Singleton
    <3> QED BY <3>1, <3>2
  <2>2. (CHOOSE q \in seen : TRUE) = p
    BY <2>1
  <2>3. CASE p = Nobody
    <3>1. NothingSoFar
      BY <2>1, <2>3 DEF IInv, Undisturbed
    <3> QED BY <2>2, <2>3, <3>1 DEF UndisturbedIsComplete, NothingSoFar
  <2>4. CASE p \in Somebody
    <3>1. SoFar(p) /\ p # Nobody
      BY <2>1, <2>4, NobodyIsNotSomebody DEF IInv, Undisturbed
    <3>2. stat = Complete(p) /\ comm = p.name /\ exe = ExeOf(p) /\ cmdLine = Words(p.args)
      BY <3>1 DEF SoFar, AfterStat, AfterComm, AfterExe
    <3>3. Complete(p) = [valid |-> TRUE, pid |-> Pid, comm |-> p.name,
                         state |-> "S", ppid |-> Digit[p.process]]
      BY DEF Complete, Told, Yes
    <3> QED BY <2>2, <3>1, <3>2, <3>3 DEF UndisturbedIsComplete
  <2> QED BY <2>1, <2>3, <2>4 DEF People
<1> QED BY <1>1, Inductive, PTL
=============================================================================
