--------------------------- MODULE LogFilesProofs ---------------------------
(***************************************************************************)
(* Proofs about LogFiles: all its safety properties.                       *)
(*                                                                         *)
(* The limit on files holds because a task counts all that its file holds  *)
(* but what is torn (Counted), and writes only while that is below the     *)
(* limit (Fits), whatever the length of the line.                          *)
(* Completeness and order follow from where each line is (LinesInv), and   *)
(* that a delete leaves nothing from what it has listed (Deleted).         *)
(***************************************************************************)
EXTENDS LogFiles, TLAPS

\* What TypeOK says of the log directory.
DirOK ==
    /\ DOMAIN files \subseteq Names
    /\ \A n \in DOMAIN files : files[n] \in Seq(Lines)
    /\ DOMAIN sizes = DOMAIN files
    /\ \A n \in DOMAIN sizes : sizes[n] \in [bytes : Nat, torn : Nat]

\* A task that has the current file open has counted it, but for torn lines.
Counted == \A s \in Streams : task[s].linked =>
             /\ Current(s) \in DOMAIN files
             /\ sizes[Current(s)].bytes <= task[s].size + sizes[Current(s)].torn

\* What is written goes to a file below the limit.
Fits == \A s \in Streams : task[s].step = "write" => task[s].size < MaxSize

\* While a task is about to open a new file, only an empty one can be there.
Fresh == \A s \in Streams : task[s].step = "reopen" /\ Current(s) \in DOMAIN files =>
           files[Current(s)] = <<>> /\ sizes[Current(s)] = NoBytes

\* A task between two reads has a line.
Busy == \A s \in Streams : task[s].step \in {"rename", "reopen", "write"} => task[s].line # 0

IInv == TypeOK /\ FilesAreBounded /\ Counted /\ Fits /\ Fresh /\ Busy

-----------------------------------------------------------------------------
\* The names of the files being written are names, and differ by stream.
LEMMA CurrentNames ==
    /\ Currents \subseteq Names
    /\ \A s \in Streams : Current(s) \in Currents
    /\ \A s, t \in Streams : Current(s) = Current(t) => s = t
    /\ \A s \in Streams : Current(s)[1] = s
<1>1. 0 \in 0 .. MaxTime
  BY BoundsAssumption
<1> QED BY <1>1 DEF Currents, Current, Names

\* What opening files keeps of the invariant.
LEMMA OpeningKeeps ==
    ASSUME IInv, NEW names, names \subseteq Currents, OpensFiles(names)
    PROVE  /\ DirOK'
           /\ names \subseteq DOMAIN files'
           /\ FilesAreBounded'
           /\ \A s \in Streams : Current(s) \in DOMAIN files =>
                /\ Current(s) \in DOMAIN files'
                /\ files'[Current(s)] = files[Current(s)]
                /\ sizes'[Current(s)] = sizes[Current(s)]
           /\ \A s \in Streams : Current(s) \in DOMAIN files' \ DOMAIN files =>
                /\ files'[Current(s)] = <<>>
                /\ sizes'[Current(s)] = NoBytes
<1>1. /\ DOMAIN files' = DOMAIN files \cup names
      /\ \A n \in DOMAIN files : files'[n] = files[n]
      /\ \A n \in names : n \notin DOMAIN files => files'[n] = <<>>
  BY DEF OpensFiles, Opened
<1>2. /\ DOMAIN sizes' = DOMAIN sizes \cup names
      /\ \A n \in DOMAIN sizes : sizes'[n] = sizes[n]
      /\ \A n \in names : n \notin DOMAIN sizes => sizes'[n] = NoBytes
  BY DEF OpensFiles, Opened
<1>3. DOMAIN sizes = DOMAIN files
  BY DEF IInv, TypeOK
<1>4. DOMAIN files' \subseteq Names
  BY <1>1, CurrentNames DEF IInv, TypeOK
<1>5. <<>> \in Seq(Lines) /\ NoBytes \in [bytes : Nat, torn : Nat]
  BY DEF NoBytes
<1>6. \A n \in DOMAIN files' : files'[n] \in Seq(Lines)
  BY <1>1, <1>5 DEF IInv, TypeOK
<1>7. \A n \in DOMAIN sizes' : sizes'[n] \in [bytes : Nat, torn : Nat]
  BY <1>2, <1>5 DEF IInv, TypeOK
<1>8. FilesAreBounded'
  <2>1. \A n \in DOMAIN files' : files'[n] # <<>> =>
          n \in DOMAIN files /\ files'[n] = files[n] /\ sizes'[n] = sizes[n]
    BY <1>1, <1>2, <1>3
  <2> QED BY <2>1 DEF IInv, FilesAreBounded
<1> QED BY <1>1, <1>2, <1>3, <1>4, <1>6, <1>7, <1>8 DEF DirOK

LEMMA InitInv == ASSUME Init PROVE IInv
<1>1. TypeOK
  <2>1. now \in 1 .. MaxTime
    BY BoundsAssumption DEF Init
  <2>2. printed \in 0 .. MaxLines
    BY BoundsAssumption DEF Init
  <2>3. queue \in [Streams -> Seq(Lines)]
    BY DEF Init, NothingQueued
  <2>4. stuck \in [Streams -> 0 .. PipeSize]
    BY SizesAssumption DEF Init, NothingStuck
  <2>5. task \in [Streams -> Task]
    <3>1. 0 \in 0 .. MaxLines
      BY BoundsAssumption
    <3>2. NoTask \in Task
      BY <3>1 DEF NoTask, Task
    <3> QED BY <3>2 DEF Init
  <2>6. DOMAIN files = {} /\ DOMAIN sizes = {}
    BY DEF Init
  <2> QED BY <2>1, <2>2, <2>3, <2>4, <2>5, <2>6 DEF Init, TypeOK
<1>2. FilesAreBounded
  BY DEF Init, FilesAreBounded
<1>3. \A s \in Streams : task[s].linked = FALSE /\ task[s].step = "none"
  BY DEF Init, NoTask
<1> QED BY <1>1, <1>2, <1>3 DEF IInv, Counted, Fits, Fresh, Busy

-----------------------------------------------------------------------------
\* A step that changes no file, and no task but one to give up its file, to
\* write within the limit, or to stay where it is.
LEMMA SameFilesKeep ==
    ASSUME IInv, TypeOK', UNCHANGED <<files, sizes>>,
           \A t \in Streams : /\ task'[t].linked => task[t].linked
                              /\ task'[t].size = task[t].size
                              /\ task'[t].step = "write" => task[t].size < MaxSize
                              /\ task'[t].step = "reopen" => task[t].step = "reopen"
                              /\ task'[t].step \in {"rename", "reopen", "write"} => task'[t].line # 0
    PROVE  IInv'
<1>1. FilesAreBounded'
  BY DEF IInv, FilesAreBounded
<1>2. Counted'
  BY DEF IInv, Counted
<1>3. Fits'
  BY DEF Fits
<1>4. Fresh'
  BY DEF IInv, Fresh
<1>5. Busy'
  BY DEF Busy
<1> QED BY <1>1, <1>2, <1>3, <1>4, <1>5 DEF IInv

\* A task goes to another step.
LEMMA TaskGoes ==
    ASSUME TypeOK, NEW s \in Streams,
           NEW step \in {"none", "start", "read", "rename", "reopen", "write", "end"},
           NEW line \in 0 .. MaxLines,
           \/ task' = [task EXCEPT ![s].step = step, ![s].line = line]
           \/ line = task[s].line /\ Goto(s, step)
    PROVE  /\ task' \in [Streams -> Task]
           /\ task'[s] = [task[s] EXCEPT !.step = step, !.line = line]
           /\ task'[s].step = step
           /\ task'[s].line = line
           /\ \A t \in Streams : /\ task'[t].linked = task[t].linked
                                 /\ task'[t].size = task[t].size
           /\ \A t \in Streams \ {s} : task'[t] = task[t]
<1>1. [task[s] EXCEPT !.step = step, !.line = line] \in Task
  BY DEF TypeOK, Task
<1>2. task[s] \in Task
  BY DEF TypeOK
<1>3. CASE task' = [task EXCEPT ![s].step = step, ![s].line = line]
  BY <1>1, <1>3 DEF TypeOK
<1>4. CASE line = task[s].line /\ Goto(s, step)
  <2>1. [task[s] EXCEPT !.step = step] = [task[s] EXCEPT !.step = step, !.line = line]
    BY <1>2, <1>4 DEF Task
  <2>2. task' = [task EXCEPT ![s] = [task[s] EXCEPT !.step = step]]
    BY <1>4 DEF Goto
  <2>3. task' = [task EXCEPT ![s] = [task[s] EXCEPT !.step = step, !.line = line]]
    BY <2>1, <2>2, Zenon
  <2> QED BY <1>1, <2>3 DEF TypeOK
<1>5. /\ task' \in [Streams -> Task]
      /\ task'[s] = [task[s] EXCEPT !.step = step, !.line = line]
      /\ \A t \in Streams \ {s} : task'[t] = task[t]
  BY <1>3, <1>4
<1>6. /\ task'[s].step = step
      /\ task'[s].line = line
      /\ task'[s].linked = task[s].linked
      /\ task'[s].size = task[s].size
  BY <1>2, <1>5 DEF Task
<1> QED BY <1>5, <1>6

\* A task gives up its line: what holds then, were the files the same.
LEMMA GivingUpKeeps ==
    ASSUME IInv, NEW s \in Streams, GiveUp(s), task[s].step \in {"rename", "reopen", "write"}
    PROVE  /\ task' \in [Streams -> Task]
           /\ dropped' \subseteq Lines
           /\ \A t \in Streams : /\ task'[t].linked = task[t].linked
                                 /\ task'[t].size = task[t].size
                                 /\ task'[t].step = "write" => task[t].size < MaxSize
                                 /\ task'[t].step = "reopen" => task[t].step = "reopen"
                                 /\ task'[t].step \in {"rename", "reopen", "write"} => task'[t].line # 0
<1>1. 0 \in 0 .. MaxLines
  BY BoundsAssumption
<1>2. task[s].line \in Lines
  BY DEF IInv, TypeOK, Task, Lines, Busy
<1>3. /\ task' \in [Streams -> Task]
      /\ task'[s].step = "read"
      /\ \A t \in Streams : /\ task'[t].linked = task[t].linked
                            /\ task'[t].size = task[t].size
      /\ \A t \in Streams \ {s} : task'[t] = task[t]
  BY <1>1, TaskGoes DEF IInv, GiveUp
<1>4. dropped' \subseteq Lines
  BY <1>2 DEF IInv, TypeOK, GiveUp, Drop
<1>5. \A t \in Streams : /\ task'[t].linked = task[t].linked
                         /\ task'[t].size = task[t].size
                         /\ task'[t].step = "write" => task[t].size < MaxSize
                         /\ task'[t].step = "reopen" => task[t].step = "reopen"
                         /\ task'[t].step \in {"rename", "reopen", "write"} => task'[t].line # 0
  <2> TAKE t \in Streams
  <2>1. CASE t = s
    BY <1>3, <2>1
  <2>2. CASE t # s
    <3>1. task[t].step = "write" => task[t].size < MaxSize
      BY DEF IInv, Fits
    <3>2. task'[t] = task[t]
      BY <1>3, <2>2
    <3>3. task[t].step \in {"rename", "reopen", "write"} => task[t].line # 0
      BY DEF IInv, Busy
    <3> QED BY <3>1, <3>2, <3>3
  <2> QED BY <2>1, <2>2
<1> QED BY <1>3, <1>4, <1>5

LEMMA StepKeepsInv ==
    ASSUME IInv, [Next]_vars
    PROVE  IInv'
<1> USE DEF IInv
<1>1. CASE Start
  <2>1. DirOK' /\ FilesAreBounded'
    BY <1>1, OpeningKeeps DEF Start
  <2>2. 0 \in 0 .. MaxLines
    BY BoundsAssumption
  <2>3. [NoTask EXCEPT !.step = "start"] \in Task
    BY <2>2 DEF NoTask, Task
  <2>4. task' \in [Streams -> Task]
    BY <1>1, <2>3 DEF Start
  <2>5. TypeOK'
    BY <1>1, <2>1, <2>4 DEF Start, TypeOK, DirOK
  <2>6. \A s \in Streams : task'[s].linked = FALSE /\ task'[s].step = "start"
    BY <1>1 DEF Start, NoTask
  <2> QED BY <2>1, <2>5, <2>6 DEF Counted, Fits, Fresh, Busy
<1>2. CASE StartUnlogged
  <2>1. PICK names \in SUBSET Currents : OpensFiles(names)
    BY <1>2 DEF StartUnlogged
  <2>2. /\ DirOK' /\ FilesAreBounded'
        /\ \A s \in Streams : Current(s) \in DOMAIN files =>
             /\ Current(s) \in DOMAIN files'
             /\ files'[Current(s)] = files[Current(s)]
             /\ sizes'[Current(s)] = sizes[Current(s)]
        /\ \A s \in Streams : Current(s) \in DOMAIN files' \ DOMAIN files =>
             files'[Current(s)] = <<>> /\ sizes'[Current(s)] = NoBytes
    BY <2>1, OpeningKeeps
  <2>3. TypeOK'
    BY <1>2, <2>2 DEF StartUnlogged, TypeOK, DirOK
  <2>4. UNCHANGED task
    BY <1>2 DEF StartUnlogged
  <2> QED BY <2>2, <2>3, <2>4 DEF Counted, Fits, Fresh, Busy
<1>3. ASSUME NEW s \in Streams, Prints(s) PROVE IInv'
  <2>1. printed' \in Lines /\ printed' \in 0 .. MaxLines
    BY <1>3, BoundsAssumption DEF Prints, TypeOK, Lines
  <2>2. Append(queue[s], printed') \in Seq(Lines)
    BY <2>1 DEF TypeOK
  <2>3. queue' \in [Streams -> Seq(Lines)]
    BY <1>3, <2>2 DEF Prints, TypeOK
  <2>4. TypeOK'
    BY <1>3, <2>1, <2>3 DEF Prints, TypeOK
  <2> QED BY <1>3, <2>4 DEF Prints, FilesAreBounded, Counted, Fits, Fresh, Busy
<1>4. ASSUME NEW s \in Streams, PrintsUncaptured(s) PROVE IInv'
  <2>1. stuck[s] + 1 \in 0 .. PipeSize
    BY <1>4, SizesAssumption DEF PrintsUncaptured, TypeOK
  <2>2. TypeOK'
    BY <1>4, <2>1 DEF PrintsUncaptured, TypeOK
  <2> QED BY <1>4, <2>2 DEF PrintsUncaptured, FilesAreBounded, Counted, Fits, Fresh, Busy
<1> DEFINE Same == UNCHANGED <<task, files, sizes>>
<1>5. ASSUME Same, TypeOK' PROVE IInv'
  BY <1>5 DEF FilesAreBounded, Counted, Fits, Fresh, Busy
<1>6. NothingStuck \in [Streams -> 0 .. PipeSize] /\ NothingQueued \in [Streams -> Seq(Lines)]
  BY SizesAssumption DEF NothingStuck, NothingQueued
<1>7. CASE ChildExits
  BY <1>5, <1>6, <1>7 DEF ChildExits, TypeOK
<1>8. CASE Restart
  BY <1>5, <1>6, <1>8 DEF Restart, TypeOK
<1>9. CASE Delete
  BY <1>5, <1>6, <1>9 DEF Delete, TypeOK
<1>10. ASSUME NEW s \in Streams, Opens(s) PROVE IInv'
  <2>1. /\ DirOK' /\ FilesAreBounded'
        /\ \A t \in Streams : Current(t) \in DOMAIN files =>
             /\ Current(t) \in DOMAIN files'
             /\ files'[Current(t)] = files[Current(t)]
             /\ sizes'[Current(t)] = sizes[Current(t)]
        /\ \A t \in Streams : Current(t) \in DOMAIN files' \ DOMAIN files =>
             files'[Current(t)] = <<>> /\ sizes'[Current(t)] = NoBytes
    BY <1>10, OpeningKeeps DEF Opens
  <2>2. Current(s) \in DOMAIN files'
    BY <1>10, CurrentNames, OpeningKeeps DEF Opens
  <2> DEFINE len == sizes'[Current(s)].bytes
             r == [step |-> "read", linked |-> TRUE, size |-> len, line |-> 0]
  <2>3. len \in Nat /\ sizes'[Current(s)].torn \in Nat
    BY <2>1, <2>2 DEF DirOK
  <2>5. 0 \in 0 .. MaxLines
    BY BoundsAssumption
  <2>6. r \in Task
    BY <2>3, <2>5 DEF Task
  <2>7. /\ task' \in [Streams -> Task]
        /\ task'[s] = r
        /\ \A t \in Streams \ {s} : task'[t] = task[t]
    BY <1>10, <2>6 DEF Opens, Ready, TypeOK
  <2>8. TypeOK'
    BY <1>10, <2>1, <2>7 DEF Opens, process, TypeOK, DirOK
  <2>9. Counted'
    <3>1. \A t \in Streams \ {s} : task[t].linked =>
            /\ Current(t) \in DOMAIN files'
            /\ sizes'[Current(t)].bytes <= task[t].size + sizes'[Current(t)].torn
      BY <2>1 DEF Counted
    <3>2. task'[s].size = len
      BY <2>7
    <3>3. len <= task'[s].size + sizes'[Current(s)].torn
      BY <2>3, <3>2
    <3> QED BY <2>2, <2>7, <3>1, <3>3 DEF Counted
  <2>10. Fits'
    BY <2>7 DEF Fits
  <2>11. Fresh'
    BY <2>1, <2>7 DEF Fresh
  <2>12. Busy'
    BY <2>7 DEF Busy
  <2> QED BY <2>1, <2>8, <2>9, <2>10, <2>11, <2>12
<1>11. ASSUME NEW s \in Streams, OpenFails(s) \/ ReadFails(s) PROVE IInv'
  <2>0. ClosesPipe(s)
    BY <1>11 DEF OpenFails, ReadFails
  <2>1. /\ task' \in [Streams -> Task]
        /\ task'[s].step = "end"
        /\ \A t \in Streams : /\ task'[t].linked = task[t].linked
                              /\ task'[t].size = task[t].size
        /\ \A t \in Streams \ {s} : task'[t] = task[t]
    BY <2>0, TaskGoes, task[s] \in Task DEF ClosesPipe, TypeOK, Task
  <2>2. queue' \in [Streams -> Seq(Lines)]
    BY <2>0 DEF ClosesPipe, TypeOK
  <2>3. dropped' \subseteq Lines
    BY <2>0 DEF ClosesPipe, Drop, TypeOK, Range
  <2>4. TypeOK'
    BY <2>0, <2>1, <2>2, <2>3 DEF ClosesPipe, TypeOK
  <2> QED BY <2>0, <2>1, <2>4, SameFilesKeep DEF ClosesPipe, Fits, Busy
<1>12. ASSUME NEW s \in Streams, Takes(s) PROVE IInv'
  <2> DEFINE to == IF task[s].size >= MaxSize THEN "rename" ELSE "write"
  <2>1. queue[s] \in Seq(Lines) /\ queue[s] # <<>>
    BY <1>12 DEF Takes, TypeOK
  <2>2. Head(queue[s]) \in Lines /\ Tail(queue[s]) \in Seq(Lines)
    BY <2>1
  <2>3. Head(queue[s]) \in 0 .. MaxLines /\ Head(queue[s]) # 0
    BY <2>2, BoundsAssumption DEF Lines
  <2>4. /\ task' \in [Streams -> Task]
        /\ task'[s].step = to
        /\ task'[s].line = Head(queue[s])
        /\ \A t \in Streams : /\ task'[t].linked = task[t].linked
                              /\ task'[t].size = task[t].size
        /\ \A t \in Streams \ {s} : task'[t] = task[t]
    BY <1>12, <2>3, TaskGoes DEF Takes
  <2>5. queue' \in [Streams -> Seq(Lines)]
    BY <1>12, <2>2 DEF Takes, TypeOK
  <2>6. TypeOK'
    BY <1>12, <2>4, <2>5 DEF Takes, TypeOK
  <2>7. to = "write" => task[s].size < MaxSize
    BY SizesAssumption DEF TypeOK, Task
  <2> QED BY <1>12, <2>3, <2>4, <2>6, <2>7, SameFilesKeep DEF Takes, Fits, Busy
<1>13. ASSUME NEW s \in Streams, Ends(s) PROVE IInv'
  <2>1. /\ task' \in [Streams -> Task]
        /\ task'[s].step = "end"
        /\ \A t \in Streams : /\ task'[t].linked = task[t].linked
                              /\ task'[t].size = task[t].size
        /\ \A t \in Streams \ {s} : task'[t] = task[t]
    BY <1>13, TaskGoes, task[s] \in Task DEF Ends, TypeOK, Task
  <2>2. TypeOK'
    BY <1>13, <2>1 DEF Ends, process, TypeOK
  <2> QED BY <1>13, <2>1, <2>2, SameFilesKeep DEF Ends, Fits, Busy
<1>14. ASSUME NEW s \in Streams, RenameFails(s) \/ ReopenFails(s) \/ WriteFails(s) PROVE IInv'
  <2>1. /\ GiveUp(s) /\ task[s].step \in {"rename", "reopen", "write"}
        /\ UNCHANGED <<now, process, files, deleting, raced>>
    BY <1>14 DEF RenameFails, ReopenFails, WriteFails
  <2>2. /\ task' \in [Streams -> Task]
        /\ dropped' \subseteq Lines
        /\ \A t \in Streams : /\ task'[t].linked = task[t].linked
                              /\ task'[t].size = task[t].size
                              /\ task'[t].step = "write" => task[t].size < MaxSize
                              /\ task'[t].step = "reopen" => task[t].step = "reopen"
                              /\ task'[t].step \in {"rename", "reopen", "write"} => task'[t].line # 0
    BY <2>1, GivingUpKeeps
  <2>3. CASE UNCHANGED sizes
    <3>1. TypeOK'
      BY <2>1, <2>2, <2>3 DEF process, TypeOK
    <3> QED BY <2>1, <2>2, <2>3, <3>1, SameFilesKeep
  <2>4. CASE WriteFails(s) /\ task[s].linked
    <3>1. task[s].line \in Lines /\ Length[task[s].line] \in Nat
      BY <2>1, LengthAssumption DEF Busy, TypeOK, Task, Lines
    <3>2. PICK part \in 0 .. Length[task[s].line] - 1 :
            sizes' = [sizes EXCEPT ![Current(s)].bytes = @ + part, ![Current(s)].torn = @ + part]
      BY <2>4 DEF WriteFails
    <3>3. part \in Nat
      BY <3>1, <3>2
    <3>4. /\ Current(s) \in DOMAIN sizes
          /\ sizes[Current(s)] \in [bytes : Nat, torn : Nat]
      BY <2>4 DEF Counted, TypeOK
    <3>5. /\ DOMAIN sizes' = DOMAIN sizes
          /\ sizes'[Current(s)] = [bytes |-> sizes[Current(s)].bytes + part,
                                   torn  |-> sizes[Current(s)].torn + part]
          /\ \A n \in DOMAIN sizes \ {Current(s)} : sizes'[n] = sizes[n]
      BY <3>2, <3>4
    <3>6. sizes'[Current(s)] \in [bytes : Nat, torn : Nat]
      BY <3>3, <3>4, <3>5
    <3>7. TypeOK'
      BY <2>1, <2>2, <3>5, <3>6 DEF process, TypeOK
    <3>8. \A n \in DOMAIN sizes :
            /\ sizes'[n].bytes - sizes'[n].torn = sizes[n].bytes - sizes[n].torn
            /\ \A k \in Nat : sizes[n].bytes <= k + sizes[n].torn =>
                             sizes'[n].bytes <= k + sizes'[n].torn
      BY <3>3, <3>4, <3>5
    <3>9. FilesAreBounded'
      BY <2>1, <3>8 DEF FilesAreBounded, TypeOK
    <3>10. Counted'
      BY <2>1, <2>2, <3>8 DEF Counted, TypeOK, Task
    <3>11. Fits' /\ Busy'
      BY <2>2 DEF Fits, Busy
    <3>12. Fresh'
      <4>1. task'[s].step # "reopen"
        BY <2>2, <2>4 DEF WriteFails
      <4>2. \A t \in Streams \ {s} : Current(t) # Current(s)
        BY CurrentNames
      <4> QED BY <2>1, <2>2, <3>5, <4>1, <4>2 DEF Fresh, TypeOK
    <3> QED BY <3>7, <3>9, <3>10, <3>11, <3>12
  <2> QED BY <1>14, <2>3, <2>4 DEF RenameFails, ReopenFails, WriteFails
<1>15. ASSUME NEW s \in Streams, Renames(s) PROVE IInv'
  <2> DEFINE to == <<s, now>>
  <2>1. /\ task[s].step = "rename" /\ task[s].line # 0 /\ task[s].line \in 0 .. MaxLines
        /\ Current(s) \in DOMAIN files
        /\ DOMAIN files' = (DOMAIN files \ {Current(s)}) \cup {to}
        /\ \A n \in DOMAIN files' : files'[n] = files[IF n = to THEN Current(s) ELSE n]
        /\ DOMAIN sizes' = DOMAIN files'
        /\ \A n \in DOMAIN sizes' : sizes'[n] = sizes[IF n = to THEN Current(s) ELSE n]
    BY <1>15 DEF Renames, RenamesTo, Renamed, Busy, TypeOK, Task
  <2>2. to \in Names /\ \A t \in Streams : Current(t) # to
    BY DEF Names, Current, TypeOK
  <2>3. \A n \in DOMAIN files' : \E m \in DOMAIN files : files'[n] = files[m] /\ sizes'[n] = sizes[m]
    BY <2>1
  <2>4. DirOK' /\ FilesAreBounded'
    BY <2>1, <2>2, <2>3 DEF TypeOK, DirOK, FilesAreBounded
  <2>5. [task[s] EXCEPT !.step = "reopen", !.linked = FALSE] \in Task
    BY DEF TypeOK, Task
  <2>6. /\ task' \in [Streams -> Task]
        /\ task'[s] = [task[s] EXCEPT !.step = "reopen", !.linked = FALSE]
        /\ \A t \in Streams \ {s} : task'[t] = task[t]
    BY <1>15, <2>5 DEF Renames, RenamesTo, TypeOK
  <2>7. task'[s].step = "reopen" /\ task'[s].linked = FALSE /\ task'[s].line # 0
    BY <2>1, <2>6 DEF TypeOK, Task
  <2>8. dropped' \subseteq Lines
    BY <1>15 DEF Renames, RenamesTo, Drop, LinesOf, Range, TypeOK
  <2>9. TypeOK'
    BY <1>15, <2>4, <2>6, <2>8 DEF Renames, RenamesTo, process, TypeOK, DirOK
  <2>10. \A t \in Streams \ {s} : Current(t) \in DOMAIN files <=> Current(t) \in DOMAIN files'
    BY <2>1, <2>2, CurrentNames
  <2>11. \A t \in Streams \ {s} : Current(t) \in DOMAIN files =>
           /\ files'[Current(t)] = files[Current(t)]
           /\ sizes'[Current(t)] = sizes[Current(t)]
    BY <2>1, <2>2, <2>10
  <2>12. Current(s) \notin DOMAIN files'
    BY <2>1, <2>2
  <2>13. Counted'
    BY <2>6, <2>7, <2>10, <2>11 DEF Counted
  <2>14. Fits'
    BY <2>6, <2>7 DEF Fits
  <2>15. Fresh'
    BY <2>6, <2>10, <2>11, <2>12 DEF Fresh
  <2>16. Busy'
    BY <2>6, <2>7 DEF Busy
  <2> QED BY <2>4, <2>9, <2>13, <2>14, <2>15, <2>16
<1>16. ASSUME NEW s \in Streams, Reopens(s) PROVE IInv'
  <2>1. {Current(s)} \subseteq Currents /\ OpensFiles({Current(s)})
    BY <1>16, CurrentNames DEF Reopens
  <2>2. /\ DirOK' /\ FilesAreBounded'
        /\ \A t \in Streams : Current(t) \in DOMAIN files =>
             /\ Current(t) \in DOMAIN files'
             /\ files'[Current(t)] = files[Current(t)]
             /\ sizes'[Current(t)] = sizes[Current(t)]
        /\ \A t \in Streams : Current(t) \in DOMAIN files' \ DOMAIN files =>
             files'[Current(t)] = <<>> /\ sizes'[Current(t)] = NoBytes
    BY <2>1, OpeningKeeps
  <2>3. Current(s) \in DOMAIN files'
    BY <2>1, OpeningKeeps
  <2>4. sizes'[Current(s)] = NoBytes
    BY <1>16, <2>2, <2>3 DEF Reopens, Fresh
  <2>5. 0 \in Nat /\ 0 < MaxSize
    BY SizesAssumption
  <2>6. [task[s] EXCEPT !.step = "write", !.linked = TRUE, !.size = 0] \in Task
    BY <2>5 DEF TypeOK, Task
  <2>7. /\ task' \in [Streams -> Task]
        /\ task'[s] = [task[s] EXCEPT !.step = "write", !.linked = TRUE, !.size = 0]
        /\ \A t \in Streams \ {s} : task'[t] = task[t]
    BY <1>16, <2>6 DEF Reopens, TypeOK
  <2>8. /\ task'[s].step = "write" /\ task'[s].linked /\ task'[s].size = 0
        /\ task'[s].line # 0
    BY <1>16, <2>7 DEF Reopens, Busy, TypeOK, Task
  <2>9. TypeOK'
    BY <1>16, <2>2, <2>7 DEF Reopens, process, TypeOK, DirOK
  <2>11. Counted'
    <3>1. \A t \in Streams \ {s} : task[t].linked =>
            /\ Current(t) \in DOMAIN files'
            /\ sizes'[Current(t)].bytes <= task[t].size + sizes'[Current(t)].torn
      BY <2>2 DEF Counted
    <3>2. sizes'[Current(s)].bytes <= task'[s].size + sizes'[Current(s)].torn
      BY <2>4, <2>8 DEF NoBytes
    <3> QED BY <2>3, <2>7, <3>1, <3>2 DEF Counted
  <2>12. Fits'
    BY <2>5, <2>7, <2>8 DEF Fits
  <2>13. Fresh'
    BY <2>2, <2>7, <2>8 DEF Fresh
  <2>14. Busy'
    BY <2>7, <2>8 DEF Busy
  <2> QED BY <2>2, <2>9, <2>11, <2>12, <2>13, <2>14
<1>17. ASSUME NEW s \in Streams, Writes(s) PROVE IInv'
  <2>1. /\ task[s].step = "write" /\ task[s].size < MaxSize
        /\ task[s].line \in Lines
    BY <1>17 DEF Writes, Fits, Busy, TypeOK, Task, Lines
  <2> DEFINE len == Length[task[s].line]
  <2>2. /\ task[s] \in Task
        /\ len \in Nat /\ task[s].size \in Nat /\ task[s].size + len \in Nat
        /\ 0 \in 0 .. MaxLines
    BY <2>1, LengthAssumption, BoundsAssumption DEF TypeOK, Task
  <2>3. [task[s] EXCEPT !.step = "read", !.line = 0, !.size = @ + len] \in Task
    BY <2>2 DEF Task
  <2>4. /\ task' \in [Streams -> Task]
        /\ task'[s] = [task[s] EXCEPT !.step = "read", !.line = 0, !.size = @ + len]
        /\ \A t \in Streams \ {s} : task'[t] = task[t]
    BY <1>17, <2>3 DEF Writes, TypeOK
  <2>5. /\ task'[s].step = "read" /\ task'[s].linked = task[s].linked
        /\ task'[s].size = task[s].size + len
    BY <2>2, <2>4 DEF Task
  <2>6. Busy' /\ Fits'
    BY <2>4, <2>5 DEF Busy, Fits
  <2>7. CASE task[s].linked
    <3> DEFINE c == Current(s)
    <3>1. /\ c \in DOMAIN files /\ files[c] \in Seq(Lines)
          /\ c \in DOMAIN sizes /\ sizes[c] \in [bytes : Nat, torn : Nat]
          /\ sizes[c].bytes <= task[s].size + sizes[c].torn
      BY <2>7 DEF Counted, TypeOK
    <3>2. /\ files' = [files EXCEPT ![c] = Append(@, task[s].line)]
          /\ sizes' = [sizes EXCEPT ![c].bytes = @ + len]
          /\ UNCHANGED dropped
      BY <1>17, <2>7 DEF Writes
    <3>3. /\ DOMAIN files' = DOMAIN files
          /\ files'[c] = Append(files[c], task[s].line)
          /\ \A n \in DOMAIN files \ {c} : files'[n] = files[n]
      BY <3>1, <3>2
    <3>4. /\ DOMAIN sizes' = DOMAIN sizes
          /\ sizes'[c] = [bytes |-> sizes[c].bytes + len, torn |-> sizes[c].torn]
          /\ \A n \in DOMAIN sizes \ {c} : sizes'[n] = sizes[n]
      BY <3>1, <3>2
    <3>5. files'[c] \in Seq(Lines) /\ sizes'[c] \in [bytes : Nat, torn : Nat]
      BY <2>1, <2>2, <3>1, <3>3, <3>4
    <3>6. TypeOK'
      BY <1>17, <2>4, <3>2, <3>3, <3>4, <3>5 DEF Writes, process, TypeOK
    <3>7. FilesAreBounded'
      <4>1. files'[c][Len(files'[c])] = task[s].line
        BY <2>1, <3>1, <3>3
      <4>2. sizes'[c].bytes - sizes'[c].torn < MaxSize + len
        BY <2>1, <2>2, <3>1, <3>4, SizesAssumption
      <4> QED BY <3>3, <3>4, <4>1, <4>2 DEF FilesAreBounded, TypeOK
    <3>8. \A t \in Streams \ {s} : Current(t) # c
      BY CurrentNames
    <3>9. Counted'
      <4>1. \A t \in Streams \ {s} : task[t].linked =>
              /\ Current(t) \in DOMAIN files'
              /\ sizes'[Current(t)].bytes <= task[t].size + sizes'[Current(t)].torn
        BY <3>3, <3>4, <3>8 DEF Counted, TypeOK
      <4>2. c \in DOMAIN files' /\ sizes'[c].bytes <= task'[s].size + sizes'[c].torn
        BY <2>2, <2>5, <3>1, <3>3, <3>4
      <4>3. \A t \in Streams \ {s} : task'[t] = task[t]
        BY <2>4
      <4> QED BY <4>1, <4>2, <4>3 DEF Counted
    <3>10. Fresh'
      BY <2>4, <2>5, <3>3, <3>4, <3>8 DEF Fresh, TypeOK
    <3> QED BY <2>6, <3>6, <3>7, <3>9, <3>10
  <2>8. CASE ~task[s].linked
    <3>1. UNCHANGED <<files, sizes>> /\ dropped' \subseteq Lines
      BY <1>17, <2>1, <2>8 DEF Writes, Drop, TypeOK
    <3>2. TypeOK'
      BY <1>17, <2>4, <3>1 DEF Writes, process, TypeOK
    <3>3. FilesAreBounded'
      BY <3>1 DEF FilesAreBounded
    <3>4. Counted'
      BY <2>4, <2>5, <2>8, <3>1 DEF Counted
    <3>5. Fresh'
      BY <2>4, <2>5, <3>1 DEF Fresh
    <3> QED BY <2>6, <3>2, <3>3, <3>4, <3>5
  <2> QED BY <2>7, <2>8
<1>18. ASSUME NEW name \in deleting, Unlinks(name) PROVE IInv'
  <2>1. name \in Names /\ name[1] \in Streams
    BY DEF TypeOK, Names
  <2>2. /\ DOMAIN files' = DOMAIN files \ {name}
        /\ \A n \in DOMAIN files' : files'[n] = files[n]
        /\ DOMAIN sizes' = DOMAIN files'
        /\ \A n \in DOMAIN sizes' : sizes'[n] = sizes[n]
    BY <1>18 DEF Unlinks, Restrict, TypeOK
  <2>3. dropped' \subseteq Lines
    BY <1>18 DEF Unlinks, Drop, LinesOf, Range, TypeOK
  <2>4. \A t \in Streams : task[t] \in Task /\ [task[t] EXCEPT !.linked = FALSE] \in Task
    BY DEF TypeOK, Task
  <2>5. task' \in [Streams -> Task]
    BY <1>18, <2>1, <2>4 DEF Unlinks, TypeOK
  <2>6. \A t \in Streams : /\ task'[t].step = task[t].step
                           /\ task'[t].size = task[t].size
                           /\ task'[t].line = task[t].line
                           /\ task'[t].linked => task[t].linked
    BY <1>18, <2>1, <2>4 DEF Unlinks, TypeOK, Task
  <2>7. \A t \in Streams : Current(t) = name => task'[t].linked = FALSE
    <3>1. ASSUME NEW t \in Streams, Current(t) = name PROVE task'[t].linked = FALSE
      <4>1. name \in Currents /\ name[1] = t
        BY <3>1, CurrentNames
      <4>2. task' = [task EXCEPT ![t].linked = FALSE]
        BY <1>18, <4>1 DEF Unlinks
      <4> QED BY <2>4, <4>2 DEF TypeOK, Task
    <3> QED BY <3>1
  <2>8. TypeOK'
    BY <1>18, <2>2, <2>3, <2>5 DEF Unlinks, process, TypeOK
  <2>9. FilesAreBounded'
    BY <2>2 DEF FilesAreBounded
  <2>10. Counted'
    BY <2>2, <2>6, <2>7 DEF Counted
  <2>11. Fits' /\ Busy'
    BY <2>6 DEF Fits, Busy
  <2>12. Fresh'
    BY <2>2, <2>6 DEF Fresh
  <2> QED BY <2>8, <2>9, <2>10, <2>11, <2>12
<1>19. ASSUME NEW name \in deleting, UnlinkFails(name) PROVE IInv'
  BY <1>5, <1>19 DEF UnlinkFails, process, TypeOK
<1>20. CASE DaemonEnds
  <2>1. 0 \in 0 .. MaxLines
    BY BoundsAssumption
  <2>2. NoTask \in Task
    BY <2>1 DEF NoTask, Task
  <2>3. task' \in [Streams -> Task]
    BY <1>20, <2>2 DEF DaemonEnds
  <2>4. \A s \in Streams : task'[s].linked = FALSE /\ task'[s].step = "none"
    BY <1>20 DEF DaemonEnds, NoTask
  <2>5. \A s \in Streams : Range(queue[s]) \cup Held(s) \subseteq Lines
    <3> TAKE s \in Streams
    <3>1. Range(queue[s]) \subseteq Lines
      BY DEF TypeOK, Range
    <3>2. Held(s) \subseteq Lines
      BY DEF TypeOK, Held, Task, Lines
    <3> QED BY <3>1, <3>2
  <2>6. dropped' \subseteq Lines
    BY <1>20, <2>5 DEF DaemonEnds, Drop, TypeOK
  <2>7. TypeOK'
    BY <1>6, <1>20, <2>3, <2>6 DEF DaemonEnds, TypeOK
  <2>8. FilesAreBounded'
    BY <1>20 DEF DaemonEnds, FilesAreBounded
  <2> QED BY <2>4, <2>7, <2>8 DEF Counted, Fits, Fresh, Busy
<1>21. CASE Tick
  <2>1. now' \in 1 .. MaxTime
    BY <1>21, BoundsAssumption DEF Tick, TypeOK
  <2>2. TypeOK'
    BY <1>21, <2>1 DEF Tick, process, TypeOK
  <2>3. Same
    BY <1>21 DEF Tick
  <2> QED BY <1>5, <2>2, <2>3
<1>22. CASE UNCHANGED vars
  BY <1>5, <1>22 DEF vars, process, TypeOK
<1>23. ASSUME NEW s \in Streams, TaskStep(s) PROVE IInv'
  BY <1>10, <1>11, <1>12, <1>13, <1>14, <1>15, <1>16, <1>17, <1>23, Zenon DEF TaskStep
<1> QED
  BY <1>1, <1>2, <1>3, <1>4, <1>7, <1>8, <1>9, <1>18, <1>19, <1>20, <1>21, <1>22, <1>23, Zenon
  DEF Next

LEMMA Invariance == Spec => []IInv
BY InitInv, StepKeepsInv, PTL DEF Spec

\* Every variable keeps its shape, for any streams, limits and bounds.
THEOREM TypeCorrectness == Spec => []TypeOK
<1>1. IInv => TypeOK
  BY DEF IInv
<1> QED BY Invariance, <1>1, PTL

\* For lines of any length, a file outgrows the limit by less than the last line
\* in it and what torn lines left there: of the daemons that write it in turn, each
\* counts what it finds and what it writes.
THEOREM FilesStayBounded == Spec => []FilesAreBounded
<1>1. IInv => FilesAreBounded
  BY DEF IInv
<1> QED BY Invariance, <1>1, PTL

-----------------------------------------------------------------------------
(* Where the lines are.  A stream's lines are filed, held by its task or      *)
(* waiting in its pipe, in this order; the streams have no line in common,    *)
(* and what has been dropped is in no stream.                                 *)

Filed(s)   == {x \in Lines : \E n \in DOMAIN files :
                                n[1] = s /\ \E i \in DOMAIN files[n] : files[n][i] = x}
Waiting(s) == {x \in Lines : \E i \in DOMAIN queue[s] : queue[s][i] = x}
Of(s)      == Filed(s) \cup Held(s) \cup Waiting(s)

\* The file m was rotated before n, or before what n has was written.
Before(m, n) == m[1] = n[1] /\ m[2] # 0 /\ (n[2] = 0 \/ m[2] < n[2])

Ascends(q) == \A i, j \in DOMAIN q : i < j => q[i] < q[j]

Sorted ==
    /\ \A n \in DOMAIN files : Ascends(files[n])
    /\ \A s \in Streams : Ascends(queue[s])
    /\ \A m, n \in DOMAIN files : Before(m, n) =>
          \A i \in DOMAIN files[m], j \in DOMAIN files[n] : files[m][i] < files[n][j]

Chain ==
    \A s \in Streams :
        /\ \A x \in Filed(s), y \in Held(s) \cup Waiting(s) : x < y
        /\ \A x \in Held(s), y \in Waiting(s) : x < y

Partition ==
    /\ \A s, t \in Streams : s # t => Of(s) \cap Of(t) = {}
    /\ \A s \in Streams : Of(s) \cap dropped = {} /\ Of(s) \subseteq 1 .. printed
    /\ dropped \subseteq 1 .. printed
    /\ \A x \in 1 .. printed : x \in dropped \/ \E s \in Streams : x \in Of(s)

\* No file is from the future, a task without a line to write holds none, and
\* without a process there are no tasks.
Settled ==
    /\ \A n \in DOMAIN files : n[2] <= now
    /\ \A s \in Streams : task[s].step \notin {"rename", "reopen", "write"} => task[s].line = 0
    /\ child = "none" => \A s \in Streams : task[s].step = "none"

LinesInv == IInv /\ Sorted /\ Chain /\ Partition /\ Settled

-----------------------------------------------------------------------------
(* Sequences. *)

LEMMA SequenceItems ==
    ASSUME NEW S, NEW q \in Seq(S)
    PROVE  \A i \in DOMAIN q : q[i] \in S
OBVIOUS

LEMMA AppendFacts ==
    ASSUME NEW S, NEW q \in Seq(S), NEW x \in S
    PROVE  /\ DOMAIN Append(q, x) = DOMAIN q \cup {Len(q) + 1}
           /\ Append(q, x)[Len(q) + 1] = x
           /\ \A i \in DOMAIN q : Append(q, x)[i] = q[i] /\ i \in Nat /\ i < Len(q) + 1
<1>1. DOMAIN q = 1 .. Len(q) /\ Len(q) \in Nat
  OBVIOUS
<1>2. Append(q, x) \in Seq(S) /\ Len(Append(q, x)) = Len(q) + 1
  OBVIOUS
<1>3. DOMAIN Append(q, x) = 1 .. Len(q) + 1
  BY <1>2
<1> QED BY <1>1, <1>3

LEMMA TailFacts ==
    ASSUME NEW S, NEW q \in Seq(S), q # <<>>
    PROVE  /\ 1 \in DOMAIN q /\ Head(q) = q[1]
           /\ \A i \in DOMAIN Tail(q) : i \in Nat /\ i + 1 \in DOMAIN q /\ Tail(q)[i] = q[i + 1]
           /\ \A i \in DOMAIN q : i \in Nat /\ (i # 1 => i > 1 /\ i - 1 \in DOMAIN Tail(q))
<1>1. DOMAIN q = 1 .. Len(q) /\ Len(q) \in Nat /\ Len(q) # 0
  OBVIOUS
<1>2. Tail(q) \in Seq(S) /\ Len(Tail(q)) = Len(q) - 1
  OBVIOUS
<1>3. DOMAIN Tail(q) = 1 .. Len(q) - 1
  BY <1>1, <1>2
<1> QED BY <1>1, <1>3

\* What is appended to an ascending sequence, if it is larger than all, and what
\* is left of it, ascend.
LEMMA AppendAscends ==
    ASSUME NEW q \in Seq(Lines), Ascends(q), NEW x \in Lines, \A i \in DOMAIN q : q[i] < x
    PROVE  Ascends(Append(q, x))
<1>1. \A i, j \in DOMAIN Append(q, x) : i < j => i \in DOMAIN q
  BY AppendFacts
<1> QED BY <1>1, AppendFacts DEF Ascends, Lines

LEMMA TailAscends ==
    ASSUME NEW q \in Seq(Lines), Ascends(q), q # <<>>
    PROVE  /\ Ascends(Tail(q))
           /\ \A i \in DOMAIN Tail(q) : Head(q) < Tail(q)[i]
<1>1. \A i, j \in DOMAIN Tail(q) : i < j => i + 1 < j + 1
  BY TailFacts
<1>2. \A i \in DOMAIN Tail(q) : 1 < i + 1
  BY TailFacts, DOMAIN Tail(q) = 1 .. Len(Tail(q))
<1> QED BY <1>1, <1>2, TailFacts DEF Ascends

-----------------------------------------------------------------------------
(* Moves of lines. *)

LEMMA PlacesHoldLines ==
    ASSUME TypeOK
    PROVE  \A s \in Streams :
              /\ Filed(s) \subseteq Lines /\ Held(s) \subseteq Lines /\ Waiting(s) \subseteq Lines
              /\ Of(s) \subseteq Lines
              /\ Range(queue[s]) = Waiting(s)
<1> TAKE s \in Streams
<1>1. Held(s) \subseteq Lines
  BY DEF TypeOK, Task, Held, Lines
<1>2. Range(queue[s]) = Waiting(s)
  <2>1. queue[s] \in Seq(Lines)
    BY DEF TypeOK
  <2>2. \A i \in DOMAIN queue[s] : queue[s][i] \in Lines
    BY <2>1
  <2> QED BY <2>2 DEF Range, Waiting
<1> QED BY <1>1, <1>2 DEF Filed, Waiting, Of

\* Lines of one stream are dropped, or none.
LEMMA DropsKeep ==
    ASSUME Chain, Partition, printed' = printed, NEW s \in Streams, NEW D,
           D \subseteq Of(s), dropped' = dropped \cup D,
           Of(s)' = Of(s) \ D,
           \A t \in Streams \ {s} : Of(t)' = Of(t),
           \A t \in Streams : /\ Filed(t)' \subseteq Filed(t)
                              /\ Held(t)' \subseteq Held(t)
                              /\ Waiting(t)' \subseteq Waiting(t)
    PROVE  Chain' /\ Partition'
<1>1. Chain'
  BY DEF Chain
<1>2. \A t \in Streams : Of(t)' \subseteq Of(t)
  OBVIOUS
<1>3. \A t \in Streams : Of(t)' \cap D = {}
  BY DEF Partition
<1>4. \A t, u \in Streams : t # u => Of(t)' \cap Of(u)' = {}
  BY <1>2 DEF Partition
<1>5. \A t \in Streams : Of(t)' \cap dropped' = {} /\ Of(t)' \subseteq 1 .. printed'
  BY <1>2, <1>3 DEF Partition
<1>6. dropped' \subseteq 1 .. printed'
  BY DEF Partition
<1>7. \A x \in 1 .. printed' : x \in dropped' \/ \E t \in Streams : x \in Of(t)'
  <2> TAKE x \in 1 .. printed'
  <2>1. CASE x \in dropped
    BY <2>1
  <2>2. CASE \E t \in Streams : x \in Of(t)
    BY <2>2
  <2> QED BY <2>1, <2>2 DEF Partition
<1> QED BY <1>1, <1>4, <1>5, <1>6, <1>7 DEF Partition

\* No line goes from one stream to another, and none comes or is dropped.
LEMMA MovesKeep ==
    ASSUME Partition, UNCHANGED <<printed, dropped>>, \A t \in Streams : Of(t)' = Of(t)
    PROVE  Partition'
BY DEF Partition

LEMMA StaysPut ==
    ASSUME Sorted, Chain, Partition, UNCHANGED <<printed, dropped, files, queue>>,
           \A t \in Streams : task'[t].line = task[t].line
    PROVE  Sorted' /\ Chain' /\ Partition'
<1>1. \A t \in Streams : /\ Filed(t)' = Filed(t)
                         /\ Held(t)' = Held(t)
                         /\ Waiting(t)' = Waiting(t)
                         /\ Of(t)' = Of(t)
  BY DEF Filed, Held, Waiting, Of
<1>2. Sorted'
  BY DEF Sorted, Ascends, Before
<1>3. Chain'
  BY <1>1 DEF Chain
<1> QED BY <1>1, <1>2, <1>3, MovesKeep

\* An opened file is as it was, or new and empty.
LEMMA OpeningLines ==
    ASSUME IInv, Sorted, Settled, NEW names, names \subseteq Currents, OpensFiles(names)
    PROVE  /\ \A t \in Streams : Filed(t)' = Filed(t)
           /\ \A n \in DOMAIN files' : Ascends(files'[n]) /\ n[2] <= now
           /\ \A m, n \in DOMAIN files' : Before(m, n) =>
                 \A i \in DOMAIN files'[m], j \in DOMAIN files'[n] : files'[m][i] < files'[n][j]
<1>1. /\ DOMAIN files' = DOMAIN files \cup names
      /\ \A n \in DOMAIN files : files'[n] = files[n]
      /\ \A n \in names : n \notin DOMAIN files => files'[n] = <<>>
  BY DEF OpensFiles, Opened
<1>2. DOMAIN <<>> = {}
  OBVIOUS
<1>3. \A n \in DOMAIN files' : n \in DOMAIN files \/ DOMAIN files'[n] = {}
  BY <1>1, <1>2
<1>4. \A t \in Streams : Filed(t)' = Filed(t)
  BY <1>1, <1>3 DEF Filed
<1>5. \A n \in DOMAIN files' : Ascends(files'[n])
  BY <1>1, <1>3 DEF Ascends, Sorted
<1>6. \A n \in Currents : n[2] <= now
  BY DEF Currents, Current, IInv, TypeOK
<1>7. \A n \in DOMAIN files' : n[2] <= now
  BY <1>1, <1>6 DEF Settled
<1>8. \A m, n \in DOMAIN files' : Before(m, n) =>
        \A i \in DOMAIN files'[m], j \in DOMAIN files'[n] : files'[m][i] < files'[n][j]
  BY <1>1, <1>3 DEF Sorted
<1> QED BY <1>4, <1>5, <1>7, <1>8

\* A file is opened and no line moves.
LEMMA OpensKeep ==
    ASSUME IInv, Sorted, Chain, Partition, Settled,
           NEW names, names \subseteq Currents, OpensFiles(names),
           UNCHANGED <<now, printed, dropped, queue>>,
           \A t \in Streams : task'[t].line = task[t].line
    PROVE  /\ Sorted' /\ Chain' /\ Partition'
           /\ \A n \in DOMAIN files' : n[2] <= now'
<1>1. \A t \in Streams : Filed(t)' = Filed(t)
  BY OpeningLines
<1>2. \A t \in Streams : Held(t)' = Held(t) /\ Waiting(t)' = Waiting(t) /\ Of(t)' = Of(t)
  BY <1>1 DEF Held, Waiting, Of
<1>3. Sorted'
  <2>1. \A n \in DOMAIN files' : Ascends(files'[n])
    BY OpeningLines
  <2>2. \A m, n \in DOMAIN files' : Before(m, n) =>
          \A i \in DOMAIN files'[m], j \in DOMAIN files'[n] : files'[m][i] < files'[n][j]
    BY OpeningLines
  <2>3. \A t \in Streams : Ascends(queue'[t])
    BY DEF Sorted
  <2> QED BY <2>1, <2>2, <2>3 DEF Sorted, Ascends, Before
<1>4. Chain'
  BY <1>1, <1>2 DEF Chain
<1>5. Partition'
  BY <1>2, MovesKeep
<1>6. \A n \in DOMAIN files' : n[2] <= now'
  BY OpeningLines
<1> QED BY <1>3, <1>4, <1>5, <1>6

\* Two files of one stream have no line in common.
LEMMA FilesApart ==
    ASSUME TypeOK, Sorted, NEW m \in DOMAIN files, NEW n \in DOMAIN files, m # n, m[1] = n[1]
    PROVE  Range(files[m]) \cap Range(files[n]) = {}
<1>0. files[m] \in Seq(Lines) /\ files[n] \in Seq(Lines)
  BY DEF TypeOK
<1>1. m \in Names /\ n \in Names
  BY DEF TypeOK
<1>2. m[2] # n[2] /\ m[2] \in Nat /\ n[2] \in Nat
  BY <1>1 DEF Names
<1>3. Before(m, n) \/ Before(n, m)
  BY <1>2 DEF Before
<1>4. \A i \in DOMAIN files[m], j \in DOMAIN files[n] :
         files[m][i] \in Nat /\ files[n][j] \in Nat /\ files[m][i] # files[n][j]
  <2>1. \A i \in DOMAIN files[m] : files[m][i] \in Nat
    BY <1>0, SequenceItems, BoundsAssumption DEF Lines
  <2>2. \A j \in DOMAIN files[n] : files[n][j] \in Nat
    BY <1>0, SequenceItems, BoundsAssumption DEF Lines
  <2> TAKE i \in DOMAIN files[m], j \in DOMAIN files[n]
  <2>4. files[m][i] < files[n][j] \/ files[n][j] < files[m][i]
    BY <1>3 DEF Sorted
  <2> QED BY <2>1, <2>2, <2>4
<1> QED BY <1>4 DEF Range

\* The lines of a stream that the files with these names have.
FiledIn(s, names) == {x \in Lines : \E n \in names :
                         n[1] = s /\ \E i \in DOMAIN files[n] : files[n][i] = x}

\* The lines of a file that goes are those that its stream loses.
LEMMA FileGoes ==
    ASSUME TypeOK, Sorted, NEW name \in Names, NEW s, s = name[1]
    PROVE  /\ FiledIn(s, DOMAIN files \ {name}) = Filed(s) \ LinesOf(name)
           /\ LinesOf(name) \subseteq Filed(s)
           /\ \A t \in Streams \ {s} : FiledIn(t, DOMAIN files \ {name}) = Filed(t)
<1> DEFINE kept == DOMAIN files \ {name}
<1>1. \A t \in Streams \ {s} : FiledIn(t, kept) = Filed(t)
  BY DEF FiledIn, Filed
<1>2. \A n \in DOMAIN files : \A i \in DOMAIN files[n] : files[n][i] \in Lines
  BY DEF TypeOK
<1>3. LinesOf(name) \subseteq Filed(s)
  BY <1>2 DEF LinesOf, Range, Filed
<1>4. \A n \in kept : n[1] = s => Range(files[n]) \cap LinesOf(name) = {}
  BY FilesApart DEF LinesOf
<1>5. FiledIn(s, kept) \subseteq Filed(s) \ LinesOf(name)
  BY <1>4 DEF FiledIn, Filed, Range
<1>6. Filed(s) \ LinesOf(name) \subseteq FiledIn(s, kept)
  BY DEF FiledIn, Filed, LinesOf, Range
<1> QED BY <1>1, <1>3, <1>5, <1>6

-----------------------------------------------------------------------------
(* The steps. *)

\* A step that moves no line and no task.
LEMMA LinesRest ==
    ASSUME LinesInv, UNCHANGED <<printed, dropped, files, queue, task>>,
           now' \in Nat, now' >= now, child' = "none" => child = "none"
    PROVE  Sorted' /\ Chain' /\ Partition' /\ Settled'
<1>1. Sorted' /\ Chain' /\ Partition'
  BY StaysPut DEF LinesInv
<1>2. \A n \in DOMAIN files : n[2] \in Nat /\ now \in Nat
  BY DEF LinesInv, IInv, TypeOK, Names
<1>3. Settled'
  BY <1>2 DEF LinesInv, Settled
<1> QED BY <1>1, <1>3

LEMMA StartMoves ==
    ASSUME LinesInv, Start \/ StartUnlogged
    PROVE  Sorted' /\ Chain' /\ Partition' /\ Settled'
<1>1. PICK names \in SUBSET Currents : OpensFiles(names)
  BY DEF Start, StartUnlogged
<1>2. \A t \in Streams : task[t].line = 0
  BY DEF LinesInv, Settled, Start, StartUnlogged
<1>3. \A t \in Streams : /\ task'[t].line = 0
                         /\ task'[t].step \notin {"rename", "reopen", "write"}
  BY <1>2 DEF LinesInv, Settled, Start, StartUnlogged, NoTask
<1>4. UNCHANGED <<now, printed, dropped, queue>> /\ child' # "none"
  BY DEF Start, StartUnlogged
<1>5. Sorted' /\ Chain' /\ Partition' /\ \A n \in DOMAIN files' : n[2] <= now'
  BY <1>1, <1>2, <1>3, <1>4, OpensKeep DEF LinesInv
<1> QED BY <1>3, <1>4, <1>5 DEF Settled

LEMMA PrintMoves ==
    ASSUME LinesInv, NEW s \in Streams, Prints(s)
    PROVE  Sorted' /\ Chain' /\ Partition' /\ Settled'
<1> DEFINE p == printed + 1
<1>1. /\ printed \in Nat /\ p \in Lines /\ printed' = p /\ queue[s] \in Seq(Lines)
      /\ queue \in [Streams -> Seq(Lines)]
  BY BoundsAssumption DEF LinesInv, IInv, TypeOK, Prints, Lines
<1>2. UNCHANGED <<now, child, task, files, dropped>>
  BY DEF Prints
<1>3. /\ queue'[s] = Append(queue[s], p)
      /\ \A t \in Streams \ {s} : queue'[t] = queue[t]
  BY <1>1 DEF Prints
<1>4. \A t \in Streams : /\ Filed(t)' = Filed(t) /\ Held(t)' = Held(t)
                         /\ t # s => Waiting(t)' = Waiting(t)
  BY <1>2, <1>3 DEF Filed, Held, Waiting
<1>5. Waiting(s)' = Waiting(s) \cup {p}
  <2>1. /\ DOMAIN queue'[s] = DOMAIN queue[s] \cup {Len(queue[s]) + 1}
        /\ queue'[s][Len(queue[s]) + 1] = p
        /\ \A i \in DOMAIN queue[s] : queue'[s][i] = queue[s][i]
    BY <1>1, <1>3, AppendFacts
  <2> QED BY <1>1, <2>1 DEF Waiting
<1>6. \A t \in Streams : Of(t)' = IF t = s THEN Of(t) \cup {p} ELSE Of(t)
  BY <1>4, <1>5 DEF Of
<1>7. \A t \in Streams : \A x \in Of(t) : x \in Nat /\ x < p
  BY <1>1 DEF LinesInv, Partition
<1>8. Sorted'
  <2>1. \A i \in DOMAIN queue[s] : queue[s][i] < p
    BY <1>1, <1>7, SequenceItems DEF Of, Waiting
  <2>2. Ascends(queue'[s])
    BY <1>1, <1>3, <2>1, AppendAscends DEF LinesInv, Sorted
  <2>3. \A t \in Streams : Ascends(queue'[t])
    BY <1>3, <2>2 DEF LinesInv, Sorted
  <2> QED BY <1>2, <2>3 DEF LinesInv, Sorted, Ascends, Before
<1>9. Chain'
  <2>1. \A t \in Streams : \A x \in Filed(t) \cup Held(t) : x < p
    BY <1>7 DEF Of
  <2> QED BY <1>4, <1>5, <2>1 DEF LinesInv, Chain
<1>10. Partition'
  <2>1. \A t \in Streams : p \notin Of(t)
    BY <1>7
  <2>2. p \notin dropped /\ 1 .. printed' = 1 .. printed \cup {p}
    BY <1>1 DEF LinesInv, Partition
  <2>3. \A t, u \in Streams : t # u => Of(t)' \cap Of(u)' = {}
    BY <1>6, <2>1 DEF LinesInv, Partition
  <2>4. \A t \in Streams : Of(t)' \cap dropped' = {} /\ Of(t)' \subseteq 1 .. printed'
    BY <1>2, <1>6, <2>2 DEF LinesInv, Partition
  <2>5. dropped' \subseteq 1 .. printed'
    BY <1>2, <2>2 DEF LinesInv, Partition
  <2>6. \A x \in 1 .. printed' : x \in dropped' \/ \E t \in Streams : x \in Of(t)'
    BY <1>2, <1>6, <2>2 DEF LinesInv, Partition
  <2> QED BY <2>3, <2>4, <2>5, <2>6 DEF Partition
<1>11. Settled'
  BY <1>2 DEF LinesInv, Settled
<1> QED BY <1>8, <1>9, <1>10, <1>11

LEMMA OpenMoves ==
    ASSUME LinesInv, NEW s \in Streams, Opens(s)
    PROVE  Sorted' /\ Chain' /\ Partition' /\ Settled'
<1>1. task[s].step = "start" /\ task[s].line = 0 /\ child # "none"
  BY DEF LinesInv, Settled, Opens
<1>2. /\ task'[s].step = "read" /\ task'[s].line = 0
      /\ \A t \in Streams \ {s} : task'[t] = task[t]
  BY DEF LinesInv, IInv, TypeOK, Opens, Ready
<1>3. /\ OpensFiles(Currents)
      /\ UNCHANGED <<now, child, printed, dropped, queue>>
  BY DEF Opens, process
<1>4. Sorted' /\ Chain' /\ Partition' /\ \A n \in DOMAIN files' : n[2] <= now'
  BY <1>1, <1>2, <1>3, OpensKeep DEF LinesInv
<1> QED BY <1>1, <1>2, <1>3, <1>4 DEF LinesInv, Settled

LEMMA CloseMoves ==
    ASSUME LinesInv, NEW s \in Streams, OpenFails(s) \/ ReadFails(s)
    PROVE  Sorted' /\ Chain' /\ Partition' /\ Settled'
<1>0. TypeOK
  BY DEF LinesInv, IInv
<1>1. ClosesPipe(s) /\ task[s].step \in {"start", "read"}
  BY DEF OpenFails, ReadFails
<1>2. task[s].line = 0 /\ child # "none"
  BY <1>1 DEF LinesInv, Settled
<1>3. /\ task'[s].step = "end" /\ task'[s].line = 0
      /\ \A t \in Streams \ {s} : task'[t] = task[t]
  BY <1>0, <1>1, <1>2, TaskGoes, task[s] \in Task DEF ClosesPipe, TypeOK, Task
<1>4. /\ queue'[s] = <<>>
      /\ \A t \in Streams \ {s} : queue'[t] = queue[t]
      /\ UNCHANGED <<now, child, printed, files>>
      /\ dropped' = dropped \cup Waiting(s)
  BY <1>0, <1>1, PlacesHoldLines DEF ClosesPipe, Drop, TypeOK
<1>5. DOMAIN <<>> = {}
  OBVIOUS
<1>6. \A t \in Streams : /\ Filed(t)' = Filed(t) /\ Held(t)' = Held(t)
                         /\ Waiting(t)' = IF t = s THEN {} ELSE Waiting(t)
  BY <1>2, <1>3, <1>4, <1>5 DEF Filed, Held, Waiting
<1>7. (Filed(s) \cup Held(s)) \cap Waiting(s) = {}
  <2>1. \A x \in Filed(s) \cup Held(s), y \in Waiting(s) : x < y /\ x \in Nat
    BY <1>0, PlacesHoldLines DEF LinesInv, Chain, Lines
  <2> QED BY <2>1
<1>8. /\ Of(s)' = Of(s) \ Waiting(s)
      /\ \A t \in Streams \ {s} : Of(t)' = Of(t)
  BY <1>6, <1>7 DEF Of
<1>9. Chain' /\ Partition'
  <2>1. Waiting(s) \subseteq Of(s)
    BY DEF Of
  <2> QED BY <1>4, <1>6, <1>8, <2>1, DropsKeep DEF LinesInv
<1>10. Sorted'
  BY <1>4, <1>5 DEF LinesInv, Sorted, Ascends, Before
<1>11. Settled'
  BY <1>2, <1>3, <1>4 DEF LinesInv, Settled
<1> QED BY <1>9, <1>10, <1>11

LEMMA TakeMoves ==
    ASSUME LinesInv, NEW s \in Streams, Takes(s)
    PROVE  Sorted' /\ Chain' /\ Partition' /\ Settled'
<1> DEFINE q == queue[s]
           h == Head(q)
<1>0. TypeOK
  BY DEF LinesInv, IInv
<1>1. /\ q \in Seq(Lines) /\ q # <<>> /\ h \in Lines /\ Tail(q) \in Seq(Lines)
      /\ task[s].step = "read"
  BY <1>0 DEF TypeOK, Takes
<1>2. task[s].line = 0 /\ child # "none" /\ h # 0 /\ h \in 0 .. MaxLines
  <2>1. task[s].line = 0 /\ child # "none"
    BY <1>1 DEF LinesInv, Settled
  <2>2. h # 0 /\ h \in 0 .. MaxLines
    BY <1>1, BoundsAssumption DEF Lines
  <2> QED BY <2>1, <2>2
<1>3. /\ task'[s].step \in {"rename", "write"} /\ task'[s].line = h
      /\ \A t \in Streams \ {s} : task'[t] = task[t]
  BY <1>0, <1>2, TaskGoes DEF Takes
<1>4. /\ queue'[s] = Tail(q)
      /\ \A t \in Streams \ {s} : queue'[t] = queue[t]
      /\ UNCHANGED <<now, child, printed, dropped, files>>
  BY <1>0 DEF Takes, TypeOK
<1>5. /\ Ascends(Tail(q))
      /\ \A i \in DOMAIN Tail(q) : h < Tail(q)[i]
  BY <1>1, TailAscends DEF LinesInv, Sorted
<1>6. /\ Held(s) = {} /\ Held(s)' = {h}
      /\ \A t \in Streams : Filed(t)' = Filed(t)
      /\ \A t \in Streams \ {s} : Held(t)' = Held(t) /\ Waiting(t)' = Waiting(t)
  BY <1>2, <1>3, <1>4 DEF Filed, Held, Waiting
<1>7. Waiting(s) = {h} \cup Waiting(s)' /\ \A x \in Waiting(s)' : h < x
  <2>1. \A x \in Waiting(s)' : x \in Waiting(s) /\ h < x
    BY <1>1, <1>4, <1>5, TailFacts DEF Waiting
  <2>2. h \in Waiting(s)
    BY <1>1, TailFacts DEF Waiting
  <2>3. \A x \in Waiting(s) : x = h \/ x \in Waiting(s)'
    <3> TAKE x \in Waiting(s)
    <3>1. PICK i \in DOMAIN q : q[i] = x
      BY DEF Waiting
    <3>2. CASE i = 1
      BY <1>1, <3>1, <3>2, TailFacts
    <3>3. CASE i # 1
      <4>1. i - 1 \in DOMAIN Tail(q) /\ Tail(q)[i - 1] = q[(i - 1) + 1] /\ (i - 1) + 1 = i
        BY <1>1, <3>3, TailFacts
      <4> QED BY <1>4, <3>1, <4>1 DEF Waiting
    <3> QED BY <3>2, <3>3
  <2> QED BY <2>1, <2>2, <2>3
<1>8. \A t \in Streams : Of(t)' = Of(t)
  BY <1>6, <1>7 DEF Of
<1>9. Sorted'
  <2>1. Ascends(queue'[s])
    BY <1>4, <1>5
  <2>2. \A t \in Streams : Ascends(queue'[t])
    BY <1>4, <2>1 DEF LinesInv, Sorted
  <2> HIDE DEF q, h
  <2> QED BY <1>4, <2>2 DEF LinesInv, Sorted, Ascends, Before
<1>10. Chain'
  BY <1>6, <1>7 DEF LinesInv, Chain
<1>11. Partition'
  BY <1>4, <1>8, MovesKeep DEF LinesInv
<1>12. Settled'
  BY <1>2, <1>3, <1>4 DEF LinesInv, Settled
<1> QED BY <1>9, <1>10, <1>11, <1>12

\* What a task does that gives up its line, be it only by writing it to a file
\* that has no name any more.
LEMMA GiveUpMoves ==
    ASSUME LinesInv, NEW s \in Streams, task[s].step \in {"rename", "reopen", "write"},
           task'[s].line = 0, task'[s].step = "read",
           \A t \in Streams \ {s} : task'[t] = task[t],
           dropped' = dropped \cup {task[s].line},
           UNCHANGED <<now, child, printed, queue, files>>
    PROVE  Sorted' /\ Chain' /\ Partition' /\ Settled'
<1>0. TypeOK
  BY DEF LinesInv, IInv
<1>1. task[s].line # 0 /\ child # "none"
  BY DEF LinesInv, IInv, Busy, Settled
<1>2. /\ Held(s) = {task[s].line} /\ Held(s)' = {}
      /\ \A t \in Streams : Filed(t)' = Filed(t) /\ Waiting(t)' = Waiting(t)
      /\ \A t \in Streams \ {s} : Held(t)' = Held(t)
  BY <1>1 DEF Filed, Held, Waiting
<1>3. (Filed(s) \cup Waiting(s)) \cap Held(s) = {}
  <2>1. \A x \in Filed(s), y \in Held(s) : x < y /\ x \in Nat
    BY <1>0, PlacesHoldLines DEF LinesInv, Chain, Lines
  <2>2. \A x \in Held(s), y \in Waiting(s) : x < y /\ x \in Nat
    BY <1>0, PlacesHoldLines DEF LinesInv, Chain, Lines
  <2> QED BY <2>1, <2>2
<1>4. /\ Of(s)' = Of(s) \ Held(s)
      /\ \A t \in Streams \ {s} : Of(t)' = Of(t)
  BY <1>2, <1>3 DEF Of
<1>5. Chain' /\ Partition'
  <2>1. Held(s) \subseteq Of(s)
    BY DEF Of
  <2>2. \A t \in Streams : /\ Filed(t)' \subseteq Filed(t)
                           /\ Held(t)' \subseteq Held(t)
                           /\ Waiting(t)' \subseteq Waiting(t)
    BY <1>2
  <2> QED BY <1>2, <1>4, <2>1, <2>2, DropsKeep DEF LinesInv
<1>6. Sorted'
  BY DEF LinesInv, Sorted, Ascends, Before
<1>7. Settled'
  BY <1>1 DEF LinesInv, Settled
<1> QED BY <1>5, <1>6, <1>7

LEMMA FailMoves ==
    ASSUME LinesInv, NEW s \in Streams, RenameFails(s) \/ ReopenFails(s) \/ WriteFails(s)
    PROVE  Sorted' /\ Chain' /\ Partition' /\ Settled'
<1>1. /\ task[s].step \in {"rename", "reopen", "write"} /\ GiveUp(s)
      /\ UNCHANGED <<now, child, printed, queue, files>>
  BY DEF RenameFails, ReopenFails, WriteFails, process
<1>2. /\ task'[s].step = "read" /\ task'[s].line = 0
      /\ \A t \in Streams \ {s} : task'[t] = task[t]
  <2>1. 0 \in 0 .. MaxLines
    BY BoundsAssumption
  <2> QED BY <1>1, <2>1, TaskGoes DEF LinesInv, IInv, GiveUp
<1>3. dropped' = dropped \cup {task[s].line}
  BY <1>1 DEF GiveUp, Drop
<1> QED BY <1>1, <1>2, <1>3, GiveUpMoves

LEMMA EndMoves ==
    ASSUME LinesInv, NEW s \in Streams, Ends(s)
    PROVE  Sorted' /\ Chain' /\ Partition' /\ Settled'
<1>0. TypeOK
  BY DEF LinesInv, IInv
<1>1. task[s].line = 0 /\ child # "none"
  BY DEF LinesInv, Settled, Ends
<1>2. /\ task'[s].step = "end" /\ task'[s].line = 0
      /\ \A t \in Streams \ {s} : task'[t] = task[t]
  BY <1>0, <1>1, TaskGoes, task[s] \in Task DEF Ends, TypeOK, Task
<1>3. UNCHANGED <<now, child, printed, dropped, files, queue>>
  BY DEF Ends, process
<1>4. Sorted' /\ Chain' /\ Partition'
  BY <1>1, <1>2, <1>3, StaysPut DEF LinesInv
<1> QED BY <1>1, <1>2, <1>3, <1>4 DEF LinesInv, Settled

LEMMA ReopenMoves ==
    ASSUME LinesInv, NEW s \in Streams, Reopens(s)
    PROVE  Sorted' /\ Chain' /\ Partition' /\ Settled'
<1>0. TypeOK /\ task[s] \in Task
  BY DEF LinesInv, IInv, TypeOK
<1>1. task[s].step = "reopen" /\ child # "none"
  BY DEF LinesInv, Settled, Reopens
<1>2. /\ task'[s].step = "write" /\ task'[s].line = task[s].line
      /\ \A t \in Streams \ {s} : task'[t] = task[t]
  <2>1. task'[s] = [task[s] EXCEPT !.step = "write", !.linked = TRUE, !.size = 0]
    BY <1>0 DEF Reopens, TypeOK
  <2> QED BY <1>0, <2>1 DEF Reopens, TypeOK, Task
<1>3. /\ OpensFiles({Current(s)}) /\ {Current(s)} \subseteq Currents
      /\ UNCHANGED <<now, child, printed, dropped, queue>>
  BY CurrentNames DEF Reopens, process
<1>4. Sorted' /\ Chain' /\ Partition' /\ \A n \in DOMAIN files' : n[2] <= now'
  BY <1>2, <1>3, OpensKeep DEF LinesInv
<1> QED BY <1>1, <1>2, <1>3, <1>4 DEF LinesInv, Settled

LEMMA RenameMoves ==
    ASSUME LinesInv, NEW s \in Streams, Renames(s)
    PROVE  Sorted' /\ Chain' /\ Partition' /\ Settled'
<1> DEFINE from == Current(s)
           to == <<s, now>>
           kept == DOMAIN files \ {to}
<1>0. TypeOK /\ task[s] \in Task /\ now \in Nat /\ now # 0 /\ Sorted /\ child # "none"
  BY DEF LinesInv, IInv, TypeOK, Settled, Renames, RenamesTo
<1>1. /\ task[s].step = "rename" /\ task[s].line # 0
      /\ from \in DOMAIN files
      /\ DOMAIN files' = (DOMAIN files \ {from}) \cup {to}
      /\ \A n \in DOMAIN files' : files'[n] = files[IF n = to THEN from ELSE n]
      /\ dropped' = dropped \cup LinesOf(to)
      /\ UNCHANGED <<now, child, printed, queue>>
  BY DEF LinesInv, IInv, Busy, Renames, RenamesTo, Renamed, Drop, process
<1>2. /\ task'[s].step = "reopen" /\ task'[s].line = task[s].line
      /\ \A t \in Streams \ {s} : task'[t] = task[t]
  <2>1. task'[s] = [task[s] EXCEPT !.step = "reopen", !.linked = FALSE]
    BY <1>0 DEF Renames, RenamesTo, TypeOK
  <2> QED BY <1>0, <2>1 DEF Renames, RenamesTo, TypeOK, Task
<1>3. /\ to \in Names /\ to # from /\ to[1] = s /\ to[2] = now
      /\ from[1] = s /\ from[2] = 0
      /\ \A n \in Names : n[1] = s /\ n[2] = 0 => n = from
  BY <1>0 DEF Names, Current, TypeOK
<1>4. /\ files'[to] = files[from]
      /\ \A n \in DOMAIN files' \ {to} : n \in DOMAIN files \ {from} /\ files'[n] = files[n]
  BY <1>1
<1>5. \A t \in Streams : Filed(t)' = FiledIn(t, kept)
  <2> TAKE t \in Streams
  <2>1. ASSUME NEW x \in Filed(t)'
        PROVE  \E n \in kept : n[1] = t /\ \E i \in DOMAIN files[n] : files[n][i] = x
    <3>1. PICK n \in DOMAIN files' : n[1] = t /\ \E i \in DOMAIN files'[n] : files'[n][i] = x
      BY <2>1 DEF Filed
    <3>2. CASE n = to
      BY <1>1, <1>3, <1>4, <3>1, <3>2
    <3>3. CASE n # to
      BY <1>4, <3>1, <3>3
    <3> QED BY <3>2, <3>3
  <2>2. ASSUME NEW n \in kept, NEW i \in DOMAIN files[n], n[1] = t, files[n][i] \in Lines
        PROVE  files[n][i] \in Filed(t)'
    <3>1. CASE n = from
      BY <1>1, <1>3, <1>4, <2>2, <3>1 DEF Filed
    <3>2. CASE n # from
      <4>1. n \in DOMAIN files' /\ files'[n] = files[n]
        BY <1>1, <3>2
      <4> QED BY <2>2, <4>1 DEF Filed
    <3> QED BY <3>1, <3>2
  <2>3. Filed(t)' \subseteq Lines
    BY DEF Filed
  <2> QED BY <2>1, <2>2, <2>3 DEF FiledIn
<1>6. /\ Filed(s)' = Filed(s) \ LinesOf(to)
      /\ LinesOf(to) \subseteq Filed(s)
      /\ \A t \in Streams \ {s} : Filed(t)' = Filed(t)
  BY <1>0, <1>3, <1>5, FileGoes
<1>7. \A t \in Streams : Held(t)' = Held(t) /\ Waiting(t)' = Waiting(t)
  BY <1>1, <1>2 DEF Held, Waiting
<1>8. (Held(s) \cup Waiting(s)) \cap Filed(s) = {}
  <2>1. \A x \in Filed(s), y \in Held(s) \cup Waiting(s) : x < y /\ x \in Nat
    BY <1>0, PlacesHoldLines DEF LinesInv, Chain, Lines
  <2> QED BY <2>1
<1>9. /\ Of(s)' = Of(s) \ LinesOf(to)
      /\ \A t \in Streams \ {s} : Of(t)' = Of(t)
  BY <1>6, <1>7, <1>8 DEF Of
<1>10. Chain' /\ Partition'
  <2>1. LinesOf(to) \subseteq Of(s)
    BY <1>6 DEF Of
  <2>2. \A t \in Streams : /\ Filed(t)' \subseteq Filed(t)
                           /\ Held(t)' \subseteq Held(t)
                           /\ Waiting(t)' \subseteq Waiting(t)
    BY <1>6, <1>7
  <2> QED BY <1>1, <1>9, <2>1, <2>2, DropsKeep DEF LinesInv
<1>11. \A n \in DOMAIN files' \ {to} : n \in Names /\ n[2] <= now /\ n[2] \in Nat
  BY <1>4 DEF LinesInv, IInv, TypeOK, Settled, Names
<1>12. Sorted'
  <2>1. \A n \in DOMAIN files' : Ascends(files'[n])
    BY <1>0, <1>1, <1>4 DEF Sorted
  <2>2. ASSUME NEW m \in DOMAIN files', NEW n \in DOMAIN files', Before(m, n)
        PROVE  \A i \in DOMAIN files'[m], j \in DOMAIN files'[n] : files'[m][i] < files'[n][j]
    <3>1. CASE m = to
      <4>1. n # to
        BY <1>0, <1>3, <2>2, <3>1 DEF Before
      <4>2. n[1] = s /\ (n[2] = 0 \/ now < n[2])
        BY <1>3, <2>2, <3>1 DEF Before
      <4>3. n[2] = 0
        BY <1>0, <1>11, <4>1, <4>2
      <4>4. n = from
        BY <1>3, <1>11, <4>1, <4>2, <4>3
      <4> QED BY <1>4, <4>1, <4>4
    <3>2. CASE m # to /\ n = to
      <4>1. Before(m, from)
        BY <1>3, <2>2, <3>2 DEF Before
      <4>2. /\ m \in DOMAIN files /\ files'[m] = files[m]
            /\ files'[n] = files[from]
        BY <1>4, <3>2
      <4> QED BY <1>0, <1>1, <4>1, <4>2 DEF Sorted
    <3>3. CASE m # to /\ n # to
      <4>1. /\ m \in DOMAIN files /\ files'[m] = files[m]
            /\ n \in DOMAIN files /\ files'[n] = files[n]
        BY <1>4, <3>3
      <4> QED BY <1>0, <2>2, <4>1 DEF Sorted
    <3> QED BY <3>1, <3>2, <3>3
  <2>3. \A t \in Streams : Ascends(queue'[t])
    BY <1>0, <1>1 DEF Sorted
  <2> QED BY <2>1, <2>2, <2>3 DEF Sorted, Ascends, Before
<1>13. Settled'
  <2>1. \A n \in DOMAIN files' : n[2] <= now'
    BY <1>0, <1>1, <1>3, <1>11
  <2> QED BY <1>0, <1>1, <1>2, <2>1 DEF LinesInv, Settled
<1> QED BY <1>10, <1>12, <1>13

LEMMA WriteMoves ==
    ASSUME LinesInv, NEW s \in Streams, Writes(s)
    PROVE  Sorted' /\ Chain' /\ Partition' /\ Settled'
<1> DEFINE c == Current(s)
           line == task[s].line
<1>0. /\ TypeOK /\ Sorted /\ task[s].step = "write" /\ child # "none"
      /\ task[s] \in Task /\ line \in Lines /\ line # 0
  BY DEF LinesInv, IInv, TypeOK, Busy, Settled, Writes, Task, Lines
<1>1. /\ task'[s].step = "read" /\ task'[s].line = 0
      /\ \A t \in Streams \ {s} : task'[t] = task[t]
  <2>1. task'[s] = [task[s] EXCEPT !.step = "read", !.line = 0,
                                          !.size = @ + Length[line]]
    BY <1>0 DEF Writes, TypeOK
  <2> QED BY <1>0, <2>1 DEF Writes, TypeOK, Task
<1>2. UNCHANGED <<now, child, printed, queue>>
  BY DEF Writes, process
<1>3. CASE ~task[s].linked
  <2>1. UNCHANGED files /\ dropped' = dropped \cup {task[s].line}
    BY <1>3 DEF Writes, Drop
  <2> QED BY <1>0, <1>1, <1>2, <2>1, GiveUpMoves
<1>4. CASE task[s].linked
  <2>1. c \in DOMAIN files /\ files[c] \in Seq(Lines) /\ c[1] = s /\ c[2] = 0
    BY <1>0, <1>4 DEF LinesInv, IInv, Counted, TypeOK, Current
  <2>2. /\ files' = [files EXCEPT ![c] = Append(@, line)]
        /\ UNCHANGED dropped
    BY <1>4 DEF Writes
  <2>3. /\ DOMAIN files' = DOMAIN files
        /\ files'[c] = Append(files[c], line)
        /\ \A n \in DOMAIN files \ {c} : files'[n] = files[n]
    BY <2>1, <2>2
  <2>4. /\ DOMAIN files'[c] = DOMAIN files[c] \cup {Len(files[c]) + 1}
        /\ files'[c][Len(files[c]) + 1] = line
        /\ \A i \in DOMAIN files[c] : files'[c][i] = files[c][i]
    BY <1>0, <2>1, <2>3, AppendFacts
  <2>5. /\ Held(s) = {line} /\ Held(s)' = {}
        /\ \A t \in Streams : Waiting(t)' = Waiting(t)
        /\ \A t \in Streams \ {s} : Held(t)' = Held(t)
    BY <1>0, <1>1, <1>2 DEF Held, Waiting
  <2>6. \A t \in Streams \ {s} : Filed(t)' = Filed(t)
    BY <2>1, <2>3 DEF Filed
  <2>7. Filed(s)' = Filed(s) \cup {line}
    <3>1. \A x \in Filed(s) : x \in Filed(s)'
      <4> TAKE x \in Filed(s)
      <4>1. PICK n \in DOMAIN files : n[1] = s /\ \E i \in DOMAIN files[n] : files[n][i] = x
        BY DEF Filed
      <4>2. CASE n = c
        <5>1. PICK i \in DOMAIN files[c] : files[c][i] = x
          BY <4>1, <4>2
        <5>2. i \in DOMAIN files'[c] /\ files'[c][i] = x /\ x \in Lines
          BY <2>4, <5>1 DEF Filed
        <5> QED BY <2>1, <2>3, <5>2 DEF Filed
      <4>3. CASE n # c
        BY <2>3, <4>1, <4>3 DEF Filed
      <4> QED BY <4>2, <4>3
    <3>2. line \in Filed(s)'
      BY <1>0, <2>1, <2>3, <2>4 DEF Filed
    <3>3. \A x \in Filed(s)' : x \in Filed(s) \/ x = line
      <4> TAKE x \in Filed(s)'
      <4>1. PICK n \in DOMAIN files' : n[1] = s /\ \E i \in DOMAIN files'[n] : files'[n][i] = x
        BY DEF Filed
      <4>2. CASE n = c
        BY <2>1, <2>4, <4>1, <4>2 DEF Filed
      <4>3. CASE n # c
        BY <2>3, <4>1, <4>3 DEF Filed
      <4> QED BY <4>2, <4>3
    <3> QED BY <3>1, <3>2, <3>3
  <2>8. \A t \in Streams : Of(t)' = Of(t)
    BY <2>5, <2>6, <2>7 DEF Of
  <2>9. \A x \in Filed(s) : x < line
    BY <2>5 DEF LinesInv, Chain
  <2>10. \A n \in DOMAIN files : n[1] = s => \A i \in DOMAIN files[n] : files[n][i] < line
    <3>1. \A n \in DOMAIN files : \A i \in DOMAIN files[n] : files[n][i] \in Lines
      BY <1>0, SequenceItems DEF TypeOK
    <3> QED BY <2>9, <3>1 DEF Filed
  <2>11. Sorted'
    <3>1. Ascends(files'[c])
      BY <1>0, <2>1, <2>3, <2>10, AppendAscends DEF Sorted
    <3>2. \A n \in DOMAIN files' : Ascends(files'[n])
      BY <1>0, <2>3, <3>1 DEF Sorted
    <3>3. ASSUME NEW m \in DOMAIN files', NEW n \in DOMAIN files', Before(m, n)
          PROVE  \A i \in DOMAIN files'[m], j \in DOMAIN files'[n] : files'[m][i] < files'[n][j]
      <4>1. m # c /\ m \in DOMAIN files /\ n \in DOMAIN files /\ files'[m] = files[m]
        BY <2>1, <2>3, <3>3 DEF Before
      <4>2. CASE n # c
        BY <1>0, <2>3, <3>3, <4>1, <4>2 DEF Sorted
      <4>3. CASE n = c
        <5>1. \A i \in DOMAIN files[m] : files[m][i] < line
          BY <2>1, <2>10, <3>3, <4>1, <4>3 DEF Before
        <5>2. \A i \in DOMAIN files[m], j \in DOMAIN files[c] : files[m][i] < files[c][j]
          BY <1>0, <3>3, <4>1, <4>3 DEF Sorted
        <5> QED BY <2>4, <4>1, <4>3, <5>1, <5>2
      <4> QED BY <4>2, <4>3
    <3>4. \A t \in Streams : Ascends(queue'[t])
      BY <1>0, <1>2 DEF Sorted
    <3> QED BY <3>2, <3>3, <3>4 DEF Sorted, Ascends, Before
  <2>12. Chain'
    BY <2>5, <2>6, <2>7 DEF LinesInv, Chain
  <2>13. Partition'
    BY <1>2, <2>2, <2>8, MovesKeep DEF LinesInv
  <2>14. Settled'
    BY <1>0, <1>1, <1>2, <2>3 DEF LinesInv, Settled
  <2> QED BY <2>11, <2>12, <2>13, <2>14
<1> QED BY <1>3, <1>4

LEMMA UnlinkMoves ==
    ASSUME LinesInv, NEW name \in deleting, Unlinks(name)
    PROVE  Sorted' /\ Chain' /\ Partition' /\ Settled'
<1> DEFINE s == name[1]
<1>0. TypeOK /\ Sorted /\ name \in Names /\ s \in Streams
  BY DEF LinesInv, IInv, TypeOK, Names
<1>1. /\ DOMAIN files' = DOMAIN files \ {name}
      /\ \A n \in DOMAIN files' : files'[n] = files[n]
      /\ dropped' = dropped \cup LinesOf(name)
      /\ UNCHANGED <<now, child, printed, queue>>
  BY DEF Unlinks, Restrict, Drop, process
<1>2. \A t \in Streams : task'[t].step = task[t].step /\ task'[t].line = task[t].line
  <2>1. \A t \in Streams : task[t] \in Task
    BY <1>0 DEF TypeOK
  <2>2. CASE UNCHANGED task
    BY <2>2
  <2>3. CASE task' = [task EXCEPT ![s].linked = FALSE]
    BY <1>0, <2>1, <2>3 DEF TypeOK, Task
  <2> QED BY <2>2, <2>3 DEF Unlinks
<1>3. \A t \in Streams : Filed(t)' = FiledIn(t, DOMAIN files \ {name})
  BY <1>1 DEF Filed, FiledIn
<1>4. /\ Filed(s)' = Filed(s) \ LinesOf(name)
      /\ LinesOf(name) \subseteq Filed(s)
      /\ \A t \in Streams \ {s} : Filed(t)' = Filed(t)
  BY <1>0, <1>3, FileGoes
<1>5. \A t \in Streams : Held(t)' = Held(t) /\ Waiting(t)' = Waiting(t)
  BY <1>1, <1>2 DEF Held, Waiting
<1>6. (Held(s) \cup Waiting(s)) \cap Filed(s) = {}
  <2>1. \A x \in Filed(s), y \in Held(s) \cup Waiting(s) : x < y /\ x \in Nat
    BY <1>0, PlacesHoldLines DEF LinesInv, Chain, Lines
  <2> QED BY <2>1
<1>7. /\ Of(s)' = Of(s) \ LinesOf(name)
      /\ \A t \in Streams \ {s} : Of(t)' = Of(t)
  BY <1>0, <1>4, <1>5, <1>6 DEF Of
<1>8. Chain' /\ Partition'
  <2>1. LinesOf(name) \subseteq Of(s)
    BY <1>4 DEF Of
  <2>2. \A t \in Streams : /\ Filed(t)' \subseteq Filed(t)
                           /\ Held(t)' \subseteq Held(t)
                           /\ Waiting(t)' \subseteq Waiting(t)
    BY <1>4, <1>5
  <2> HIDE DEF s
  <2> QED BY <1>0, <1>1, <1>7, <2>1, <2>2, DropsKeep DEF LinesInv
<1>9. Sorted'
  BY <1>0, <1>1 DEF Sorted, Ascends, Before
<1>10. Settled'
  BY <1>1, <1>2 DEF LinesInv, Settled
<1> QED BY <1>8, <1>9, <1>10

LEMMA DaemonEndMoves ==
    ASSUME LinesInv, DaemonEnds
    PROVE  Sorted' /\ Chain' /\ Partition' /\ Settled'
<1> DEFINE D == UNION {Range(queue[s]) \cup Held(s) : s \in Streams}
<1>0. TypeOK
  BY DEF LinesInv, IInv
<1>1. /\ dropped' = dropped \cup D
      /\ UNCHANGED <<now, printed, files>>
      /\ \A t \in Streams : queue'[t] = <<>> /\ task'[t].step = "none" /\ task'[t].line = 0
  BY DEF DaemonEnds, Drop, NothingQueued, NoTask
<1>2. \A t \in Streams : Waiting(t) \cup Held(t) \subseteq D
  BY <1>0, PlacesHoldLines
<1>3. \A x \in D : \E t \in Streams : x \in Waiting(t) \cup Held(t)
  BY <1>0, PlacesHoldLines
<1>4. DOMAIN <<>> = {}
  OBVIOUS
<1>5. \A t \in Streams : Filed(t)' = Filed(t) /\ Held(t)' = {} /\ Waiting(t)' = {} /\ Of(t)' = Filed(t)
  BY <1>1, <1>4 DEF Filed, Held, Waiting, Of
<1>6. \A t \in Streams : Filed(t) \cap (Held(t) \cup Waiting(t)) = {}
  <2> TAKE t \in Streams
  <2>1. \A x \in Filed(t), y \in Held(t) \cup Waiting(t) : x < y /\ x \in Nat
    BY <1>0, PlacesHoldLines DEF LinesInv, Chain, Lines
  <2> QED BY <2>1
<1>7. \A t \in Streams : Filed(t) \cap D = {}
  BY <1>3, <1>6 DEF LinesInv, Partition, Of
<1>8. Partition'
  <2>1. \A t, u \in Streams : t # u => Of(t)' \cap Of(u)' = {}
    BY <1>5 DEF LinesInv, Partition, Of
  <2>2. \A t \in Streams : Of(t)' \cap dropped' = {} /\ Of(t)' \subseteq 1 .. printed'
    BY <1>1, <1>5, <1>7 DEF LinesInv, Partition, Of
  <2>3. dropped' \subseteq 1 .. printed'
    BY <1>1, <1>3 DEF LinesInv, Partition, Of
  <2>4. \A x \in 1 .. printed' : x \in dropped' \/ \E t \in Streams : x \in Of(t)'
    <3> TAKE x \in 1 .. printed'
    <3>1. x \in dropped \/ \E t \in Streams : x \in Of(t)
      BY <1>1 DEF LinesInv, Partition
    <3> QED BY <1>1, <1>2, <1>5, <3>1 DEF Of
  <2> QED BY <2>1, <2>2, <2>3, <2>4 DEF Partition
<1>9. Chain'
  BY <1>5 DEF Chain
<1>10. Sorted'
  BY <1>1, <1>4 DEF LinesInv, Sorted, Ascends, Before
<1>11. Settled'
  BY <1>1 DEF LinesInv, Settled
<1> QED BY <1>8, <1>9, <1>10, <1>11

LEMMA TaskMoves ==
    ASSUME LinesInv, NEW s \in Streams, TaskStep(s)
    PROVE  Sorted' /\ Chain' /\ Partition' /\ Settled'
BY OpenMoves, CloseMoves, TakeMoves, EndMoves, RenameMoves, FailMoves, ReopenMoves, WriteMoves, Zenon
DEF TaskStep

LEMMA StepKeepsLines ==
    ASSUME LinesInv, [Next]_vars
    PROVE  LinesInv'
<1>1. IInv'
  BY StepKeepsInv DEF LinesInv
<1>2. now \in Nat
  BY DEF LinesInv, IInv, TypeOK
<1>3. CASE Start \/ StartUnlogged
  BY <1>1, <1>3, StartMoves DEF LinesInv
<1>4. ASSUME NEW s \in Streams, Prints(s) PROVE LinesInv'
  BY <1>1, <1>4, PrintMoves DEF LinesInv
<1>5. ASSUME NEW s \in Streams, PrintsUncaptured(s) PROVE LinesInv'
  BY <1>1, <1>2, <1>5, LinesRest DEF LinesInv, PrintsUncaptured
<1>6. ASSUME NEW s \in Streams, TaskStep(s) PROVE LinesInv'
  BY <1>1, <1>6, TaskMoves DEF LinesInv
<1>7. CASE ChildExits \/ Restart \/ Delete
  <2>1. child' # "none" /\ UNCHANGED <<now, printed, dropped, files, queue, task>>
    BY <1>7 DEF ChildExits, Restart, Delete
  <2> QED BY <1>1, <1>2, <2>1, LinesRest DEF LinesInv
<1>8. ASSUME NEW name \in deleting, Unlinks(name) PROVE LinesInv'
  BY <1>1, <1>8, UnlinkMoves DEF LinesInv
<1>9. ASSUME NEW name \in deleting, UnlinkFails(name) PROVE LinesInv'
  BY <1>1, <1>2, <1>9, LinesRest DEF LinesInv, UnlinkFails, process
<1>10. CASE DaemonEnds
  BY <1>1, <1>10, DaemonEndMoves DEF LinesInv
<1>11. CASE Tick
  BY <1>1, <1>2, <1>11, LinesRest DEF LinesInv, Tick, process
<1>12. CASE UNCHANGED vars
  BY <1>1, <1>2, <1>12, LinesRest DEF LinesInv, vars, process
<1> QED
  BY <1>3, <1>4, <1>5, <1>6, <1>7, <1>8, <1>9, <1>10, <1>11, <1>12, Zenon DEF Next

LEMMA NoLinesYet == ASSUME Init PROVE LinesInv
<1>1. IInv
  BY InitInv
<1>2. DOMAIN files = {} /\ dropped = {} /\ printed = 0
  BY DEF Init
<1>3. \A s \in Streams : queue[s] = <<>> /\ task[s].line = 0 /\ task[s].step = "none"
  BY DEF Init, NothingQueued, NoTask
<1>4. DOMAIN <<>> = {} /\ 1 .. 0 = {}
  OBVIOUS
<1>5. \A s \in Streams : Filed(s) = {} /\ Held(s) = {} /\ Waiting(s) = {} /\ Of(s) = {}
  BY <1>2, <1>3, <1>4 DEF Filed, Held, Waiting, Of
<1>6. Sorted
  BY <1>2, <1>3, <1>4 DEF Sorted, Ascends
<1>7. Chain
  BY <1>5 DEF Chain
<1>8. Partition
  BY <1>2, <1>4, <1>5 DEF Partition
<1>9. Settled
  BY <1>2, <1>3 DEF Settled
<1> QED BY <1>1, <1>6, <1>7, <1>8, <1>9 DEF LinesInv

LEMMA LinesHold == Spec => []LinesInv
BY NoLinesYet, StepKeepsLines, PTL DEF Spec

\* No captured line is lost but where the code gives it up: through rotations,
\* restarts and one daemon after another, each line is in one pipe, task or file.
THEOREM LogsStayComplete == Spec => []LogsAreComplete
<1>1. ASSUME LinesInv PROVE LogsAreComplete
  <2> DEFINE all == (UNION {Range(queue[s]) \cup Held(s) : s \in Streams})
                    \cup (UNION {Range(files[n]) : n \in DOMAIN files})
  <2>1. TypeOK
    BY <1>1 DEF LinesInv, IInv
  <2>2. \A s \in Streams : Range(queue[s]) = Waiting(s)
    BY <2>1, PlacesHoldLines
  <2>3. \A n \in DOMAIN files : n[1] \in Streams /\ Range(files[n]) \subseteq Filed(n[1])
    <3> TAKE n \in DOMAIN files
    <3>1. n[1] \in Streams /\ files[n] \in Seq(Lines)
      BY <2>1 DEF TypeOK, Names
    <3>2. \A i \in DOMAIN files[n] : files[n][i] \in Lines
      BY <3>1, SequenceItems
    <3> QED BY <3>1, <3>2 DEF Range, Filed
  <2>4. \A s \in Streams : Filed(s) \subseteq all
    BY DEF Filed, Range
  <2>5. \A s \in Streams : Of(s) \subseteq all
    BY <2>2, <2>4 DEF Of
  <2>6. \A x \in all : \E s \in Streams : x \in Of(s)
    <3> TAKE x \in all
    <3>1. CASE \E s \in Streams : x \in Range(queue[s]) \cup Held(s)
      BY <2>2, <3>1 DEF Of
    <3>2. CASE \E n \in DOMAIN files : x \in Range(files[n])
      BY <2>3, <3>2 DEF Of
    <3> QED BY <3>1, <3>2
  <2> HIDE DEF all
  <2>7. \A x \in all : x \in 1 .. printed /\ x \notin dropped
    BY <1>1, <2>6 DEF LinesInv, Partition
  <2>8. \A x \in (1 .. printed) \ dropped : x \in all
    BY <1>1, <2>5 DEF LinesInv, Partition
  <2>9. (1 .. printed) \ dropped = all
    BY <2>7, <2>8
  <2> QED BY <2>9 DEF all, LogsAreComplete
<1> QED BY LinesHold, <1>1, PTL

\* A stream's files, from the oldest stamp to the current file, have its lines
\* in the order they were printed in: what is filed was printed before what the
\* task holds, and that before what waits in the pipe.
THEOREM LogsStayInOrder == Spec => []LogsAreInOrder
<1>1. ASSUME LinesInv PROVE LogsAreInOrder
  <2>1. Sorted
    BY <1>1 DEF LinesInv
  <2> QED BY <2>1 DEF Sorted, Ascends, Before, LogsAreInOrder
<1> QED BY LinesHold, <1>1, PTL

-----------------------------------------------------------------------------
(* Delete.  While nothing has met it, no file is made that it has not listed. *)

Deleted ==
    child = "deleted" /\ ~raced =>
        /\ DOMAIN files \subseteq deleting
        /\ \A s \in Streams : task[s].step \notin {"start", "reopen"}

\* A task goes on, and opens no file; no file is made.
LEMMA DeletedStays ==
    ASSUME Deleted, UNCHANGED <<child, deleting, raced>>, DOMAIN files' = DOMAIN files,
           \A s \in Streams : task'[s].step \in {"start", "reopen"} => task'[s].step = task[s].step
    PROVE  Deleted'
BY DEF Deleted

LEMMA TaskLeavesDeleted ==
    ASSUME IInv, Deleted, NEW s \in Streams, TaskStep(s)
    PROVE  Deleted'
<1>0. /\ task \in [Streams -> Task]
      /\ \A t \in Streams : task[t] \in Task
  BY DEF IInv, TypeOK
<1>1. CASE Opens(s) \/ Reopens(s)
  BY <1>1 DEF Opens, Reopens, Deleted, process
<1>2. CASE Renames(s)
  BY <1>2 DEF Renames, RenamesTo, Renamed, Deleted, process
<1>3. CASE OpenFails(s) \/ ReadFails(s) \/ Ends(s)
  <2>1. task' = [task EXCEPT ![s].step = "end"]
    BY <1>3 DEF OpenFails, ReadFails, Ends, ClosesPipe, Goto
  <2>2. \A t \in Streams : task'[t].step \in {"start", "reopen"} => task'[t].step = task[t].step
    BY <1>0, <2>1 DEF Task
  <2>3. UNCHANGED <<child, deleting, raced, files>>
    BY <1>3 DEF OpenFails, ReadFails, Ends, ClosesPipe, process
  <2> QED BY <2>2, <2>3, DeletedStays
<1>4. CASE RenameFails(s) \/ ReopenFails(s) \/ WriteFails(s)
  <2>1. task' = [task EXCEPT ![s].step = "read", ![s].line = 0]
    BY <1>4 DEF RenameFails, ReopenFails, WriteFails, GiveUp
  <2>2. \A t \in Streams : task'[t].step \in {"start", "reopen"} => task'[t].step = task[t].step
    BY <1>0, <2>1 DEF Task
  <2>3. UNCHANGED <<child, deleting, raced, files>>
    BY <1>4 DEF RenameFails, ReopenFails, WriteFails, process
  <2> QED BY <2>2, <2>3, DeletedStays
<1>5. CASE Takes(s)
  <2>1. /\ task'[s].step \in {"rename", "write"}
        /\ \A t \in Streams \ {s} : task'[t] = task[t]
    BY <1>0, <1>5 DEF Takes, Task
  <2>2. UNCHANGED <<child, deleting, raced, files>>
    BY <1>5 DEF Takes
  <2> QED BY <2>1, <2>2, DeletedStays
<1>6. CASE Writes(s)
  <2>1. /\ task'[s].step = "read"
        /\ \A t \in Streams \ {s} : task'[t] = task[t]
    BY <1>0, <1>6 DEF Writes, Task
  <2>2. UNCHANGED <<child, deleting, raced>> /\ DOMAIN files' = DOMAIN files
    BY <1>6 DEF Writes, process
  <2> QED BY <2>1, <2>2, DeletedStays
<1> QED BY <1>1, <1>2, <1>3, <1>4, <1>5, <1>6 DEF TaskStep

LEMMA StepKeepsDeleted ==
    ASSUME IInv, Deleted, [Next]_vars
    PROVE  Deleted'
<1>1. CASE Start \/ StartUnlogged \/ ChildExits \/ Restart \/ DaemonEnds
  BY <1>1 DEF Start, StartUnlogged, ChildExits, Restart, DaemonEnds, Deleted
<1>2. ASSUME NEW s \in Streams, Prints(s) \/ PrintsUncaptured(s) PROVE Deleted'
  BY <1>2 DEF Prints, PrintsUncaptured, Deleted
<1>3. ASSUME NEW s \in Streams, TaskStep(s) PROVE Deleted'
  BY <1>3, TaskLeavesDeleted
<1>4. CASE Delete
  BY <1>4 DEF Delete, Deleted
<1>5. ASSUME NEW name \in deleting, Unlinks(name) PROVE Deleted'
  <2>1. DOMAIN files' = DOMAIN files \ {name}
    BY <1>5 DEF Unlinks, Restrict
  <2>2. \A s \in Streams : task'[s].step = task[s].step
    <3>1. CASE UNCHANGED task
      BY <3>1
    <3>2. CASE task' = [task EXCEPT ![name[1]].linked = FALSE]
      BY <3>2 DEF IInv, TypeOK, Task
    <3> QED BY <1>5, <3>1, <3>2 DEF Unlinks
  <2> QED BY <1>5, <2>1, <2>2 DEF Unlinks, Deleted, process
<1>6. ASSUME NEW name \in deleting, UnlinkFails(name) PROVE Deleted'
  BY <1>6 DEF UnlinkFails, Deleted, process
<1>7. CASE Tick \/ UNCHANGED vars
  BY <1>7 DEF Tick, vars, process, Deleted
<1> QED BY <1>1, <1>2, <1>3, <1>4, <1>5, <1>6, <1>7, Zenon DEF Next

\* Nothing is left of the log of a process that was deleted, though its tasks go
\* on, unless one opened or rotated a file meanwhile or a file could not go.
THEOREM DeletedLogsAreGone == Spec => []DeletedLeavesNothing
<1>1. Init => Deleted
  BY DEF Init, Deleted
<1>2. Deleted => DeletedLeavesNothing
  BY DEF Deleted, DeletedLeavesNothing
<1> QED BY Invariance, <1>1, StepKeepsDeleted, <1>2, PTL DEF Spec

-----------------------------------------------------------------------------
(* Pipes are read. *)

\* A task that runs: at each of its steps it can go on or give up.
Runs(s) == task[s].step \in {"start", "read", "rename", "reopen", "write"}

\* A pipe that holds lines has its task: whoever blocks at a full pipe waits for a
\* task that can go on.
PipesCanGoOn == \A s \in Streams : queue[s] # <<>> => Runs(s)

\* Captured children have had tasks, and no task is left of another daemon.
Attached ==
    \A s \in Streams : /\ child = "captured" => task[s].step # "none"
                       /\ child = "none" => task[s].step = "none"

\* How many steps a task is from taking its next line.
TaskLeft ==
    [step \in {"start", "read", "rename", "reopen", "write"} |->
        CASE step = "start" -> 4 [] step = "rename" -> 3 [] step = "reopen" -> 2
          [] step = "write" -> 1 [] OTHER -> 0]

\* A task takes the pipe's next line, is nearer to do so, or is gone with all that
\* is in the pipe.
TaskAdvances(s) ==
    \/ queue[s] # <<>> /\ queue'[s] = Tail(queue[s]) /\ Runs(s)'
    \/ queue'[s] = queue[s] /\ Runs(s)' /\ TaskLeft[task'[s].step] < TaskLeft[task[s].step]
    \/ queue'[s] = <<>> /\ ~Runs(s)'

\* Each step of a task advances it, and apart from that only its child touches its
\* pipe, to print one more line where there is room: what the other stream does
\* keeps no line of this one from being read.
PipesAdvance ==
    [][\A s \in Streams :
          /\ Runs(s) /\ task'[s].step # task[s].step => TaskAdvances(s)
          /\ queue'[s] # queue[s] =>
                \/ Runs(s) /\ TaskAdvances(s)
                \/ /\ task' = task /\ Len(queue[s]) < PipeSize
                   /\ \E line \in Lines : queue'[s] = Append(queue[s], line)]_vars

\* A step of a task advances it and touches no other stream.
LEMMA TaskGoesOn ==
    ASSUME IInv, NEW s \in Streams, TaskStep(s)
    PROVE  /\ Runs(s) /\ TaskAdvances(s)
           /\ child' = child
           /\ task'[s].step # "none"
           /\ \A t \in Streams : t # s => queue'[t] = queue[t] /\ task'[t] = task[t]
<1>0. /\ task \in [Streams -> Task] /\ task[s] \in Task
      /\ queue \in [Streams -> Seq(Lines)] /\ queue[s] \in Seq(Lines)
  BY DEF IInv, TypeOK
<1> DEFINE Goal == /\ Runs(s) /\ TaskAdvances(s)
                   /\ child' = child
                   /\ task'[s].step # "none"
                   /\ \A t \in Streams : t # s => queue'[t] = queue[t] /\ task'[t] = task[t]
<1>1. ASSUME Opens(s) \/ Renames(s) \/ RenameFails(s) \/ Reopens(s) \/ ReopenFails(s)
             \/ Writes(s) \/ WriteFails(s)
      PROVE  Goal
  <2>1. UNCHANGED process
    BY <1>1 DEF Opens, Renames, RenamesTo, RenameFails, Reopens, ReopenFails, Writes, WriteFails
  <2>2. \A t \in Streams : t # s => task'[t] = task[t]
    BY <1>0, <1>1
       DEF Opens, Ready, Renames, RenamesTo, RenameFails, Reopens, ReopenFails, Writes, WriteFails,
           GiveUp
  <2>3. \/ task[s].step = "start" /\ task'[s].step = "read"
        \/ task[s].step = "rename" /\ task'[s].step \in {"reopen", "read"}
        \/ task[s].step = "reopen" /\ task'[s].step \in {"write", "read"}
        \/ task[s].step = "write" /\ task'[s].step = "read"
    BY <1>0, <1>1
       DEF Opens, Ready, Renames, RenamesTo, RenameFails, Reopens, ReopenFails, Writes, WriteFails,
           GiveUp, Task
  <2>4. TaskLeft[task'[s].step] < TaskLeft[task[s].step]
    BY <2>3 DEF TaskLeft
  <2> QED BY <2>1, <2>2, <2>3, <2>4 DEF process, Runs, TaskAdvances
<1>2. ASSUME OpenFails(s) \/ ReadFails(s) \/ Ends(s) PROVE Goal
  <2>1. /\ task' = [task EXCEPT ![s].step = "end"] /\ child' = child
        /\ task[s].step \in {"start", "read"}
    BY <1>2 DEF OpenFails, ReadFails, Ends, ClosesPipe, Goto, process
  <2>2. task'[s].step = "end" /\ \A t \in Streams : t # s => task'[t] = task[t]
    BY <1>0, <2>1 DEF Task
  <2>3. queue'[s] = <<>> /\ \A t \in Streams : t # s => queue'[t] = queue[t]
    BY <1>0, <1>2 DEF OpenFails, ReadFails, Ends, ClosesPipe, process
  <2> QED BY <2>1, <2>2, <2>3 DEF Runs, TaskAdvances
<1>3. ASSUME Takes(s) PROVE Goal
  <2>1. task'[s].step \in {"rename", "write"} /\ \A t \in Streams : t # s => task'[t] = task[t]
    BY <1>0, <1>3 DEF Takes, Task
  <2>2. queue'[s] = Tail(queue[s]) /\ \A t \in Streams : t # s => queue'[t] = queue[t]
    BY <1>0, <1>3 DEF Takes
  <2>3. task[s].step = "read" /\ queue[s] # <<>> /\ child' = child
    BY <1>3 DEF Takes
  <2> QED BY <2>1, <2>2, <2>3 DEF Runs, TaskAdvances
<1> QED BY <1>1, <1>2, <1>3 DEF TaskStep

\* What a step does to the tasks and their pipes, and that every pipe with lines
\* keeps its task.
LEMMA PipesStep ==
    ASSUME IInv, PipesCanGoOn, Attached, Next
    PROVE  /\ PipesCanGoOn' /\ Attached'
           /\ \A s \in Streams :
                 /\ Runs(s) /\ task'[s].step # task[s].step => TaskAdvances(s)
                 /\ queue'[s] # queue[s] =>
                       \/ Runs(s) /\ TaskAdvances(s)
                       \/ /\ task' = task /\ Len(queue[s]) < PipeSize
                          /\ \E line \in Lines : queue'[s] = Append(queue[s], line)
<1>0. /\ task \in [Streams -> Task] /\ \A s \in Streams : task[s] \in Task
      /\ queue \in [Streams -> Seq(Lines)]
  BY DEF IInv, TypeOK
<1> DEFINE Goal ==
           /\ PipesCanGoOn' /\ Attached'
           /\ \A s \in Streams :
                 /\ Runs(s) /\ task'[s].step # task[s].step => TaskAdvances(s)
                 /\ queue'[s] # queue[s] =>
                       \/ Runs(s) /\ TaskAdvances(s)
                       \/ /\ task' = task /\ Len(queue[s]) < PipeSize
                          /\ \E line \in Lines : queue'[s] = Append(queue[s], line)
\* Steps that leave all tasks where they are and all pipes as they are.
<1>1. ASSUME queue' = queue, \A s \in Streams : task'[s].step = task[s].step,
             child' = "captured" => child = "captured", child' = "none" => child = "none"
      PROVE  Goal
  BY <1>1 DEF PipesCanGoOn, Attached, Runs
<1>2. ASSUME Start PROVE Goal
  <2>1. \A s \in Streams : task'[s].step = "start"
    BY <1>2 DEF Start, NoTask
  <2>2. queue' = queue /\ child = "none" /\ child' = "captured"
    BY <1>2 DEF Start
  <2>3. \A s \in Streams : task[s].step = "none"
    BY <2>2 DEF Attached
  <2> QED BY <2>1, <2>2, <2>3 DEF PipesCanGoOn, Attached, Runs
<1>3. ASSUME NEW s \in Streams, Prints(s) PROVE Goal
  <2>1. PICK line \in Lines : queue' = [queue EXCEPT ![s] = Append(@, line)]
    <3>1. printed' \in Lines
      BY <1>3, BoundsAssumption DEF Prints, Lines, IInv, TypeOK
    <3> QED BY <1>3, <3>1 DEF Prints
  <2>2. /\ UNCHANGED <<task, child>> /\ child = "captured" /\ Len(queue[s]) < PipeSize
        /\ task[s].step # "end"
    BY <1>3 DEF Prints
  <2>3. Runs(s)
    BY <1>0, <2>2 DEF PipesCanGoOn, Attached, Runs, Task
  <2> QED BY <1>0, <2>1, <2>2, <2>3 DEF PipesCanGoOn, Attached, Runs
<1>4. ASSUME NEW s \in Streams, TaskStep(s) PROVE Goal
  <2>1. /\ Runs(s) /\ TaskAdvances(s)
        /\ child' = child
        /\ task'[s].step # "none"
        /\ \A t \in Streams : t # s => queue'[t] = queue[t] /\ task'[t] = task[t]
    BY <1>4, TaskGoesOn
  <2>2. queue'[s] # <<>> => Runs(s)'
    BY <2>1 DEF TaskAdvances
  <2> QED BY <2>1, <2>2 DEF PipesCanGoOn, Attached, Runs
<1>5. ASSUME DaemonEnds PROVE Goal
  <2>1. /\ \A s \in Streams : queue'[s] = <<>> /\ task'[s].step = "none"
        /\ child' = "none"
    BY <1>5 DEF DaemonEnds, NothingQueued, NoTask
  <2> QED BY <2>1 DEF PipesCanGoOn, Attached, Runs, TaskAdvances
<1>6. ASSUME NEW name \in deleting, Unlinks(name) PROVE Goal
  <2>1. \A s \in Streams : task'[s].step = task[s].step
    <3>1. CASE UNCHANGED task
      BY <3>1
    <3>2. CASE task' = [task EXCEPT ![name[1]].linked = FALSE]
      BY <1>0, <3>2 DEF Task
    <3> QED BY <1>6, <3>1, <3>2 DEF Unlinks
  <2> QED BY <1>1, <1>6, <2>1 DEF Unlinks, process
<1>7. ASSUME \/ StartUnlogged \/ ChildExits \/ Restart \/ Delete \/ Tick
             \/ \E s \in Streams : PrintsUncaptured(s)
             \/ \E name \in deleting : UnlinkFails(name)
      PROVE  Goal
  BY <1>1, <1>7
     DEF StartUnlogged, ChildExits, Restart, Delete, Tick, PrintsUncaptured, UnlinkFails, process
<1> QED BY <1>2, <1>3, <1>4, <1>5, <1>6, <1>7, Zenon DEF Next

LEMMA PipesInvariance == Spec => [](IInv /\ PipesCanGoOn /\ Attached)
<1>1. Init => PipesCanGoOn /\ Attached
  BY DEF Init, PipesCanGoOn, Attached, NothingQueued, NoTask
<1>2. IInv /\ PipesCanGoOn /\ Attached /\ [Next]_vars => PipesCanGoOn' /\ Attached'
  <2>1. CASE UNCHANGED vars
    BY <2>1 DEF vars, process, PipesCanGoOn, Attached, Runs
  <2> QED BY <2>1, PipesStep
<1> QED BY Invariance, <1>1, <1>2, PTL DEF Spec

\* Whoever waits at a full pipe waits for a task that can go on: a task that gives
\* up, on its files or on its pipe, leaves no pipe open behind it (read_stdout_task,
\* read_stderr_task).
THEOREM ReadersCanGoOn == Spec => []PipesCanGoOn
BY PipesInvariance, PTL

\* Each step of a reading task takes a line from its pipe or brings it nearer to
\* that, whatever the other stream's task, rotations and deletes do.
THEOREM ReadersGetDone == Spec => PipesAdvance
<1>1. IInv /\ PipesCanGoOn /\ Attached /\ [Next]_vars =>
          [\A s \in Streams :
              /\ Runs(s) /\ task'[s].step # task[s].step => TaskAdvances(s)
              /\ queue'[s] # queue[s] =>
                    \/ Runs(s) /\ TaskAdvances(s)
                    \/ /\ task' = task /\ Len(queue[s]) < PipeSize
                       /\ \E line \in Lines : queue'[s] = Append(queue[s], line)]_vars
  BY PipesStep
<1> QED BY PipesInvariance, <1>1, PTL DEF Spec, PipesAdvance

=============================================================================
