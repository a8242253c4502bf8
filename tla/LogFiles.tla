------------------------------ MODULE LogFiles ------------------------------
(***************************************************************************)
(* The log of one managed process (src/logs/manager.rs, src/logs/writer.rs *)
(* and their callers in src/bin/adasa-daemon.rs): a task per output stream *)
(* takes the lines that the child prints and writes them to a file, which  *)
(* it rotates; deletes, restarts and the end of the daemon go on meanwhile.*)
(*                                                                         *)
(* What is abstracted:                                                     *)
(*   - A line is a number with a length; what it says, and its timestamp,  *)
(*     are left out.  A file's length can be asked for.                    *)
(*   - The wall clock is not set back, and counts seconds: that is what    *)
(*     the names of rotated files tell apart.                              *)
(*   - Only the child itself holds its pipes open.                         *)
(*   - Files of other processes; no name begins with this one's.           *)
(***************************************************************************)
EXTENDS Naturals, Sequences, Functions

CONSTANTS
    Streams,  \* stdout and stderr
    MaxSize,  \* DEFAULT_MAX_LOG_SIZE
    PipeSize, \* lines that fit a pipe
    Length,   \* line -> bytes of its entry in the log, as long as it may be
    MaxLines, \* bound on the lines that captured children print
    MaxTime   \* bound on the clock

Lines == 1 .. MaxLines

ASSUME SizesAssumption  == MaxSize \in Nat \ {0} /\ PipeSize \in Nat \ {0}
ASSUME LengthAssumption == Length \in [Lines -> Nat \ {0}]
ASSUME BoundsAssumption == MaxLines \in Nat /\ MaxTime \in Nat \ {0}

VARIABLES
    now,      \* the second it is
    child,    \* the process, and whether tasks read its pipes
    printed,  \* lines printed by captured children: they are numbered so
    queue,    \* stream -> lines in the pipe that its task reads
    stuck,    \* stream -> lines in the pipe of a child that no task reads
    task,     \* stream -> its task and LogWriter
    files,    \* the log directory: file name -> the lines of the file
    sizes,    \* file name -> its length, and how much of it is torn lines
    deleting, \* names that a delete has listed and not yet unlinked
    dropped,  \* history: lines that are in no pipe, task or file any more
    raced     \* history: a rotation, an opening or a failure met the delete

process == <<child, printed, queue, stuck>>
vars    == <<now, process, task, files, sizes, deleting, dropped, raced>>

\* The file being written has stamp 0, a rotated one the second it was rotated.
Names == Streams \X (0 .. MaxTime)

Current(s) == <<s, 0>>
Currents   == {Current(s) : s \in Streams}

\* linked: the task's open file is the one at its path; size: what it has counted
\* of it; line: what it is writing, 0 if nothing.
Task == [step : {"none", "start", "read", "rename", "reopen", "write", "end"},
         linked : BOOLEAN, size : Nat, line : 0 .. MaxLines]

NoTask == [step |-> "none", linked |-> FALSE, size |-> 0, line |-> 0]

NothingQueued == [s \in Streams |-> <<>>]
NothingStuck  == [s \in Streams |-> 0]

\* torn: the bytes of lines of which only a part was written.
NoBytes == [bytes |-> 0, torn |-> 0]

\* OpenOptions: create(true).append(true).
Opened(dir, names, new) ==
    [n \in DOMAIN dir \cup names |-> IF n \in DOMAIN dir THEN dir[n] ELSE new]

OpensFiles(names) ==
    /\ files' = Opened(files, names, <<>>)
    /\ sizes' = Opened(sizes, names, NoBytes)

\* rename.
Renamed(dir, from, to) ==
    [n \in (DOMAIN dir \ {from}) \cup {to} |-> dir[IF n = to THEN from ELSE n]]

LinesOf(name) == IF name \in DOMAIN files THEN Range(files[name]) ELSE {}

Goto(s, step) == task' = [task EXCEPT ![s].step = step]

Drop(lines) == dropped' = dropped \cup lines

\* The line is given up.
GiveUp(s) ==
    /\ Drop({task[s].line})
    /\ task' = [task EXCEPT ![s].step = "read", ![s].line = 0]

Held(s) == {task[s].line} \ {0}

-----------------------------------------------------------------------------
Init ==
    /\ now = 1
    /\ child = "none"
    /\ printed = 0
    /\ queue = NothingQueued
    /\ stuck = NothingStuck
    /\ task = [s \in Streams |-> NoTask]
    /\ files = [n \in {} |-> <<>>]
    /\ sizes = [n \in {} |-> NoBytes]
    /\ deleting = {}
    /\ dropped = {}
    /\ raced = FALSE

-----------------------------------------------------------------------------
(* The process. *)

\* create_logger opens both files, capture_logs hands the pipes to two tasks.
Start ==
    /\ child = "none"
    /\ child' = "captured"
    /\ OpensFiles(Currents)
    /\ task' = [s \in Streams |-> [NoTask EXCEPT !.step = "start"]]
    /\ UNCHANGED <<now, printed, queue, stuck, deleting, dropped, raced>>

\* create_logger fails, with no file made or some: the child runs on.
StartUnlogged ==
    /\ child = "none"
    /\ child' = "uncaptured"
    /\ \E names \in SUBSET Currents : OpensFiles(names)
    /\ UNCHANGED <<now, printed, queue, stuck, task, deleting, dropped, raced>>

Prints(s) ==
    /\ child = "captured"
    /\ task[s].step # "end"
    /\ Len(queue[s]) < PipeSize
    /\ printed < MaxLines
    /\ printed' = printed + 1
    /\ queue' = [queue EXCEPT ![s] = Append(@, printed')]
    /\ UNCHANGED <<now, child, stuck, task, files, sizes, deleting, dropped, raced>>

PrintsUncaptured(s) ==
    /\ child = "uncaptured"
    /\ stuck[s] < PipeSize
    /\ stuck' = [stuck EXCEPT ![s] = @ + 1]
    /\ UNCHANGED <<now, child, printed, queue, task, files, sizes, deleting, dropped, raced>>

ChildExits ==
    /\ child \in {"captured", "uncaptured"}
    /\ child' = "exited"
    /\ stuck' = NothingStuck
    /\ UNCHANGED <<now, printed, queue, task, files, sizes, deleting, dropped, raced>>

\* A manual, rolling or automatic restart: nothing hands the new child's pipes
\* to a task.
Restart ==
    /\ child \in {"captured", "uncaptured", "exited"}
    /\ child' = "uncaptured"
    /\ stuck' = NothingStuck
    /\ UNCHANGED <<now, printed, queue, task, files, sizes, deleting, dropped, raced>>

-----------------------------------------------------------------------------
(* The task of a stream. *)

Ready(s, size) ==
    task' = [task EXCEPT ![s] = [step |-> "read", linked |-> TRUE, size |-> size, line |-> 0]]

\* Mutant: the files are opened without append, and so truncated.
OpensTruncating(s) ==
    /\ task[s].step = "start"
    /\ files' = [n \in DOMAIN files \cup Currents |->
                    IF n \in Currents THEN <<>> ELSE files[n]]
    /\ sizes' = [n \in DOMAIN files' |-> IF n \in Currents THEN NoBytes ELSE sizes[n]]
    /\ Ready(s, 0)
    /\ UNCHANGED <<now, process, deleting, dropped, raced>>

\* Mutant: the size of what is there already is not asked for.
OpensUnsized(s) ==
    /\ task[s].step = "start"
    /\ OpensFiles(Currents)
    /\ Ready(s, 0)
    /\ UNCHANGED <<now, process, deleting, dropped, raced>>

\* LogWriter::new opens the files of both streams.
Opens(s) ==
    /\ task[s].step = "start"
    /\ OpensFiles(Currents)
    /\ Ready(s, sizes'[Current(s)].bytes)
    /\ UNCHANGED <<now, process, deleting, dropped, raced>>

\* The task returns, and closes the pipe.
ClosesPipe(s) ==
    /\ Goto(s, "end")
    /\ Drop(Range(queue[s]))
    /\ queue' = [queue EXCEPT ![s] = <<>>]
    /\ UNCHANGED <<now, child, printed, stuck, files, sizes, deleting, raced>>

OpenFails(s) == task[s].step = "start" /\ ClosesPipe(s)

\* The pipe cannot be read, or the line is not UTF-8.
ReadFails(s) ==
    /\ task[s].step = "read"
    /\ queue[s] # <<>>
    /\ ClosesPipe(s)

\* The file is rotated first when it is at its limit.
Takes(s) ==
    /\ task[s].step = "read"
    /\ queue[s] # <<>>
    /\ queue' = [queue EXCEPT ![s] = Tail(@)]
    /\ task' = [task EXCEPT
         ![s].step = IF task[s].size >= MaxSize THEN "rename" ELSE "write",
         ![s].line = Head(queue[s])]
    /\ UNCHANGED <<now, child, printed, stuck, files, sizes, deleting, dropped, raced>>

Ends(s) ==
    /\ task[s].step = "read"
    /\ queue[s] = <<>>
    /\ child # "captured"
    /\ Goto(s, "end")
    /\ UNCHANGED <<now, process, files, sizes, deleting, dropped, raced>>

\* rotate_log.
RenamesTo(s, stamp) ==
    /\ task[s].step = "rename"
    /\ Current(s) \in DOMAIN files
    /\ Drop(LinesOf(<<s, stamp>>))
    /\ files' = Renamed(files, Current(s), <<s, stamp>>)
    /\ sizes' = Renamed(sizes, Current(s), <<s, stamp>>)
    /\ task' = [task EXCEPT ![s].step = "reopen", ![s].linked = FALSE]
    /\ raced' = (raced \/ child = "deleted")
    /\ UNCHANGED <<now, process, deleting>>

\* Mutant: the stamp's hours go from 1 to 12.
RenamesByHalfDays(s) == RenamesTo(s, 1 + (now % 2))

\* A file that was rotated within the same second is overwritten.
Renames(s) == RenamesTo(s, now)

\* Mutant: the file is opened again all the same.
RenameFailsReopens(s) ==
    /\ task[s].step = "rename"
    /\ Goto(s, "reopen")
    /\ UNCHANGED <<now, process, files, sizes, deleting, dropped, raced>>

\* The next line will try to rotate again.
RenameFails(s) ==
    /\ task[s].step = "rename"
    /\ GiveUp(s)
    /\ UNCHANGED <<now, process, files, sizes, deleting, raced>>

Reopens(s) ==
    /\ task[s].step = "reopen"
    /\ OpensFiles({Current(s)})
    /\ task' = [task EXCEPT ![s].step = "write", ![s].linked = TRUE, ![s].size = 0]
    /\ UNCHANGED <<now, process, deleting, dropped, raced>>

\* The writer keeps the rotated file and its size, and each line after this one
\* will look for a file to rotate.
ReopenFails(s) ==
    /\ task[s].step = "reopen"
    /\ GiveUp(s)
    /\ UNCHANGED <<now, process, files, sizes, deleting, raced>>

\* The line is counted when all of it is written.  A file that has been deleted
\* is written to in vain.
Writes(s) ==
    /\ task[s].step = "write"
    /\ task' = [task EXCEPT ![s].step = "read", ![s].line = 0,
                            ![s].size = @ + Length[task[s].line]]
    /\ IF task[s].linked
       THEN /\ files' = [files EXCEPT ![Current(s)] = Append(@, task[s].line)]
            /\ sizes' = [sizes EXCEPT ![Current(s)].bytes = @ + Length[task[s].line]]
            /\ UNCHANGED dropped
       ELSE /\ Drop({task[s].line})
            /\ UNCHANGED <<files, sizes>>
    /\ UNCHANGED <<now, process, deleting, raced>>

\* Mutant: the task ends, and its pipe is left open.
WriteFailsEnds(s) ==
    /\ task[s].step = "write"
    /\ task' = [task EXCEPT ![s].step = "end", ![s].line = 0]
    /\ Drop({task[s].line})
    /\ UNCHANGED <<now, process, files, sizes, deleting, raced>>

\* A part of the line may be in the file by then, and is not counted.
WriteFails(s) ==
    /\ task[s].step = "write"
    /\ GiveUp(s)
    /\ IF task[s].linked
       THEN \E part \in 0 .. Length[task[s].line] - 1 :
              sizes' = [sizes EXCEPT ![Current(s)].bytes = @ + part,
                                     ![Current(s)].torn = @ + part]
       ELSE UNCHANGED sizes
    /\ UNCHANGED <<now, process, files, deleting, raced>>

-----------------------------------------------------------------------------
(* Delete, and the end of the daemon. *)

\* The process has been stopped and removed; delete_logs reads the directory.
\* A task that opens its files after that makes them again.
Delete ==
    /\ child \in {"captured", "uncaptured", "exited"}
    /\ child' = "deleted"
    /\ stuck' = NothingStuck
    /\ deleting' = DOMAIN files
    /\ raced' = \E s \in Streams : task[s].step \in {"start", "reopen"}
    /\ UNCHANGED <<now, printed, queue, task, files, sizes, dropped>>

Unlinks(name) ==
    /\ name \in deleting
    /\ deleting' = deleting \ {name}
    /\ files' = Restrict(files, DOMAIN files \ {name})
    /\ sizes' = Restrict(sizes, DOMAIN sizes \ {name})
    /\ Drop(LinesOf(name))
    /\ task' = IF name \in Currents
               THEN [task EXCEPT ![name[1]].linked = FALSE] ELSE task
    /\ UNCHANGED <<now, process, raced>>

\* The file stays, with a warning.
UnlinkFails(name) ==
    /\ name \in deleting
    /\ deleting' = deleting \ {name}
    /\ raced' = TRUE
    /\ UNCHANGED <<now, process, task, files, sizes, dropped>>

\* The ids of a daemon that is gone are used again by the next.  A write that is
\* cut short is one that failed just before.
DaemonEnds ==
    /\ child # "none"
    /\ child' = "none"
    /\ Drop(UNION {Range(queue[s]) \cup Held(s) : s \in Streams})
    /\ queue' = NothingQueued
    /\ stuck' = NothingStuck
    /\ task' = [s \in Streams |-> NoTask]
    /\ deleting' = {}
    /\ raced' = FALSE
    /\ UNCHANGED <<now, printed, files, sizes>>

Tick ==
    /\ now < MaxTime
    /\ now' = now + 1
    /\ UNCHANGED <<process, task, files, sizes, deleting, dropped, raced>>

-----------------------------------------------------------------------------
TaskStep(s) ==
    \/ Opens(s)
    \/ OpenFails(s)
    \/ ReadFails(s)
    \/ Takes(s)
    \/ Ends(s)
    \/ Renames(s)
    \/ RenameFails(s)
    \/ Reopens(s)
    \/ ReopenFails(s)
    \/ Writes(s)
    \/ WriteFails(s)

Next ==
    \/ Start
    \/ StartUnlogged
    \/ \E s \in Streams : Prints(s) \/ PrintsUncaptured(s) \/ TaskStep(s)
    \/ ChildExits
    \/ Restart
    \/ Delete
    \/ \E name \in deleting : Unlinks(name) \/ UnlinkFails(name)
    \/ DaemonEnds
    \/ Tick

Spec == Init /\ [][Next]_vars

\* The runtime polls its tasks.
FairSpec == Spec /\ \A s \in Streams : WF_vars(TaskStep(s))

-----------------------------------------------------------------------------
(* Properties. *)

\* Every variable keeps its shape, and each file has a size.
TypeOK ==
    /\ now \in 1 .. MaxTime
    /\ child \in {"none", "captured", "uncaptured", "exited", "deleted"}
    /\ printed \in 0 .. MaxLines
    /\ queue \in [Streams -> Seq(Lines)]
    /\ stuck \in [Streams -> 0 .. PipeSize]
    /\ task \in [Streams -> Task]
    /\ DOMAIN files \subseteq Names
    /\ \A n \in DOMAIN files : files[n] \in Seq(Lines)
    /\ DOMAIN sizes = DOMAIN files
    /\ \A n \in DOMAIN sizes : sizes[n] \in [bytes : Nat, torn : Nat]
    /\ deleting \subseteq Names
    /\ dropped \subseteq Lines
    /\ raced \in BOOLEAN

\* A captured line is on its way to the log or in it for good, through
\* rotations, restarts and new daemons - unless reading its pipe or an operation
\* on its file failed, its process was deleted, its daemon ended before it was
\* written, or its file and the next were rotated in one second.
LogsAreComplete ==
    (1 .. printed) \ dropped =
        (UNION {Range(queue[s]) \cup Held(s) : s \in Streams})
        \cup (UNION {Range(files[n]) : n \in DOMAIN files})

\* The rotated files of a stream in the order of their stamps, then its current
\* file, have the lines in the order they were printed in, and none twice.
LogsAreInOrder ==
    \A m, n \in DOMAIN files : \A i \in DOMAIN files[m], j \in DOMAIN files[n] :
        (/\ m[1] = n[1]
         /\ \/ m = n /\ i < j
            \/ m[2] # 0 /\ (n[2] = 0 \/ m[2] < n[2])) => files[m][i] < files[n][j]

\* A file outgrows the limit by less than the last line in it, however long that
\* is and whichever daemon began the file - apart from what torn lines left in it,
\* which nothing counts until the next daemon opens the file.
FilesAreBounded ==
    \A n \in DOMAIN files : files[n] # <<>> =>
        sizes[n].bytes - sizes[n].torn < MaxSize + Length[files[n][Len(files[n])]]

\* Nothing is left of the log of a process that was deleted, though its tasks
\* go on with what it printed last - unless they opened or rotated a file
\* while the delete read the directory, or a file could not be unlinked.
DeletedLeavesNothing == child = "deleted" /\ deleting = {} /\ ~raced => DOMAIN files = {}

\* A full pipe does not stay full: its task takes a line, whatever became of the
\* lines before it, or returns and closes the pipe, so that the child is told
\* and not blocked.  (It returns when it cannot open its files or read the pipe,
\* as at a line that is not UTF-8.)
PipesAreRead == \A s \in Streams : Len(queue[s]) = PipeSize ~> Len(queue[s]) < PipeSize

\* README.md: "Capture stdout/stderr".  So a process whose child can go on
\* printing has no child, later, that cannot.
CapturedStaysCaptured ==
    \A s \in Streams :
        [](child = "captured" => [](stuck[s] = PipeSize => <>(stuck[s] < PipeSize)))

=============================================================================
