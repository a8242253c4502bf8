------------------------------ MODULE LogReader ------------------------------
(***************************************************************************)
(* Reading the log of one process (src/logs/reader.rs) while it is written *)
(* and rotated: read_logs, which a Logs command calls, and LogStream, the  *)
(* tail that the library offers (the daemon answers a follow with a text). *)
(* Readers change no file, so a behaviour has one client: it reads, once   *)
(* or again and again, or follows.                                         *)
(*                                                                         *)
(* A file is its lines, and stays what it is when it is renamed or         *)
(* unlinked: whoever has it open has that file.  What is abstracted:       *)
(*   - A line has size 1, so a position never lands inside one.  It is     *)
(*     written and read whole: the writer ends each with a newline.        *)
(*   - Timestamps are local times, and the clock is not set back: where    *)
(*     summer time ends for an hour, newer lines can sort before older.    *)
(*   - What a line says is whether the filter finds it.                    *)
(*   - The writer is LogFiles, reduced to what a reader sees of it.        *)
(***************************************************************************)
EXTENDS Naturals, Sequences, FiniteSets, SequencesExt

CONSTANTS
    Lines,     \* LogReadOptions.lines, how many to show
    Found,     \* the numbers of the lines that the filter finds
    Requests,  \* the streams that are asked for, and whether with the filter
    Capacity,  \* of the channel of a LogStream
    MaxLines,  \* bound on the lines that are written
    MaxFiles,  \* bound on the files a stream has, one after the other
    MaxTime    \* bound on the clock

ASSUME LinesAssumption  == Lines \in Nat /\ Capacity \in Nat \ {0} /\ Found \subseteq Nat
ASSUME RequestsAssumption == Requests \subseteq (SUBSET {"out", "err"}) \X BOOLEAN
ASSUME BoundsAssumption == MaxLines \in Nat /\ MaxFiles \in Nat /\ MaxTime \in Nat \ {0}

VARIABLES
    now,      \* the wall clock
    written,  \* lines written so far, which numbers them
    files,    \* stream -> its files, oldest first, each the sequence of its lines
    path,     \* stream -> which of them is at the stream's path, 0 if none
    writing,  \* stream -> which of them the writer has open, 0 if none
    read,     \* a call of read_logs
    tail,     \* a LogStream's task, with a LogTailer for each stream
    channel,  \* the entries between the task and next()
    got,      \* history: the entries that next() returned
    broke     \* history: a read of the task failed

log     == <<now, written, files, path, writing>>
stream  == <<tail, channel, got, broke>>
vars    == <<log, read, stream>>

Streams == {"out", "err"}
Numbers == 1 .. MaxLines
FileNos == 1 .. MaxFiles

Line == [n : Numbers, at : 1 .. MaxTime, src : Streams]

\* todo: the streams still to read; file: the one that is open; entries:
\* all_entries; seen: history, the lines that were read.
Read == [step : {"none", "exists", "open", "read", "done", "failed"},
         todo : SUBSET Streams, filter : BOOLEAN,
         file : 0 .. MaxFiles, entries : SUBSET Line, seen : SUBSET Line]

NoRead == [step |-> "none", todo |-> {}, filter |-> FALSE, file |-> 0,
           entries |-> {}, seen |-> {}]

\* turn: the stream whose tailer the loop is at; entry: what it is sending.
TailTask == [step : {"none", "turn", "send"}, turn : Streams, wanted : SUBSET Streams,
             filter : BOOLEAN, file : [Streams -> 0 .. MaxFiles],
             position : [Streams -> 0 .. MaxLines], entry : Seq(Line)]

NoTail == [step |-> "none", turn |-> "out", wanted |-> {}, filter |-> FALSE,
           file |-> [s \in Streams |-> 0], position |-> [s \in Streams |-> 0],
           entry |-> <<>>]

Init ==
    /\ now = 1
    /\ written = 0
    /\ files = [s \in Streams |-> <<>>]
    /\ path = [s \in Streams |-> 0]
    /\ writing = [s \in Streams |-> 0]
    /\ read = NoRead
    /\ tail = NoTail
    /\ channel = <<>>
    /\ got = <<>>
    /\ broke = FALSE

-----------------------------------------------------------------------------
(* The log. *)

\* The writer opens the path, where it finds nothing.
Opens(s) ==
    /\ writing[s] = 0
    /\ path[s] = 0
    /\ Len(files[s]) < MaxFiles
    /\ files' = [files EXCEPT ![s] = Append(@, <<>>)]
    /\ path' = [path EXCEPT ![s] = Len(files'[s])]
    /\ writing' = [writing EXCEPT ![s] = Len(files'[s])]
    /\ UNCHANGED <<now, written, read, stream>>

Writes(s) ==
    /\ writing[s] # 0
    /\ written < MaxLines
    /\ written' = written + 1
    /\ files' = [files EXCEPT ![s][writing[s]] =
                    Append(@, [n |-> written', at |-> now, src |-> s])]
    /\ UNCHANGED <<now, path, writing, read, stream>>

\* A rotation renames the file and opens the path again.
Renames(s) ==
    /\ writing[s] # 0
    /\ path[s] = writing[s]
    /\ path' = [path EXCEPT ![s] = 0]
    /\ writing' = [writing EXCEPT ![s] = 0]
    /\ UNCHANGED <<now, written, files, read, stream>>

\* delete_logs; a writer that is left goes on with the file it has.
Unlinks(s) ==
    /\ path[s] # 0
    /\ path' = [path EXCEPT ![s] = 0]
    /\ UNCHANGED <<now, written, files, writing, read, stream>>

Tick ==
    /\ now < MaxTime
    /\ now' = now + 1
    /\ UNCHANGED <<written, files, path, writing, read, stream>>

-----------------------------------------------------------------------------
(* read_logs.  Nothing keeps the writer away between its steps. *)

Passes(line, filter) == filter => line.n \in Found

\* Mutant: the sort is not stable, and lines of one moment come in any order.
BeforeUnstable(a, b) ==
    \/ a.at < b.at
    \/ a.at = b.at /\ a.n % 2 < b.n % 2
    \/ a.at = b.at /\ a.n % 2 = b.n % 2 /\ a.n < b.n

\* Lexicographic order of the timestamps, by a stable sort of stdout's lines
\* followed by stderr's.
Before(a, b) ==
    \/ a.at < b.at
    \/ a.at = b.at /\ a.src = b.src /\ a.n < b.n
    \/ a.at = b.at /\ a.src = "out" /\ b.src = "err"

\* Mutant: the lines of the two files are not sorted before the cut.
NewestUnsorted(lines) ==
    {a \in lines : Cardinality({b \in lines : (a.src = b.src /\ a.n < b.n)
                                              \/ (a.src = "out" /\ b.src = "err")}) < Lines}

\* Sorting, and the limit to the last of them.
Newest(lines) == {a \in lines : Cardinality({b \in lines : Before(a, b)}) < Lines}

\* read_last_lines: those the filter passes, the last Lines of them.
LastLines(file, filter) ==
    LET passed == {line \in ToSet(file) : Passes(line, filter)}
    IN  {a \in passed : Cardinality({b \in passed : a.n < b.n}) < Lines}

\* On to the next stream, or to the end.
NextFile(todo) == IF todo = {} THEN "done" ELSE "exists"

\* stdout first.
First(todo) == IF "out" \in todo THEN "out" ELSE "err"

ReadLogs(wanted, filter) ==
    /\ read.step \in {"none", "done", "failed"}
    /\ tail.step = "none"
    /\ read' = [step |-> NextFile(wanted), todo |-> wanted, filter |-> filter,
                file |-> 0, entries |-> {}, seen |-> {}]
    /\ UNCHANGED <<log, stream>>

\* A file that is not there counts as empty.
LooksForFile ==
    /\ read.step = "exists"
    /\ LET s == First(read.todo)
       IN  read' = IF path[s] # 0 THEN [read EXCEPT !.step = "open"]
                   ELSE [read EXCEPT !.step = NextFile(read.todo \ {s}), !.todo = @ \ {s}]
    /\ UNCHANGED <<log, stream>>

\* A file that has gone since fails the call.
OpensFile ==
    /\ read.step = "open"
    /\ LET s == First(read.todo)
       IN  read' = IF path[s] = 0 THEN [read EXCEPT !.step = "failed"]
                   ELSE [read EXCEPT !.step = "read", !.file = path[s]]
    /\ UNCHANGED <<log, stream>>

\* The file is read to its end.
ReadsFile ==
    /\ read.step = "read"
    /\ LET s == First(read.todo)
           file == files[s][read.file]
           todo == read.todo \ {s}
       IN  read' = [step |-> NextFile(todo), todo |-> todo, filter |-> read.filter, file |-> 0,
                    entries |-> read.entries \cup LastLines(file, read.filter),
                    seen |-> read.seen \cup {line \in ToSet(file) : Passes(line, read.filter)}]
    /\ UNCHANGED <<log, stream>>

\* The answer: all_entries after the sort and the cut.
Shown == Newest(read.entries)

-----------------------------------------------------------------------------
(* LogStream.  The task takes the tailers in turn. *)

StreamLogs(wanted, filter) ==
    /\ read = NoRead
    /\ tail.step = "none"
    /\ tail' = [NoTail EXCEPT !.step = "turn", !.wanted = wanted, !.filter = filter]
    /\ UNCHANGED <<log, read, channel, got, broke>>

Following(s) == tail.step = "turn" /\ tail.turn = s

NextTurn(state) ==
    [state EXCEPT !.step = "turn", !.turn = IF @ = "out" THEN "err" ELSE "out", !.entry = <<>>]

\* The line that the tailer's position points to, and whether there is one.
HasLine(s) == tail.file[s] # 0 /\ tail.position[s] < Len(files[s][tail.file[s]])

NextLine(s) == files[s][tail.file[s]][tail.position[s] + 1]

\* Mutant: the loop starts over when a tailer has nothing.
NothingToReadStartsOver(s) ==
    /\ Following(s)
    /\ s \notin tail.wanted \/ (IF tail.file[s] = 0 THEN path[s] = 0 ELSE ~HasLine(s))
    /\ tail' = [tail EXCEPT !.turn = "out"]
    /\ UNCHANGED <<log, read, channel, got, broke>>

\* Not asked for, not there yet, lost between exists() and open(), or at its
\* end: the turn passes.
NothingToRead(s) ==
    /\ Following(s)
    /\ s \notin tail.wanted \/ (IF tail.file[s] = 0 THEN path[s] = 0 ELSE ~HasLine(s))
    /\ tail' = NextTurn(tail)
    /\ UNCHANGED <<log, read, channel, got, broke>>

\* The file at the path is opened, and read from the position on.
TailOpens(s) ==
    /\ Following(s)
    /\ s \in tail.wanted
    /\ tail.file[s] = 0
    /\ path[s] # 0
    /\ tail' = [tail EXCEPT !.file[s] = path[s]]
    /\ UNCHANGED <<log, read, channel, got, broke>>

ReadsNext(s) ==
    /\ Following(s)
    /\ s \in tail.wanted
    /\ HasLine(s)
    /\ LET passed == [tail EXCEPT !.position[s] = @ + 1]
       IN  tail' = IF Passes(NextLine(s), tail.filter)
                   THEN [passed EXCEPT !.step = "send", !.entry = <<NextLine(s)>>]
                   ELSE NextTurn(passed)
    /\ UNCHANGED <<log, read, channel, got, broke>>

\* Mutant: the position is reset with the reader.
TailReadFailsFromStart(s) ==
    /\ Following(s)
    /\ tail.file[s] # 0
    /\ tail' = NextTurn([tail EXCEPT !.file[s] = 0, !.position[s] = 0])
    /\ broke' = TRUE
    /\ UNCHANGED <<log, read, channel, got>>

\* An error makes the tailer open the path again, at the position it was at.
TailReadFails(s) ==
    /\ Following(s)
    /\ tail.file[s] # 0
    /\ tail' = NextTurn([tail EXCEPT !.file[s] = 0])
    /\ broke' = TRUE
    /\ UNCHANGED <<log, read, channel, got>>

\* Mutant: what the channel has no room for is dropped.
SendsOrDrops ==
    /\ tail.step = "send"
    /\ channel' = IF Len(channel) < Capacity THEN channel \o tail.entry ELSE channel
    /\ tail' = NextTurn(tail)
    /\ UNCHANGED <<log, read, got, broke>>

\* The send waits for room.
Sends ==
    /\ tail.step = "send"
    /\ Len(channel) < Capacity
    /\ channel' = channel \o tail.entry
    /\ tail' = NextTurn(tail)
    /\ UNCHANGED <<log, read, got, broke>>

Receives ==
    /\ channel # <<>>
    /\ got' = Append(got, Head(channel))
    /\ channel' = Tail(channel)
    /\ UNCHANGED <<log, read, tail, broke>>

-----------------------------------------------------------------------------
LogMoves ==
    \/ \E s \in Streams : \/ Opens(s)
                          \/ Writes(s)
                          \/ Renames(s)
                          \/ Unlinks(s)
    \/ Tick

ReadStep == LooksForFile \/ OpensFile \/ ReadsFile

TailStep ==
    \/ \E s \in Streams : NothingToRead(s) \/ TailOpens(s) \/ ReadsNext(s)
    \/ Sends

Next ==
    \/ LogMoves
    \/ \E request \in Requests :
          ReadLogs(request[1], request[2]) \/ StreamLogs(request[1], request[2])
    \/ ReadStep
    \/ TailStep
    \/ \E s \in Streams : TailReadFails(s)
    \/ Receives

\* The runtime polls the task, and the client calls next() again and again.
Spec == Init /\ [][Next]_vars
FairSpec == Spec /\ WF_vars(TailStep) /\ WF_vars(Receives)

-----------------------------------------------------------------------------
(* Properties. *)

\* Every variable keeps its shape, and the channel is never overfull.
TypeOK ==
    /\ now \in 1 .. MaxTime
    /\ written \in 0 .. MaxLines
    /\ files \in [Streams -> Seq(Seq(Line))]
    /\ path \in [Streams -> 0 .. MaxFiles]
    /\ writing \in [Streams -> 0 .. MaxFiles]
    /\ \A s \in Streams : Len(files[s]) <= MaxFiles
    /\ read \in Read
    /\ tail \in TailTask
    /\ channel \in Seq(Line) /\ Len(channel) <= Capacity
    /\ got \in Seq(Line)
    /\ broke \in BOOLEAN

\* The answer of read_logs has as many lines as were asked for, if there are so
\* many, and no line that the call came across is left out for an older one,
\* although each file is cut before the other is read.
ShowsNewest ==
    read.step = "done" =>
        /\ Cardinality(Shown) = IF Cardinality(read.seen) < Lines
                                THEN Cardinality(read.seen) ELSE Lines
        /\ \A a \in read.seen \ Shown, b \in Shown : a.at <= b.at

\* What is shown of a stream is the end of its file as the call found it, without
\* a gap, however the lines of the other stream interleave with it.
ShowsEnds ==
    read.step = "done" =>
        \A a \in Shown, b \in read.seen : a.src = b.src /\ a.n < b.n => b \in Shown

\* What has been taken from the files, oldest first.
Taken == got \o channel \o tail.entry

\* A stream's lines arrive in the order they were written in, and none twice,
\* through a full channel, rotations and reads that fail and start again.
ArriveInOrder ==
    \A i, j \in DOMAIN Taken :
        i < j /\ Taken[i].src = Taken[j].src => Taken[i].n < Taken[j].n

\* Until a read fails, what has been taken of a stream is what its file begins
\* with, less what the filter hides: nothing is lost on the way to the receiver.
NothingLost ==
    ~broke =>
        \A s \in Streams :
            {Taken[i] : i \in {i \in DOMAIN Taken : Taken[i].src = s}} =
                IF tail.file[s] = 0 THEN {}
                ELSE {line \in ToSet(SubSeq(files[s][tail.file[s]], 1, tail.position[s])) :
                         Passes(line, tail.filter)}

\* The line with this number is in a file that the task has open and has not
\* reached the receiver.
OnItsWay(number) ==
    /\ ~broke
    /\ \E s \in tail.wanted :
          /\ tail.file[s] # 0
          /\ \E line \in ToSet(files[s][tail.file[s]]) :
                /\ line.n = number
                /\ Passes(line, tail.filter)
                /\ line \notin ToSet(got)

\* A tail catches up with a log that pauses (here it does after MaxLines): all
\* that was written to the files it has open has reached the receiver, whatever
\* the other stream does and also after a file was renamed or unlinked.
CatchesUp == []<>(\A number \in Numbers : ~OnItsWay(number))

=============================================================================
