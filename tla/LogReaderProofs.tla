--------------------------- MODULE LogReaderProofs ---------------------------
(***************************************************************************)
(* Proofs about LogReader, for any numbers of lines, files and requests    *)
(* and any capacity of the channel.                                        *)
(*                                                                         *)
(* What makes the properties inductive is the order of the lines on disk   *)
(* (FilesInOrder): a stream's files are in the order of their lines, and   *)
(* the writer is never at another file than the last.  A tailer is then    *)
(* behind everything it has still to read (TailBehind), also when it has   *)
(* to open the path again, and has passed what its file begins with        *)
(* (TakenBegins), and a read has of each file an end (ReadEnds).           *)
(***************************************************************************)
EXTENDS LogReader, FiniteSetTheorems, SequenceTheorems, WellFoundedInduction, TLAPS

\* The path and the writer are at the last file or at none, and each step of the
\* readers has what it needs.
Shape ==
    /\ \A s \in Streams :
          /\ path[s] \in {0, Len(files[s])}
          /\ writing[s] \in {0, Len(files[s])}
          /\ \A f \in DOMAIN files[s] : Len(files[s][f]) <= written
          /\ tail.file[s] # 0 => tail.file[s] \in DOMAIN files[s]
    /\ tail.step # "send" => tail.entry = <<>>
    /\ Len(tail.entry) <= 1
    /\ read.step \in {"exists", "open", "read"} => read.todo # {}
    /\ read.step = "read" => read.file \in DOMAIN files[First(read.todo)]

\* What the constants are, in one place.
LEMMA Bounds ==
    /\ MaxLines \in Nat /\ MaxFiles \in Nat /\ MaxTime \in Nat \ {0}
    /\ Lines \in Nat /\ Capacity \in Nat \ {0}
BY BoundsAssumption, LinesAssumption

-----------------------------------------------------------------------------
(* Typing. *)

LEMMA NextTurnIs ==
    ASSUME NEW t \in TailTask
    PROVE  /\ NextTurn(t) \in TailTask
           /\ NextTurn(t).step = "turn" /\ NextTurn(t).entry = <<>>
           /\ NextTurn(t).wanted = t.wanted /\ NextTurn(t).filter = t.filter
           /\ NextTurn(t).file = t.file /\ NextTurn(t).position = t.position
<1> DEFINE turn == IF t.turn = "out" THEN "err" ELSE "out"
           t1 == [t EXCEPT !.step = "turn"]
           t2 == [t1 EXCEPT !.turn = turn]
           t3 == [t2 EXCEPT !.entry = <<>>]
<1>0. <<>> \in Seq(Line) /\ turn \in Streams
    BY DEF Streams
<1> HIDE DEF turn
<1>1. t1 \in TailTask /\ t1.step = "turn" /\ t1.wanted = t.wanted /\ t1.filter = t.filter
      /\ t1.file = t.file /\ t1.position = t.position
    BY DEF TailTask
<1> HIDE DEF t1
<1>2. t2 \in TailTask /\ t2.step = "turn" /\ t2.wanted = t.wanted /\ t2.filter = t.filter
      /\ t2.file = t.file /\ t2.position = t.position
    BY <1>0, <1>1 DEF TailTask
<1> HIDE DEF t2
<1>3. t3 \in TailTask /\ t3.step = "turn" /\ t3.wanted = t.wanted /\ t3.filter = t.filter
      /\ t3.file = t.file /\ t3.position = t.position /\ t3.entry = <<>>
    BY <1>0, <1>2 DEF TailTask
<1> HIDE DEF t3
<1>4. NextTurn(t) = t3
    BY DEF NextTurn, t3, t2, t1, turn
<1> QED
    BY <1>3, <1>4

LEMMA NoTailTyped == NoTail \in TailTask
<1>1. <<>> \in Seq(Line) /\ "out" \in Streams
    BY DEF Streams
<1>2. [s \in Streams |-> 0] \in [Streams -> 0 .. MaxFiles] \cap [Streams -> 0 .. MaxLines]
    BY Bounds
<1> QED
    BY <1>1, <1>2 DEF NoTail, TailTask

LEMMA NewTailIs ==
    ASSUME NEW wanted \in SUBSET Streams, NEW filter \in BOOLEAN, NEW t,
           t = [NoTail EXCEPT !.step = "turn", !.wanted = wanted, !.filter = filter]
    PROVE  t \in TailTask /\ t.step = "turn" /\ t.entry = <<>> /\ t.file = NoTail.file
           /\ t.position = NoTail.position
<1> DEFINE t1 == [NoTail EXCEPT !.step = "turn"]
           t2 == [t1 EXCEPT !.wanted = wanted]
           t3 == [t2 EXCEPT !.filter = filter]
<1>1. t1 \in TailTask /\ t1.step = "turn" /\ t1.entry = <<>> /\ t1.file = NoTail.file
      /\ t1.position = NoTail.position
    BY NoTailTyped DEF TailTask, NoTail
<1> HIDE DEF t1
<1>2. t2 \in TailTask /\ t2.step = "turn" /\ t2.entry = <<>> /\ t2.file = NoTail.file
      /\ t2.position = NoTail.position
    BY <1>1 DEF TailTask
<1> HIDE DEF t2
<1>3. t3 \in TailTask /\ t3.step = "turn" /\ t3.entry = <<>> /\ t3.file = NoTail.file
      /\ t3.position = NoTail.position
    BY <1>2 DEF TailTask
<1> HIDE DEF t3
<1>4. t = t3
    BY DEF t3, t2, t1
<1> QED
    BY <1>3, <1>4

LEMMA FirstIs ==
    ASSUME NEW todo \in SUBSET Streams, todo # {}
    PROVE  First(todo) \in todo
BY DEF First, Streams

LEMMA InitTyped == Init => TypeOK /\ Shape
<1> SUFFICES ASSUME Init PROVE TypeOK /\ Shape
    OBVIOUS
<1>1. files \in [Streams -> Seq(Seq(Line))] /\ \A s \in Streams : Len(files[s]) = 0
    BY DEF Init
<1>a. channel \in Seq(Line) /\ Len(channel) = 0 /\ got \in Seq(Line)
    BY DEF Init
<1>b. path \in [Streams -> 0 .. MaxFiles] /\ writing \in [Streams -> 0 .. MaxFiles]
    BY Bounds DEF Init
<1>2. NoRead \in Read
    BY Bounds DEF NoRead, Read
<1>3. NoTail \in TailTask
    BY NoTailTyped
<1>4. TypeOK
  <2>0. now = 1 /\ written = 0 /\ broke = FALSE
    BY DEF Init
  <2>1. now \in 1 .. MaxTime /\ written \in 0 .. MaxLines
    BY <2>0, Bounds
  <2>2. read \in Read /\ tail \in TailTask
    BY <1>2, <1>3 DEF Init
  <2>3. Len(channel) <= Capacity /\ \A s \in Streams : Len(files[s]) <= MaxFiles
    BY <1>1, <1>a, Bounds
  <2> QED
    BY <1>1, <1>a, <1>b, <2>0, <2>1, <2>2, <2>3 DEF TypeOK
<1>5. Shape
    BY <1>1, Bounds DEF Init, Shape, NoTail, NoRead
<1> QED
    BY <1>4, <1>5

\* An opening adds an empty file.
LEMMA OpensFiles ==
    ASSUME TypeOK, NEW s \in Streams, Opens(s)
    PROVE  /\ files' \in [Streams -> Seq(Seq(Line))]
           /\ Len(files[s]) \in Nat /\ Len(files'[s]) = Len(files[s]) + 1
           /\ DOMAIN files'[s] = DOMAIN files[s] \cup {Len(files[s]) + 1}
           /\ \A f \in DOMAIN files[s] : files'[s][f] = files[s][f]
           /\ files'[s][Len(files[s]) + 1] = <<>>
           /\ \A t \in Streams \ {s} : files'[t] = files[t]
           /\ Len(files'[s]) <= MaxFiles
<1>1. files[s] \in Seq(Seq(Line)) /\ Len(files[s]) \in Nat /\ Len(files[s]) < MaxFiles
    BY DEF TypeOK, Opens
<1>2. <<>> \in Seq(Line)
    OBVIOUS
<1>3. Append(files[s], <<>>) \in Seq(Seq(Line))
    BY <1>1, <1>2
<1>4. files' \in [Streams -> Seq(Seq(Line))] /\ files'[s] = Append(files[s], <<>>)
      /\ \A t \in Streams \ {s} : files'[t] = files[t]
    BY <1>3 DEF TypeOK, Opens
<1>a. /\ Len(Append(files[s], <<>>)) = Len(files[s]) + 1
      /\ DOMAIN Append(files[s], <<>>) = 1 .. Len(files[s]) + 1
      /\ DOMAIN files[s] = 1 .. Len(files[s])
      /\ Append(files[s], <<>>)[Len(files[s]) + 1] = <<>>
      /\ \A f \in 1 .. Len(files[s]) : Append(files[s], <<>>)[f] = files[s][f]
    BY <1>1, <1>2
<1>5. /\ Len(files'[s]) = Len(files[s]) + 1
      /\ DOMAIN files'[s] = 1 .. Len(files[s]) + 1 /\ DOMAIN files[s] = 1 .. Len(files[s])
      /\ files'[s][Len(files[s]) + 1] = <<>>
      /\ \A f \in DOMAIN files[s] : files'[s][f] = files[s][f]
    BY <1>4, <1>a
<1>6. 1 .. Len(files[s]) + 1 = (1 .. Len(files[s])) \cup {Len(files[s]) + 1}
    BY <1>1
<1> QED
    BY <1>1, <1>4, <1>5, <1>6, Bounds

\* A write adds a line to the file the writer has, which is the last one.
LEMMA WritesFiles ==
    ASSUME TypeOK, Shape, NEW s \in Streams, Writes(s), NEW w, NEW line,
           w = writing[s], line = [n |-> written + 1, at |-> now, src |-> s]
    PROVE  /\ files' \in [Streams -> Seq(Seq(Line))]
           /\ line \in Line /\ w = Len(files[s]) /\ w \in DOMAIN files[s]
           /\ files[s][w] \in Seq(Line)
           /\ files'[s][w] = Append(files[s][w], line)
           /\ Len(files'[s]) = Len(files[s]) /\ DOMAIN files'[s] = DOMAIN files[s]
           /\ \A f \in DOMAIN files[s] \ {w} : files'[s][f] = files[s][f]
           /\ \A t \in Streams \ {s} : files'[t] = files[t]
           /\ Len(files'[s][w]) = Len(files[s][w]) + 1
<1>1. /\ files[s] \in Seq(Seq(Line)) /\ w = Len(files[s]) /\ w \in DOMAIN files[s]
      /\ files[s][w] \in Seq(Line)
    BY DEF TypeOK, Shape, Writes
<1>2. line \in Line
    BY Bounds DEF TypeOK, Writes, Line, Numbers
<1>3. /\ Append(files[s][w], line) \in Seq(Line)
      /\ Len(Append(files[s][w], line)) = Len(files[s][w]) + 1
    BY <1>1, <1>2
<1>4. files' = [files EXCEPT ![s] = [files[s] EXCEPT ![w] = Append(files[s][w], line)]]
    BY DEF Writes
<1>5. /\ [files[s] EXCEPT ![w] = Append(files[s][w], line)] \in Seq(Seq(Line))
      /\ Len([files[s] EXCEPT ![w] = Append(files[s][w], line)]) = Len(files[s])
    BY <1>1, <1>3
<1> QED
    BY <1>1, <1>2, <1>3, <1>4, <1>5 DEF TypeOK

\* The file of a read in progress.
LEMMA ReadingFile ==
    ASSUME TypeOK, Shape, read.step = "read"
    PROVE  First(read.todo) \in Streams /\ read.file \in DOMAIN files[First(read.todo)]
BY FirstIs DEF TypeOK, Shape, Read

LEMMA OpensTyped == ASSUME TypeOK, Shape, NEW s \in Streams, Opens(s) PROVE (TypeOK /\ Shape)'
<1>1. TypeOK'
  <2>1. /\ path \in [Streams -> 0 .. MaxFiles] /\ writing \in [Streams -> 0 .. MaxFiles]
        /\ \A t \in Streams : Len(files[t]) <= MaxFiles
    BY DEF TypeOK
  <2>2. path' \in [Streams -> 0 .. MaxFiles] /\ writing' \in [Streams -> 0 .. MaxFiles]
    BY <2>1, OpensFiles, Bounds DEF Opens
  <2>3. \A t \in Streams : Len(files'[t]) <= MaxFiles
    BY <2>1, OpensFiles
  <2>4. files' \in [Streams -> Seq(Seq(Line))]
    BY OpensFiles
  <2> QED
    BY <2>2, <2>3, <2>4 DEF TypeOK, Opens, stream
<1>2. \A t \in Streams : path'[t] \in {0, Len(files'[t])} /\ writing'[t] \in {0, Len(files'[t])}
    BY OpensFiles DEF TypeOK, Shape, Opens
<1>3. \A t \in Streams : \A f \in DOMAIN files'[t] : Len(files'[t][f]) <= written
  <2>1. Len(<<>>) = 0 /\ 0 <= written
    BY Bounds DEF TypeOK
  <2>2. \A t \in Streams : \A f \in DOMAIN files[t] : Len(files[t][f]) <= written
    BY DEF Shape
  <2>3. ASSUME NEW t \in Streams, NEW f \in DOMAIN files'[t]
        PROVE  Len(files'[t][f]) <= written
    <3>1. CASE t = s
      BY <2>1, <2>2, <2>3, <3>1, OpensFiles
    <3>2. CASE t # s
      BY <2>2, <2>3, <3>2, OpensFiles
    <3> QED
      BY <3>1, <3>2
  <2> QED
    BY <2>3
<1>4. \A t \in Streams : tail.file[t] # 0 => tail.file[t] \in DOMAIN files'[t]
    BY OpensFiles DEF Shape
<1>5. read.step = "read" => read.file \in DOMAIN files'[First(read.todo)]
    BY OpensFiles, ReadingFile
<1> QED
    BY <1>1, <1>2, <1>3, <1>4, <1>5 DEF Shape, Opens, stream

LEMMA WritesTyped == ASSUME TypeOK, Shape, NEW s \in Streams, Writes(s) PROVE (TypeOK /\ Shape)'
<1> DEFINE w == writing[s]
<1>1. TypeOK'
  <2>1. written' \in 0 .. MaxLines
    BY Bounds DEF TypeOK, Writes
  <2>2. /\ files' \in [Streams -> Seq(Seq(Line))]
        /\ \A t \in Streams : Len(files'[t]) = Len(files[t])
    BY WritesFiles
  <2> QED
    BY <2>1, <2>2 DEF TypeOK, Writes, stream
<1>2. /\ w \in DOMAIN files[s] /\ Len(files'[s][w]) = Len(files[s][w]) + 1
      /\ \A t \in Streams : Len(files'[t]) = Len(files[t]) /\ DOMAIN files'[t] = DOMAIN files[t]
      /\ \A t \in Streams : \A f \in DOMAIN files[t] :
            (t = s /\ f = w) \/ files'[t][f] = files[t][f]
  <2>1. /\ w \in DOMAIN files[s] /\ Len(files'[s][w]) = Len(files[s][w]) + 1
        /\ Len(files'[s]) = Len(files[s]) /\ DOMAIN files'[s] = DOMAIN files[s]
        /\ \A f \in DOMAIN files[s] \ {w} : files'[s][f] = files[s][f]
        /\ \A t \in Streams \ {s} : files'[t] = files[t]
    BY WritesFiles
  <2> HIDE DEF w
  <2> QED
    BY <2>1
<1>3. written' = written + 1 /\ written \in Nat
    BY DEF TypeOK, Writes
<1>4. \A t \in Streams : \A f \in DOMAIN files[t] :
          Len(files[t][f]) \in Nat /\ Len(files[t][f]) <= written
  <2>1. \A t \in Streams : files[t] \in Seq(Seq(Line))
    BY DEF TypeOK
  <2>2. \A t \in Streams : \A f \in DOMAIN files[t] : files[t][f] \in Seq(Line)
    BY <2>1
  <2> QED
    BY <2>2 DEF Shape
<1>5. \A t \in Streams : \A f \in DOMAIN files'[t] : Len(files'[t][f]) <= written'
    BY <1>2, <1>3, <1>4
<1>6. UNCHANGED <<path, writing, read, tail>>
    BY DEF Writes, stream
<1> QED
    BY <1>1, <1>2, <1>5, <1>6, ReadingFile DEF Shape

LEMMA PathTyped ==
    ASSUME TypeOK, Shape, NEW s \in Streams, Renames(s) \/ Unlinks(s) PROVE (TypeOK /\ Shape)'
<1>1. /\ path' \in [Streams -> 0 .. MaxFiles] /\ writing' \in [Streams -> 0 .. MaxFiles]
      /\ \A t \in Streams : path'[t] \in {0, path[t]} /\ writing'[t] \in {0, writing[t]}
  <2>1. path \in [Streams -> 0 .. MaxFiles] /\ writing \in [Streams -> 0 .. MaxFiles]
    BY DEF TypeOK
  <2>2. CASE Renames(s)
    BY <2>1, <2>2, Bounds DEF Renames
  <2>3. CASE Unlinks(s)
    BY <2>1, <2>3, Bounds DEF Unlinks
  <2> QED
    BY <2>2, <2>3
<1>2. UNCHANGED <<now, written, files, read, stream>>
    BY DEF Renames, Unlinks
<1> QED
    BY <1>1, <1>2 DEF TypeOK, Shape, stream

LEMMA TickTyped == ASSUME TypeOK, Shape, Tick PROVE (TypeOK /\ Shape)'
<1>1. now' \in 1 .. MaxTime
    BY Bounds DEF TypeOK, Tick
<1> QED
    BY <1>1 DEF TypeOK, Shape, Tick, stream

\* What LastLines keeps are lines of the file that pass.
LEMMA LastLinesPass ==
    ASSUME NEW file, NEW filter
    PROVE  LastLines(file, filter) \subseteq {line \in ToSet(file) : Passes(line, filter)}
BY DEF LastLines

LEMMA LinesOfFile ==
    ASSUME NEW file \in Seq(Line)
    PROVE  ToSet(file) \subseteq Line
BY DEF ToSet

LEMMA ReadLogsTyped ==
    ASSUME TypeOK, Shape, NEW wanted \in SUBSET Streams, NEW filter \in BOOLEAN,
           ReadLogs(wanted, filter)
    PROVE  (TypeOK /\ Shape)'
<1>1. read' = [step |-> NextFile(wanted), todo |-> wanted, filter |-> filter,
               file |-> 0, entries |-> {}, seen |-> {}]
    BY DEF ReadLogs
<1>2. read' \in Read
    BY <1>1, Bounds DEF Read, NextFile
<1>3. read'.step # "read" /\ (read'.step \in {"exists", "open", "read"} => read'.todo # {})
    BY <1>1 DEF NextFile
<1> QED
    BY <1>2, <1>3 DEF TypeOK, Shape, ReadLogs, log, stream

\* A step of a read keeps everything else.
LEMMA ReadTyped ==
    ASSUME TypeOK, Shape, UNCHANGED <<log, stream>>, read' \in Read,
           read'.step \in {"exists", "open", "read"} => read'.todo # {},
           read'.step = "read" => read'.file \in DOMAIN files[First(read'.todo)]
    PROVE  (TypeOK /\ Shape)'
BY DEF TypeOK, Shape, log, stream

LEMMA LooksForFileTyped == ASSUME TypeOK, Shape, LooksForFile PROVE (TypeOK /\ Shape)'
<1> DEFINE s == First(read.todo)
           r1 == [read EXCEPT !.step = NextFile(read.todo \ {s})]
           r2 == [r1 EXCEPT !.todo = @ \ {s}]
           r3 == [read EXCEPT !.step = "open"]
<1>1. read \in Read /\ read.step = "exists" /\ read.todo # {}
    BY DEF TypeOK, Shape, LooksForFile
<1>2. r3 \in Read /\ r3.step = "open" /\ r3.todo # {}
    BY <1>1 DEF Read
<1>3. r1 \in Read /\ r1.todo = read.todo /\ r1.step = NextFile(read.todo \ {s})
    BY <1>1 DEF Read, NextFile
<1>4. read' = r2 \/ read' = r3
    BY DEF LooksForFile
<1> HIDE DEF s, r1, r3
<1>5. r2 \in Read /\ r2.todo = read.todo \ {s} /\ r2.step = NextFile(read.todo \ {s})
    BY <1>3 DEF Read
<1> HIDE DEF r2
<1>6. /\ read' \in Read /\ read'.step # "read"
      /\ read'.step \in {"exists", "open", "read"} => read'.todo # {}
    BY <1>2, <1>4, <1>5 DEF NextFile
<1>7. UNCHANGED <<log, stream>>
    BY DEF LooksForFile
<1> QED
    BY <1>6, <1>7, ReadTyped

LEMMA OpensFileTyped == ASSUME TypeOK, Shape, OpensFile PROVE (TypeOK /\ Shape)'
<1> DEFINE s == First(read.todo)
           r1 == [read EXCEPT !.step = "read"]
           r2 == [r1 EXCEPT !.file = path[s]]
           r3 == [read EXCEPT !.step = "failed"]
<1>1. read \in Read /\ read.step = "open" /\ read.todo # {}
    BY DEF TypeOK, Shape, OpensFile
<1>2. s \in Streams
    BY <1>1, FirstIs DEF Read
<1>3. /\ path[s] \in 0 .. MaxFiles /\ path[s] \in {0, Len(files[s])}
      /\ files[s] \in Seq(Seq(Line))
    BY <1>2 DEF TypeOK, Shape
<1>4. path[s] # 0 => path[s] \in DOMAIN files[s]
    BY <1>3
<1>5. r3 \in Read /\ r3.step = "failed"
    BY <1>1 DEF Read
<1>6. r1 \in Read /\ r1.todo = read.todo /\ r1.step = "read"
    BY <1>1 DEF Read
<1>7. \/ path[s] = 0 /\ read' = r3
      \/ path[s] # 0 /\ read' = r2
    BY DEF OpensFile
<1>8. s = First(read.todo)
    OBVIOUS
<1> HIDE DEF s, r1, r3
<1>9. r2 \in Read /\ r2.todo = read.todo /\ r2.step = "read" /\ r2.file = path[s]
    BY <1>3, <1>6 DEF Read
<1> HIDE DEF r2
<1>10. /\ read' \in Read
       /\ read'.step \in {"exists", "open", "read"} => read'.todo # {}
       /\ read'.step = "read" => read'.file \in DOMAIN files[First(read'.todo)]
    BY <1>1, <1>4, <1>5, <1>7, <1>8, <1>9
<1>11. UNCHANGED <<log, stream>>
    BY DEF OpensFile
<1> QED
    BY <1>10, <1>11, ReadTyped

LEMMA ReadsFileTyped == ASSUME TypeOK, Shape, ReadsFile PROVE (TypeOK /\ Shape)'
<1> DEFINE s == First(read.todo)
           file == files[s][read.file]
           todo == read.todo \ {s}
           passed == {line \in ToSet(file) : Passes(line, read.filter)}
           last == LastLines(file, read.filter)
<1>1. read \in Read /\ read.step = "read" /\ read.todo # {}
    BY DEF TypeOK, Shape, ReadsFile
<1>2. s \in Streams
    BY <1>1, FirstIs DEF Read
<1>3. read.file \in DOMAIN files[s] /\ files[s] \in Seq(Seq(Line))
    BY <1>1, <1>2 DEF TypeOK, Shape
<1>4. file \in Seq(Line)
    BY <1>3
<1>5. passed \subseteq Line /\ last \subseteq Line
    BY <1>4, LinesOfFile, LastLinesPass
<1>6. read' = [step |-> NextFile(todo), todo |-> todo, filter |-> read.filter, file |-> 0,
               entries |-> read.entries \cup last, seen |-> read.seen \cup passed]
    BY DEF ReadsFile
<1> HIDE DEF passed, last, todo
<1>7. todo \subseteq Streams
    BY <1>1 DEF todo, Read
<1>8. /\ read' \in Read
      /\ read'.step # "read"
      /\ read'.step \in {"exists", "open", "read"} => read'.todo # {}
    BY <1>1, <1>5, <1>6, <1>7, Bounds DEF Read, NextFile
<1>9. UNCHANGED <<log, stream>>
    BY DEF ReadsFile
<1> QED
    BY <1>8, <1>9, ReadTyped

\* A step of the task keeps the log, the read and what next() returned.
LEMMA TailTyped ==
    ASSUME TypeOK, Shape, UNCHANGED <<log, read, got>>, tail' \in TailTask, broke' \in BOOLEAN,
           channel' \in Seq(Line), Len(channel') <= Capacity,
           tail'.step # "send" => tail'.entry = <<>>, Len(tail'.entry) <= 1,
           \A s \in Streams : tail'.file[s] # 0 => tail'.file[s] \in DOMAIN files[s]
    PROVE  (TypeOK /\ Shape)'
BY DEF TypeOK, Shape, log

LEMMA StreamLogsTyped ==
    ASSUME TypeOK, Shape, NEW wanted \in SUBSET Streams, NEW filter \in BOOLEAN,
           StreamLogs(wanted, filter)
    PROVE  (TypeOK /\ Shape)'
<1>1. tail' = [NoTail EXCEPT !.step = "turn", !.wanted = wanted, !.filter = filter]
    BY DEF StreamLogs
<1>2. /\ tail' \in TailTask /\ tail'.entry = <<>> /\ tail'.file = [s \in Streams |-> 0]
    BY <1>1, NewTailIs DEF NoTail
<1>3. UNCHANGED <<log, read, got, broke, channel>>
    BY DEF StreamLogs
<1>4. broke \in BOOLEAN /\ channel \in Seq(Line) /\ Len(channel) <= Capacity
    BY DEF TypeOK
<1>5. Len(<<>>) <= 1
    OBVIOUS
<1> QED
    BY <1>2, <1>3, <1>4, <1>5, TailTyped

\* After a turn the task has nothing to send, and the rest is as it was.
LEMMA TurnTyped ==
    ASSUME TypeOK, Shape, UNCHANGED <<log, read, got>>, broke' \in BOOLEAN,
           channel' \in Seq(Line), Len(channel') <= Capacity,
           NEW t \in TailTask, tail' = NextTurn(t),
           \A s \in Streams : t.file[s] # 0 => t.file[s] \in DOMAIN files[s]
    PROVE  (TypeOK /\ Shape)'
<1>1. Len(<<>>) <= 1
    OBVIOUS
<1> QED
    BY <1>1, NextTurnIs, TailTyped

LEMMA NothingToReadTyped ==
    ASSUME TypeOK, Shape, NEW s \in Streams, NothingToRead(s)
    PROVE  (TypeOK /\ Shape)'
<1>1. UNCHANGED <<log, read, got, broke, channel>> /\ tail' = NextTurn(tail)
    BY DEF NothingToRead
<1>2. broke \in BOOLEAN /\ channel \in Seq(Line) /\ Len(channel) <= Capacity
      /\ tail \in TailTask
    BY DEF TypeOK
<1>3. \A u \in Streams : tail.file[u] # 0 => tail.file[u] \in DOMAIN files[u]
    BY DEF Shape
<1> QED
    BY <1>1, <1>2, <1>3, TurnTyped

LEMMA SendsTyped == ASSUME TypeOK, Shape, Sends PROVE (TypeOK /\ Shape)'
<1>1. UNCHANGED <<log, read, got, broke>> /\ tail' = NextTurn(tail)
      /\ channel' = channel \o tail.entry /\ Len(channel) < Capacity
    BY DEF Sends
<1>2. broke \in BOOLEAN /\ channel \in Seq(Line) /\ tail \in TailTask
    BY DEF TypeOK
<1>3. tail.entry \in Seq(Line) /\ Len(tail.entry) <= 1
    BY <1>2 DEF TailTask, Shape
<1>4. channel' \in Seq(Line) /\ Len(channel') <= Capacity
    BY <1>1, <1>2, <1>3, Bounds
<1>5. \A u \in Streams : tail.file[u] # 0 => tail.file[u] \in DOMAIN files[u]
    BY DEF Shape
<1> QED
    BY <1>1, <1>2, <1>4, <1>5, TurnTyped

LEMMA TailOpensTyped ==
    ASSUME TypeOK, Shape, NEW s \in Streams, TailOpens(s)
    PROVE  (TypeOK /\ Shape)'
<1>1. /\ UNCHANGED <<log, read, got, broke, channel>>
      /\ tail' = [tail EXCEPT !.file[s] = path[s]]
    BY DEF TailOpens
<1>2. broke \in BOOLEAN /\ channel \in Seq(Line) /\ Len(channel) <= Capacity
      /\ tail \in TailTask /\ path[s] \in 0 .. MaxFiles /\ files[s] \in Seq(Seq(Line))
    BY DEF TypeOK
<1>3. path[s] \in DOMAIN files[s]
    BY <1>2 DEF TailOpens, Shape
<1>5. /\ tail' \in TailTask /\ tail'.file = [tail.file EXCEPT ![s] = path[s]]
      /\ tail'.step = tail.step /\ tail'.entry = tail.entry
    BY <1>1, <1>2 DEF TailTask
<1>6. /\ tail'.step # "send" => tail'.entry = <<>>
      /\ Len(tail'.entry) <= 1
    BY <1>5 DEF Shape
<1>7. \A u \in Streams : tail'.file[u] # 0 => tail'.file[u] \in DOMAIN files[u]
    BY <1>2, <1>3, <1>5 DEF Shape, TailTask
<1> QED
    BY <1>1, <1>2, <1>5, <1>6, <1>7, TailTyped

\* The next line of a tailer.
LEMMA NextLineIs ==
    ASSUME TypeOK, Shape, NEW s \in Streams, HasLine(s)
    PROVE  /\ tail.position[s] + 1 \in 0 .. MaxLines
           /\ tail.file[s] \in DOMAIN files[s]
           /\ tail.position[s] + 1 \in DOMAIN files[s][tail.file[s]]
           /\ NextLine(s) \in Line
<1>1. /\ tail.file[s] \in DOMAIN files[s]
      /\ tail.position[s] < Len(files[s][tail.file[s]])
      /\ Len(files[s][tail.file[s]]) <= written
    BY DEF HasLine, Shape
<1>2. /\ written \in 0 .. MaxLines /\ tail.position[s] \in 0 .. MaxLines
      /\ files[s] \in Seq(Seq(Line))
    BY DEF TypeOK, TailTask
<1>3. files[s][tail.file[s]] \in Seq(Line)
    BY <1>1, <1>2
<1>4. /\ Len(files[s][tail.file[s]]) \in Nat
      /\ DOMAIN files[s][tail.file[s]] = 1 .. Len(files[s][tail.file[s]])
    BY <1>3
<1>5. /\ tail.position[s] + 1 \in 1 .. Len(files[s][tail.file[s]])
      /\ tail.position[s] + 1 \in 0 .. MaxLines
  <2> DEFINE k == Len(files[s][tail.file[s]])
             position == tail.position[s]
  <2>1. position \in Nat /\ k \in Nat /\ position < k /\ k <= written
        /\ written \in Nat /\ written <= MaxLines /\ MaxLines \in Nat
    BY <1>1, <1>2, <1>4, Bounds
  <2> HIDE DEF k, position
  <2>2. position + 1 \in 1 .. k /\ position + 1 \in 0 .. MaxLines
    BY <2>1
  <2> QED
    BY <2>2 DEF k, position
<1> QED
    BY <1>1, <1>3, <1>4, <1>5 DEF NextLine

LEMMA ReadsNextTyped ==
    ASSUME TypeOK, Shape, NEW s \in Streams, ReadsNext(s)
    PROVE  (TypeOK /\ Shape)'
<1> DEFINE next == tail.position[s] + 1
           passed == [tail EXCEPT !.position[s] = next]
           p1 == [passed EXCEPT !.step = "send"]
           p2 == [p1 EXCEPT !.entry = <<NextLine(s)>>]
<1>1. UNCHANGED <<log, read, got, broke, channel>>
    BY DEF ReadsNext
<1>2. broke \in BOOLEAN /\ channel \in Seq(Line) /\ Len(channel) <= Capacity
      /\ tail \in TailTask
    BY DEF TypeOK
<1>3. next \in 0 .. MaxLines /\ NextLine(s) \in Line
    BY NextLineIs DEF ReadsNext
<1>6. tail' = p2 \/ tail' = NextTurn(passed)
    BY DEF ReadsNext
<1> HIDE DEF next
<1>4. /\ passed \in TailTask /\ passed.file = tail.file
    BY <1>2, <1>3 DEF TailTask
<1>5. \A u \in Streams : passed.file[u] # 0 => passed.file[u] \in DOMAIN files[u]
    BY <1>4 DEF Shape
<1>7. CASE tail' = NextTurn(passed)
    BY <1>1, <1>2, <1>4, <1>5, <1>7, TurnTyped
<1>8. CASE tail' = p2
  <2> HIDE DEF passed
  <2>1. p1 \in TailTask /\ p1.file = passed.file /\ p1.step = "send"
    BY <1>4 DEF TailTask
  <2> HIDE DEF p1
  <2>2. <<NextLine(s)>> \in Seq(Line) /\ Len(<<NextLine(s)>>) = 1
    BY <1>3
  <2>3. p2 \in TailTask /\ p2.file = passed.file /\ p2.step = "send"
        /\ p2.entry = <<NextLine(s)>>
    BY <2>1, <2>2 DEF TailTask
  <2> HIDE DEF p2
  <2> QED
    BY <1>1, <1>2, <1>5, <1>8, <2>2, <2>3, TailTyped
<1> QED
    BY <1>6, <1>7, <1>8

LEMMA TailReadFailsTyped ==
    ASSUME TypeOK, Shape, NEW s \in Streams, TailReadFails(s)
    PROVE  (TypeOK /\ Shape)'
<1> DEFINE t == [tail EXCEPT !.file[s] = 0]
<1>1. UNCHANGED <<log, read, got, channel>> /\ broke' = TRUE /\ tail' = NextTurn(t)
    BY DEF TailReadFails
<1>2. channel \in Seq(Line) /\ Len(channel) <= Capacity /\ tail \in TailTask
    BY DEF TypeOK
<1>3. 0 \in 0 .. MaxFiles
    BY Bounds
<1>4. t \in TailTask /\ t.file = [tail.file EXCEPT ![s] = 0]
    BY <1>2, <1>3 DEF TailTask
<1>5. \A u \in Streams : t.file[u] # 0 => t.file[u] \in DOMAIN files[u]
    BY <1>2, <1>4 DEF Shape, TailTask
<1> HIDE DEF t
<1> QED
    BY <1>1, <1>2, <1>4, <1>5, TurnTyped

LEMMA ReceivesTyped == ASSUME TypeOK, Shape, Receives PROVE (TypeOK /\ Shape)'
<1>1. channel \in Seq(Line) /\ Len(channel) <= Capacity /\ channel # <<>> /\ got \in Seq(Line)
    BY DEF TypeOK, Receives
<1>2. /\ Append(got, Head(channel)) \in Seq(Line) /\ Tail(channel) \in Seq(Line)
      /\ Len(Tail(channel)) <= Capacity
    BY <1>1, Bounds
<1> QED
    BY <1>2 DEF TypeOK, Shape, Receives, log

\* All steps, as a flat list.
LEMMA NextCases ==
    ASSUME Next
    PROVE  \/ \E s \in Streams : \/ Opens(s) \/ Writes(s) \/ Renames(s) \/ Unlinks(s)
                                 \/ NothingToRead(s) \/ TailOpens(s)
                                 \/ ReadsNext(s) \/ TailReadFails(s)
           \/ \E wanted \in SUBSET Streams, filter \in BOOLEAN :
                 ReadLogs(wanted, filter) \/ StreamLogs(wanted, filter)
           \/ Tick \/ LooksForFile \/ OpensFile \/ ReadsFile \/ Sends \/ Receives
<1>1. CASE \E request \in Requests :
              ReadLogs(request[1], request[2]) \/ StreamLogs(request[1], request[2])
  <2>1. PICK request \in Requests :
              ReadLogs(request[1], request[2]) \/ StreamLogs(request[1], request[2])
    BY <1>1
  <2>2. request[1] \in SUBSET Streams /\ request[2] \in BOOLEAN
    BY RequestsAssumption DEF Streams
  <2> QED
    BY <2>1, <2>2
<1>2. CASE LogMoves \/ ReadStep \/ TailStep \/ (\E s \in Streams : TailReadFails(s)) \/ Receives
    BY <1>2 DEF LogMoves, ReadStep, TailStep
<1> QED
    BY <1>1, <1>2 DEF Next

LEMMA NextTyped == TypeOK /\ Shape /\ [Next]_vars => (TypeOK /\ Shape)'
<1> SUFFICES ASSUME TypeOK, Shape, [Next]_vars PROVE (TypeOK /\ Shape)'
    OBVIOUS
<1>1. CASE UNCHANGED vars
    BY <1>1 DEF TypeOK, Shape, vars, log, stream
<1>2. CASE Next
  <2>1. ASSUME NEW s \in Streams, Opens(s) \/ Writes(s) \/ Renames(s) \/ Unlinks(s)
        PROVE  (TypeOK /\ Shape)'
    BY <2>1, OpensTyped, WritesTyped, PathTyped
  <2>2. ASSUME NEW wanted \in SUBSET Streams, NEW filter \in BOOLEAN,
               ReadLogs(wanted, filter) \/ StreamLogs(wanted, filter)
        PROVE  (TypeOK /\ Shape)'
    BY <2>2, ReadLogsTyped, StreamLogsTyped
  <2>3. ASSUME LooksForFile \/ OpensFile \/ ReadsFile
        PROVE  (TypeOK /\ Shape)'
    BY <2>3, LooksForFileTyped, OpensFileTyped, ReadsFileTyped
  <2>4. ASSUME NEW s \in Streams,
               NothingToRead(s) \/ TailOpens(s) \/ ReadsNext(s) \/ TailReadFails(s)
        PROVE  (TypeOK /\ Shape)'
    BY <2>4, NothingToReadTyped, TailOpensTyped, ReadsNextTyped, TailReadFailsTyped
  <2>5. Sends \/ Receives => (TypeOK /\ Shape)'
    BY SendsTyped, ReceivesTyped
  <2> QED
    BY <1>2, <2>1, <2>2, <2>3, <2>4, <2>5, TickTyped, NextCases
<1> QED
    BY <1>1, <1>2

-----------------------------------------------------------------------------
(* The lines on disk. *)

\* The lines of a stream, by the file they are in and their place in it.
Places(s) == {p \in Nat \X Nat : p[1] \in DOMAIN files[s] /\ p[2] \in DOMAIN files[s][p[1]]}

LineAt(s, p) == files[s][p[1]][p[2]]

Ahead(p, q) == p[1] < q[1] \/ (p[1] = q[1] /\ p[2] < q[2])

\* A stream's lines are its own, from the past, and in the order of their places.
FilesInOrder ==
    \A s \in Streams :
        /\ \A p \in Places(s) : /\ LineAt(s, p).src = s
                                /\ LineAt(s, p).n <= written
                                /\ LineAt(s, p).at <= now
        /\ \A p, q \in Places(s) : Ahead(p, q) => /\ LineAt(s, p).n < LineAt(s, q).n
                                                  /\ LineAt(s, p).at <= LineAt(s, q).at

\* Lines stay where they are; a new one comes after all others of its stream.
LogGrows ==
    /\ written <= written' /\ now <= now'
    /\ \A s \in Streams : \A p \in Places(s) : p \in Places(s)' /\ LineAt(s, p)' = LineAt(s, p)
    /\ \A s \in Streams : \A p \in Places(s)' \ Places(s) :
          /\ \A q \in Places(s)' \ Places(s) : p = q
          /\ \A q \in Places(s) : Ahead(q, p) /\ ~Ahead(p, q)
          /\ LineAt(s, p)' = [n |-> written + 1, at |-> now, src |-> s]
          /\ written' = written + 1

LEMMA PlaceIs ==
    ASSUME TypeOK, NEW s \in Streams, NEW p \in Places(s)
    PROVE  /\ p[1] \in Nat /\ p[2] \in Nat /\ p = <<p[1], p[2]>>
           /\ p[1] \in DOMAIN files[s] /\ p[2] \in DOMAIN files[s][p[1]]
           /\ p[1] <= Len(files[s]) /\ p[2] <= Len(files[s][p[1]])
           /\ LineAt(s, p) \in Line
           /\ LineAt(s, p).n \in Nat /\ LineAt(s, p).at \in Nat
<1>1. p[1] \in Nat /\ p[2] \in Nat /\ p = <<p[1], p[2]>>
    BY DEF Places
<1>2. p[1] \in DOMAIN files[s] /\ p[2] \in DOMAIN files[s][p[1]]
    BY DEF Places
<1>3. files[s] \in Seq(Seq(Line))
    BY DEF TypeOK
<1>4. files[s][p[1]] \in Seq(Line) /\ p[1] <= Len(files[s])
    BY <1>2, <1>3
<1>5. LineAt(s, p) \in Line /\ p[2] <= Len(files[s][p[1]])
    BY <1>2, <1>4 DEF LineAt
<1>6. LineAt(s, p).n \in Nat /\ LineAt(s, p).at \in Nat
    BY <1>5, Bounds DEF Line, Numbers
<1> QED
    BY <1>1, <1>2, <1>4, <1>5, <1>6

LEMMA OpensGrows == ASSUME TypeOK, Shape, NEW s \in Streams, Opens(s) PROVE LogGrows
<1>1. DOMAIN <<>> = {}
    OBVIOUS
<1>2. \A t \in Streams : Places(t)' = Places(t)
  <2> TAKE t \in Streams
  <2>1. CASE t = s
    <3>1. Len(files[s]) + 1 \notin DOMAIN files[s]
      BY DEF TypeOK
    <3> QED
      BY <1>1, <2>1, <3>1, OpensFiles DEF Places
  <2>2. CASE t # s
    BY <2>2, OpensFiles DEF Places
  <2> QED
    BY <2>1, <2>2
<1>3. \A t \in Streams : \A p \in Places(t) : LineAt(t, p)' = LineAt(t, p)
    BY OpensFiles DEF Places, LineAt
<1>4. written <= written' /\ now <= now'
    BY Bounds DEF Opens, TypeOK
<1> QED
    BY <1>2, <1>3, <1>4 DEF LogGrows

LEMMA WritesGrows == ASSUME TypeOK, Shape, NEW s \in Streams, Writes(s) PROVE LogGrows
<1>0. PICK w, line, k, new : /\ w = writing[s]
                             /\ line = [n |-> written + 1, at |-> now, src |-> s]
                             /\ k = Len(files[s][w])
                             /\ new = <<w, k + 1>>
    OBVIOUS
<1>1. /\ w = Len(files[s]) /\ w \in DOMAIN files[s] /\ files[s][w] \in Seq(Line)
      /\ files'[s][w] = Append(files[s][w], line) /\ DOMAIN files'[s] = DOMAIN files[s]
      /\ \A f \in DOMAIN files[s] \ {w} : files'[s][f] = files[s][f]
      /\ \A t \in Streams \ {s} : files'[t] = files[t]
    BY <1>0, WritesFiles
<1>2. /\ k \in Nat /\ DOMAIN files[s][w] = 1 .. k /\ DOMAIN files'[s][w] = 1 .. k + 1
      /\ files'[s][w][k + 1] = line /\ \A m \in 1 .. k : files'[s][w][m] = files[s][w][m]
    BY <1>0, <1>1
<1>3. written' = written + 1 /\ written <= written' /\ now <= now'
    BY Bounds DEF Writes, TypeOK
<1>b. w \in Nat
    BY <1>0, Bounds DEF TypeOK
<1>4. \A t \in Streams \ {s} : Places(t)' = Places(t) /\ \A p : LineAt(t, p)' = LineAt(t, p)
    BY <1>1 DEF Places, LineAt
<1>5. new \in Places(s)' \ Places(s) /\ LineAt(s, new)' = line
  <2>1. new \in Nat \X Nat /\ new[1] = w /\ new[2] = k + 1 /\ k + 1 \in 1 .. k + 1
        /\ k + 1 \notin 1 .. k
    BY <1>0, <1>2, <1>b
  <2>a. new[1] \in DOMAIN files'[s] /\ new[2] \in DOMAIN files'[s][new[1]]
        /\ files'[s][new[1]][new[2]] = line
    BY <1>1, <1>2, <2>1
  <2>2. new \in Places(s)' /\ LineAt(s, new)' = line
    BY <2>1, <2>a DEF Places, LineAt
  <2>3. new \notin Places(s)
    BY <1>2, <2>1 DEF Places
  <2> QED
    BY <2>2, <2>3
<1>6. ASSUME NEW p \in Places(s)
      PROVE  p \in Places(s)' /\ LineAt(s, p)' = LineAt(s, p) /\ Ahead(p, new) /\ ~Ahead(new, p)
  <2>1. /\ p \in Nat \X Nat /\ p[1] \in Nat /\ p[2] \in Nat
        /\ p[1] \in DOMAIN files[s] /\ p[2] \in DOMAIN files[s][p[1]]
        /\ p[1] <= Len(files[s])
    BY PlaceIs DEF Places
  <2>2. new[1] = w /\ new[2] = k + 1
    BY <1>0
  <2>3. CASE p[1] = w
    BY <1>1, <1>2, <1>b, <2>1, <2>2, <2>3 DEF Places, LineAt, Ahead
  <2>4. CASE p[1] # w
    BY <1>1, <1>2, <1>b, <2>1, <2>2, <2>4 DEF Places, LineAt, Ahead
  <2> QED
    BY <2>3, <2>4
<1>7. ASSUME NEW p \in Places(s)' \ Places(s)
      PROVE  p = new
  <2>1. /\ p \in Nat \X Nat /\ p[1] \in DOMAIN files'[s] /\ p[2] \in DOMAIN files'[s][p[1]]
        /\ ~(p[1] \in DOMAIN files[s] /\ p[2] \in DOMAIN files[s][p[1]])
    BY DEF Places
  <2>2. p[1] = w
    BY <1>1, <2>1
  <2>3. p[2] \in 1 .. k + 1 /\ p[2] \notin 1 .. k
    BY <1>1, <1>2, <2>1, <2>2
  <2>4. p[2] = k + 1
    BY <1>2, <2>3
  <2> QED
    BY <1>0, <2>1, <2>2, <2>4
<1>8. \A t \in Streams : \A p \in Places(t) : p \in Places(t)' /\ LineAt(t, p)' = LineAt(t, p)
    BY <1>4, <1>6
<1>9. \A t \in Streams : \A p \in Places(t)' \ Places(t) : t = s /\ p = new
    BY <1>4, <1>7
<1>c. ASSUME NEW t \in Streams, NEW p \in Places(t)' \ Places(t)
      PROVE  /\ \A q \in Places(t)' \ Places(t) : p = q
             /\ \A q \in Places(t) : Ahead(q, p) /\ ~Ahead(p, q)
             /\ LineAt(t, p)' = [n |-> written + 1, at |-> now, src |-> t]
  <2>1. t = s /\ p = new
    BY <1>9
  <2>2. LineAt(t, p)' = line
    BY <1>5, <2>1
  <2>3. \A q \in Places(t) : Ahead(q, p) /\ ~Ahead(p, q)
    BY <1>6, <2>1
  <2>4. \A q \in Places(t)' \ Places(t) : p = q
    BY <1>9, <2>1
  <2> QED
    BY <1>0, <2>1, <2>2, <2>3, <2>4
<1> QED
    BY <1>3, <1>8, <1>c DEF LogGrows

LEMMA FilesStayGrows ==
    ASSUME TypeOK, files' = files, written' = written, now <= now'
    PROVE  LogGrows
<1>1. \A s \in Streams : Places(s)' = Places(s) /\ \A p : LineAt(s, p)' = LineAt(s, p)
    BY DEF Places, LineAt
<1>2. written <= written'
    BY Bounds DEF TypeOK
<1> QED
    BY <1>1, <1>2 DEF LogGrows

LEMMA NextGrows == TypeOK /\ Shape /\ [Next]_vars => LogGrows
<1> SUFFICES ASSUME TypeOK, Shape, [Next]_vars PROVE LogGrows
    OBVIOUS
<1>1. now \in Nat
    BY Bounds DEF TypeOK
<1>2. \/ \E s \in Streams : Opens(s) \/ Writes(s)
      \/ files' = files /\ written' = written /\ (now' = now \/ now' = now + 1)
  <2>1. CASE UNCHANGED vars
    BY <2>1 DEF vars, log
  <2>2. CASE Next
    <3>1. ASSUME NEW s \in Streams,
                 \/ Renames(s) \/ Unlinks(s) \/ NothingToRead(s)
                 \/ TailOpens(s) \/ ReadsNext(s) \/ TailReadFails(s)
          PROVE  files' = files /\ written' = written /\ now' = now
      BY <3>1 DEF Renames, Unlinks, NothingToRead, TailOpens, ReadsNext, TailReadFails, log
    <3>2. ASSUME NEW wanted \in SUBSET Streams, NEW filter \in BOOLEAN,
                 ReadLogs(wanted, filter) \/ StreamLogs(wanted, filter)
          PROVE  files' = files /\ written' = written /\ now' = now
      BY <3>2 DEF ReadLogs, StreamLogs, log
    <3>3. LooksForFile \/ OpensFile \/ ReadsFile \/ Sends \/ Receives
              => files' = files /\ written' = written /\ now' = now
      BY DEF LooksForFile, OpensFile, ReadsFile, Sends, Receives, log
    <3>4. Tick => files' = files /\ written' = written /\ now' = now + 1
      BY DEF Tick
    <3> QED
      BY <2>2, <3>1, <3>2, <3>3, <3>4, NextCases
  <2> QED
    BY <2>1, <2>2
<1>3. CASE \E s \in Streams : Opens(s) \/ Writes(s)
    BY <1>3, OpensGrows, WritesGrows
<1>4. CASE files' = files /\ written' = written /\ (now' = now \/ now' = now + 1)
    BY <1>1, <1>4, FilesStayGrows
<1> QED
    BY <1>2, <1>3, <1>4

LEMMA NextInOrder ==
    ASSUME TypeOK, TypeOK', LogGrows, FilesInOrder
    PROVE  FilesInOrder'
<1>1. /\ written \in Nat /\ written' \in Nat /\ now \in Nat /\ now' \in Nat
      /\ written <= written' /\ now <= now'
    BY Bounds DEF TypeOK, LogGrows
<1>2. ASSUME NEW s \in Streams, NEW p \in Places(s)'
      PROVE  /\ LineAt(s, p)'.src = s
             /\ LineAt(s, p)'.n <= written'
             /\ LineAt(s, p)'.at <= now'
  <2>1. CASE p \in Places(s)
    <3>1. /\ LineAt(s, p)' = LineAt(s, p) /\ LineAt(s, p).src = s
          /\ LineAt(s, p).n <= written /\ LineAt(s, p).at <= now
      BY <2>1 DEF FilesInOrder, LogGrows
    <3>2. LineAt(s, p).n \in Nat /\ LineAt(s, p).at \in Nat
      BY <2>1, PlaceIs
    <3> QED
      BY <1>1, <3>1, <3>2
  <2>2. CASE p \notin Places(s)
    <3>1. /\ LineAt(s, p)' = [n |-> written + 1, at |-> now, src |-> s]
          /\ written' = written + 1
      BY <2>2 DEF LogGrows
    <3> QED
      BY <1>1, <3>1
  <2> QED
    BY <2>1, <2>2
<1>3. ASSUME NEW s \in Streams, NEW p \in Places(s)', NEW q \in Places(s)', Ahead(p, q)
      PROVE  /\ LineAt(s, p)'.n < LineAt(s, q)'.n
             /\ LineAt(s, p)'.at <= LineAt(s, q)'.at
  <2>1. CASE p \in Places(s) /\ q \in Places(s)
    BY <1>3, <2>1 DEF FilesInOrder, LogGrows
  <2>2. CASE p \in Places(s) /\ q \notin Places(s)
    <3>1. /\ LineAt(s, p)' = LineAt(s, p)
          /\ LineAt(s, p).n <= written /\ LineAt(s, p).at <= now
          /\ LineAt(s, q)' = [n |-> written + 1, at |-> now, src |-> s]
      BY <2>2 DEF FilesInOrder, LogGrows
    <3>2. LineAt(s, p).n \in Nat /\ LineAt(s, p).at \in Nat
      BY <2>2, PlaceIs
    <3> QED
      BY <1>1, <3>1, <3>2
  <2>3. CASE p \notin Places(s) /\ q \in Places(s)
    BY <1>3, <2>3 DEF LogGrows
  <2>4. CASE p \notin Places(s) /\ q \notin Places(s)
    <3>1. p = q
      BY <2>4 DEF LogGrows
    <3>2. p[1] \in Nat /\ p[2] \in Nat
      BY DEF Places
    <3> QED
      BY <1>3, <3>1, <3>2 DEF Ahead
  <2> QED
    BY <2>1, <2>2, <2>3, <2>4
<1> QED
    BY <1>2, <1>3 DEF FilesInOrder

-----------------------------------------------------------------------------
(* The last ones of a set. *)

\* Every set of numbers has a least one.
LEMMA LeastNatural ==
    ASSUME NEW T \in SUBSET Nat, T # {}
    PROVE  \E n \in T : \A m \in T : n <= m
<1>1. PICK n \in T : \A m \in T : ~ (<<m, n>> \in OpToRel(<, Nat))
    BY NatLessThanWellFounded, WFMin
<1>2. \A m \in T : ~(m < n)
    BY <1>1 DEF OpToRel
<1>3. n \in Nat /\ \A m \in T : m \in Nat
    OBVIOUS
<1>4. \A m \in T : n <= m
    BY <1>2, <1>3
<1> QED
    BY <1>4

\* After gives for each element of S those that come after it, in a total order.
Orders(After, S) ==
    /\ After \in [S -> SUBSET S]
    /\ \A a \in S : a \notin After[a]
    /\ \A a, b \in S : b \in After[a] => After[b] \subseteq After[a]
    /\ \A a, b \in S : a = b \/ b \in After[a] \/ a \in After[b]

AreLast(last, S, After, count) ==
    /\ last \subseteq S
    /\ \A a \in S : a \in last <=> Cardinality(After[a]) < count

\* Nothing after one of the last ones is missing, and if anything is missing there
\* are as many as asked for.
LEMMA LastOnes ==
    ASSUME NEW S, IsFiniteSet(S), NEW After, Orders(After, S), NEW count \in Nat,
           NEW last, AreLast(last, S, After, count)
    PROVE  /\ \A a \in last : After[a] \subseteq last
           /\ \A a \in S \ last : count <= Cardinality(After[a] \cap last)
           /\ Cardinality(last) <= count
<1>a. /\ After \in [S -> SUBSET S]
      /\ \A a \in S : a \notin After[a]
      /\ \A a, b \in S : b \in After[a] => After[b] \subseteq After[a]
      /\ \A a, b \in S : a = b \/ b \in After[a] \/ a \in After[b]
    BY DEF Orders
<1>b. last \subseteq S /\ \A a \in S : a \in last <=> Cardinality(After[a]) < count
    BY DEF AreLast
<1> USE <1>a, <1>b
<1>1. \A a \in S : IsFiniteSet(After[a]) /\ Cardinality(After[a]) \in Nat /\ After[a] \subseteq S
    BY FS_Subset, FS_CardinalityType
<1>2. ASSUME NEW a \in S, NEW b \in S, b \in After[a]
      PROVE  Cardinality(After[b]) < Cardinality(After[a])
  <2>1. After[b] \subseteq After[a] /\ b \notin After[b]
    BY <1>2
  <2>2. Cardinality(After[b]) <= Cardinality(After[a]) /\ Cardinality(After[b]) # Cardinality(After[a])
    BY <1>1, <1>2, <2>1, FS_Subset
  <2> QED
    BY <1>1, <2>2
<1>3. IsFiniteSet(last)
    BY FS_Subset
<1>4. \A a \in last : After[a] \subseteq last
  <2> TAKE a \in last
  <2>1. ASSUME NEW b \in After[a] PROVE b \in last
    <3>1. b \in S /\ Cardinality(After[b]) < Cardinality(After[a])
      BY <1>1, <1>2
    <3> QED
      BY <1>1, <3>1
  <2> QED
    BY <2>1
<1>5. ASSUME NEW a \in S \ last
      PROVE  count <= Cardinality(After[a] \cap last)
  <2> DEFINE Out == {c \in S \ last : c = a \/ c \in After[a]}
             Ranks == {Cardinality(After[c]) : c \in Out}
  <2>1. Ranks \in SUBSET Nat /\ Ranks # {}
    <3>1. a \in Out /\ \A c \in Out : Cardinality(After[c]) \in Nat
      BY <1>1
    <3> HIDE DEF Out
    <3> QED
      BY <3>1
  <2>2. PICK n \in Ranks : \A m \in Ranks : n <= m
    BY <2>1, LeastNatural
  <2>3. PICK c \in Out : n = Cardinality(After[c])
    BY <2>2
  <2>4. ASSUME NEW d \in After[c]
        PROVE  d \in last /\ d \in After[a]
    <3>1. d \in S /\ d \in After[c]
      BY <1>1
    <3>2. d \in After[a]
      BY <3>1
    <3>3. Cardinality(After[d]) < n
      BY <1>2, <2>3, <3>1
    <3>4. d \notin Out
      <4>1. SUFFICES ASSUME d \in Out PROVE FALSE
        OBVIOUS
      <4>2. n <= Cardinality(After[d])
        BY <2>2, <4>1
      <4>3. n \in Nat /\ Cardinality(After[d]) \in Nat
        BY <1>1, <2>1, <2>2, <3>1
      <4> QED
        BY <3>3, <4>2, <4>3
    <3> QED
      BY <3>1, <3>2, <3>4
  <2>5. After[c] \subseteq After[a] \cap last
    BY <2>4
  <2>6. IsFiniteSet(After[a] \cap last)
    BY <1>3, FS_Subset
  <2>7. Cardinality(After[c]) <= Cardinality(After[a] \cap last)
    BY <2>5, <2>6, FS_Subset
  <2>8. count <= Cardinality(After[c])
    BY <1>1
  <2> QED
    BY <1>1, <2>6, <2>7, <2>8, FS_CardinalityType
<1>6. Cardinality(last) <= count
  <2>1. CASE last = {}
    <3>1. Cardinality(last) = 0
      BY <2>1, FS_EmptySet
    <3> QED
      BY <3>1
  <2>2. CASE last # {}
    <3> DEFINE Room(c) == count - Cardinality(After[c])
               Rest == {Room(c) : c \in last}
    <3>1. Rest \in SUBSET Nat /\ Rest # {}
      <4>1. \A c \in last : Room(c) \in Nat
        BY <1>1, <1>3
      <4> HIDE DEF Room
      <4>2. \A x \in Rest : x \in Nat
        <5> TAKE x \in Rest
        <5>1. PICK c \in last : x = Room(c)
          OBVIOUS
        <5> QED
          BY <4>1, <5>1
      <4>3. PICK c \in last : TRUE
        BY <2>2
      <4>4. Room(c) \in Rest
        BY <4>3
      <4> QED
        BY <4>2, <4>4
    <3>2. PICK n \in Rest : \A m \in Rest : n <= m
      BY <3>1, LeastNatural
    <3>3. PICK a \in last : n = count - Cardinality(After[a])
      BY <3>2
    <3>4. ASSUME NEW b \in last, b # a
          PROVE  b \in After[a]
      <4>1. count - Cardinality(After[a]) <= count - Cardinality(After[b])
        BY <3>2, <3>3
      <4>2. ~(Cardinality(After[a]) < Cardinality(After[b]))
        BY <1>1, <1>3, <4>1
      <4>3. a \notin After[b]
        BY <1>2, <4>2
      <4> QED
        BY <3>4, <4>3
    <3>5. last \ {a} \subseteq After[a]
      BY <3>4
    <3>6. Cardinality(last \ {a}) <= Cardinality(After[a])
      BY <1>1, <1>3, <3>5, FS_Subset
    <3>7. Cardinality(last \ {a}) = Cardinality(last) - 1
      BY <1>3, FS_RemoveElement
    <3>8. Cardinality(After[a]) < count
      OBVIOUS
    <3> QED
      BY <1>1, <1>3, <3>6, <3>7, <3>8, FS_CardinalityType
  <2> QED
    BY <2>1, <2>2
<1> QED
    BY <1>4, <1>5, <1>6

-----------------------------------------------------------------------------
(* Reads. *)

\* A file's lines are of its stream, and in one order by number and by time.
LEMMA FileLines ==
    ASSUME TypeOK, FilesInOrder, NEW s \in Streams, NEW f \in DOMAIN files[s],
           NEW lines, lines = ToSet(files[s][f])
    PROVE  /\ IsFiniteSet(lines) /\ lines \subseteq Line
           /\ \A a \in lines : a.src = s
           /\ \A a, b \in lines : /\ a.n = b.n => a = b
                                  /\ a.n < b.n => a.at <= b.at
<1> DEFINE file == files[s][f]
<1>1. files[s] \in Seq(Seq(Line))
    BY DEF TypeOK
<1>2. file \in Seq(Line) /\ DOMAIN file = 1 .. Len(file) /\ Len(file) \in Nat /\ f \in Nat
    BY <1>1
<1>3. lines = {file[i] : i \in DOMAIN file}
    BY DEF ToSet
<1>4. \A i \in DOMAIN file : /\ i \in Nat /\ <<f, i>> \in Places(s)
                             /\ LineAt(s, <<f, i>>) = file[i]
    BY <1>2 DEF Places, LineAt
<1>5. \A i, j \in DOMAIN file : i < j => /\ file[i].n < file[j].n
                                         /\ file[i].at <= file[j].at
  <2> TAKE i, j \in DOMAIN file
  <2>1. i < j => Ahead(<<f, i>>, <<f, j>>)
    BY DEF Ahead
  <2> QED
    BY <1>4, <2>1 DEF FilesInOrder
<1>6. \A i \in DOMAIN file : file[i].src = s /\ file[i].n \in Nat /\ file[i] \in Line
  <2> TAKE i \in DOMAIN file
  <2>1. LineAt(s, <<f, i>>).src = s /\ LineAt(s, <<f, i>>).n \in Nat
        /\ LineAt(s, <<f, i>>) \in Line
    BY <1>4, PlaceIs DEF FilesInOrder
  <2> QED
    BY <1>4, <2>1
<1> HIDE DEF file
<1>7. IsFiniteSet(lines)
  <2>1. file \in Surjection(1 .. Len(file), lines)
    BY <1>2, <1>3 DEF Surjection
  <2>2. IsFiniteSet(1 .. Len(file))
    BY <1>2, FS_Interval
  <2> QED
    BY <2>1, <2>2, FS_Surjection
<1>8. ASSUME NEW a \in lines, NEW b \in lines
      PROVE  (a.n = b.n => a = b) /\ (a.n < b.n => a.at <= b.at)
  <2>1. PICK i \in DOMAIN file : a = file[i]
    BY <1>3
  <2>2. PICK j \in DOMAIN file : b = file[j]
    BY <1>3
  <2>3. i < j \/ j < i \/ i = j
    <3>1. i \in Nat /\ j \in Nat
      BY <1>4
    <3> QED
      BY <3>1
  <2>4. a.n \in Nat /\ b.n \in Nat
    BY <1>6, <2>1, <2>2
  <2>5. CASE i < j
    BY <1>5, <2>1, <2>2, <2>4, <2>5
  <2>6. CASE j < i
    BY <1>5, <2>1, <2>2, <2>4, <2>6
  <2>7. CASE i = j
    BY <2>1, <2>2, <2>4, <2>7
  <2> QED
    BY <2>3, <2>5, <2>6, <2>7
<1> QED
    BY <1>3, <1>6, <1>7, <1>8

\* What is cut from a file are its last lines.
LEMMA LastLinesAreLast ==
    ASSUME NEW file, NEW filter, NEW passed,
           passed = {line \in ToSet(file) : Passes(line, filter)},
           IsFiniteSet(passed), passed \subseteq Line,
           \A a, b \in passed : a.n = b.n => a = b,
           NEW last, last = LastLines(file, filter)
    PROVE  /\ last \subseteq passed
           /\ \A a \in last, b \in passed : a.n < b.n => b \in last
           /\ \A a \in passed \ last : Lines <= Cardinality({b \in last : a.n < b.n})
<1> DEFINE After == [a \in passed |-> {b \in passed : a.n < b.n}]
<1>1. \A a \in passed : a.n \in Nat
    BY Bounds DEF Line, Numbers
<1>2. After \in [passed -> SUBSET passed]
    OBVIOUS
<1>3. \A a, b \in passed : b \in After[a] <=> a.n < b.n
    OBVIOUS
<1>4. \A a \in passed : After[a] = {b \in passed : a.n < b.n}
    OBVIOUS
<1>5. last \in SUBSET passed /\ \A a \in passed : a \in last <=> Cardinality(After[a]) < Lines
    BY <1>4 DEF LastLines
<1> HIDE DEF After
<1>6. \A a \in passed : a \notin After[a]
    BY <1>1, <1>3
<1>7. \A a, b \in passed : b \in After[a] => After[b] \subseteq After[a]
  <2> TAKE a, b \in passed
  <2>1. ASSUME b \in After[a], NEW c \in After[b] PROVE c \in After[a]
    BY <1>1, <1>2, <1>3, <2>1
  <2> QED
    BY <2>1
<1>8. \A a, b \in passed : a = b \/ b \in After[a] \/ a \in After[b]
  <2> TAKE a, b \in passed
  <2>1. a.n \in Nat /\ b.n \in Nat
    BY <1>1
  <2>2. a.n = b.n \/ a.n < b.n \/ b.n < a.n
    BY <2>1
  <2> QED
    BY <1>3, <2>2
<1>9. /\ \A a \in last : After[a] \subseteq last
      /\ \A a \in passed \ last : Lines <= Cardinality(After[a] \cap last)
  <2>1. Lines \in Nat
    BY Bounds
  <2>2. Orders(After, passed)
    BY <1>2, <1>6, <1>7, <1>8 DEF Orders
  <2>3. AreLast(last, passed, After, Lines)
    BY <1>5 DEF AreLast
  <2> QED
    BY <2>1, <2>2, <2>3, LastOnes
<1>10. \A a \in passed : After[a] \cap last = {b \in last : a.n < b.n}
    BY <1>3, <1>5
<1> QED
    BY <1>3, <1>5, <1>9, <1>10

\* What a read has of the streams it is done with: the end of a file of each, and
\* of a file that it has cut as many lines as are asked for.
ReadEnds ==
    /\ read.entries \subseteq read.seen
    /\ IsFiniteSet(read.seen)
    /\ \A a \in read.seen : a.src \notin read.todo
    /\ \A a, b \in read.seen : a.src = b.src =>
          /\ a.n = b.n => a = b
          /\ a.n < b.n => a.at <= b.at /\ (a \in read.entries => b \in read.entries)
    /\ \A a \in read.seen \ read.entries :
          Lines <= Cardinality({b \in read.entries : b.src = a.src /\ a.n < b.n})

LEMMA ReadKeepsEnds ==
    ASSUME ReadEnds, read'.entries = read.entries, read'.seen = read.seen,
           read'.todo \subseteq read.todo
    PROVE  ReadEnds'
BY DEF ReadEnds

LEMMA NewReadEnds ==
    ASSUME read'.entries = {}, read'.seen = {}
    PROVE  ReadEnds'
BY FS_EmptySet DEF ReadEnds

LEMMA ReadsFileEnds ==
    ASSUME TypeOK, Shape, FilesInOrder, ReadEnds, ReadsFile
    PROVE  ReadEnds'
<1>1. PICK s, file, passed, last :
          /\ s = First(read.todo) /\ file = files[s][read.file]
          /\ passed = {line \in ToSet(file) : Passes(line, read.filter)}
          /\ last = LastLines(file, read.filter)
    OBVIOUS
<1>2. read.step = "read" /\ read \in Read /\ s \in Streams /\ read.file \in DOMAIN files[s]
    BY <1>1, ReadingFile DEF ReadsFile, TypeOK
<1>3. s \in read.todo
    BY <1>1, <1>2, FirstIs DEF Shape, Read
<1>4. /\ read'.todo = read.todo \ {s} /\ read'.entries = read.entries \cup last
      /\ read'.seen = read.seen \cup passed
    BY <1>1 DEF ReadsFile
<1>5. /\ IsFiniteSet(ToSet(file)) /\ ToSet(file) \subseteq Line
      /\ \A a \in ToSet(file) : a.src = s
      /\ \A a, b \in ToSet(file) : /\ a.n = b.n => a = b
                                   /\ a.n < b.n => a.at <= b.at
    BY <1>1, <1>2, FileLines
<1>6. /\ IsFiniteSet(passed) /\ passed \subseteq Line
      /\ \A a \in passed : a.src = s
      /\ \A a, b \in passed : /\ a.n = b.n => a = b
                              /\ a.n < b.n => a.at <= b.at
  <2>1. passed \subseteq ToSet(file)
    BY <1>1
  <2> QED
    BY <1>5, <2>1, FS_Subset
<1>7. /\ last \subseteq passed
      /\ \A a \in last, b \in passed : a.n < b.n => b \in last
      /\ \A a \in passed \ last : Lines <= Cardinality({b \in last : a.n < b.n})
    BY <1>1, <1>6, LastLinesAreLast
<1>8. \A a \in read.seen : a.src # s /\ a \notin passed
    BY <1>3, <1>6 DEF ReadEnds
<1>9. /\ read'.entries \subseteq read'.seen
      /\ \A a \in read'.seen : a.src \notin read'.todo
    BY <1>4, <1>6, <1>7 DEF ReadEnds
<1>10. IsFiniteSet(read'.seen)
  <2>1. IsFiniteSet(read.seen) /\ IsFiniteSet(passed)
    BY <1>6 DEF ReadEnds
  <2>2. IsFiniteSet(read.seen \cup passed)
    BY <2>1, FS_Union
  <2> QED
    BY <1>4, <2>2
<1>11. ASSUME NEW a \in read'.seen, NEW b \in read'.seen, a.src = b.src
       PROVE  /\ a.n = b.n => a = b
              /\ a.n < b.n => a.at <= b.at /\ (a \in read'.entries => b \in read'.entries)
  <2>1. CASE a \in read.seen /\ b \in read.seen
    <3>1. a \in read'.entries => a \in read.entries
      BY <1>4, <1>7, <1>8, <2>1
    <3> QED
      BY <1>4, <1>11, <2>1, <3>1 DEF ReadEnds
  <2>2. CASE a \in passed /\ b \in passed
    <3>1. a \in read'.entries => a \in last
      BY <1>4, <1>8, <2>2 DEF ReadEnds
    <3> QED
      BY <1>4, <1>6, <1>7, <2>2, <3>1
  <2> QED
    BY <1>4, <1>6, <1>8, <1>11, <2>1, <2>2
<1>12. ASSUME NEW a \in read'.seen \ read'.entries
       PROVE  Lines <= Cardinality({b \in read'.entries : b.src = a.src /\ a.n < b.n})
  <2>1. CASE a \in read.seen
    <3>1. {b \in read'.entries : b.src = a.src /\ a.n < b.n}
              = {b \in read.entries : b.src = a.src /\ a.n < b.n}
      BY <1>4, <1>6, <1>7, <1>8, <2>1
    <3> QED
      BY <1>4, <2>1, <3>1 DEF ReadEnds
  <2>2. CASE a \in passed
    <3>1. {b \in read'.entries : b.src = a.src /\ a.n < b.n} = {b \in last : a.n < b.n}
      BY <1>4, <1>6, <1>7, <1>8, <2>2 DEF ReadEnds
    <3> QED
      BY <1>4, <1>7, <2>2, <3>1
  <2> QED
    BY <1>4, <2>1, <2>2
<1> QED
    BY <1>9, <1>10, <1>11, <1>12 DEF ReadEnds

LEMMA NextEnds ==
    ASSUME TypeOK, Shape, FilesInOrder, ReadEnds, [Next]_vars
    PROVE  ReadEnds'
<1>1. read' = read => ReadEnds'
    BY ReadKeepsEnds
<1>2. CASE UNCHANGED vars
    BY <1>1, <1>2 DEF vars
<1>3. CASE Next
  <2>1. ASSUME NEW s \in Streams,
               \/ Opens(s) \/ Writes(s) \/ Renames(s) \/ Unlinks(s)
               \/ NothingToRead(s) \/ TailOpens(s) \/ ReadsNext(s) \/ TailReadFails(s)
        PROVE  read' = read
    BY <2>1 DEF Opens, Writes, Renames, Unlinks,
                NothingToRead, TailOpens, ReadsNext, TailReadFails
  <2>2. Tick \/ Sends \/ Receives => read' = read
    BY DEF Tick, Sends, Receives
  <2>3. ASSUME NEW wanted \in SUBSET Streams, NEW filter \in BOOLEAN, ReadLogs(wanted, filter)
        PROVE  ReadEnds'
    BY <2>3, NewReadEnds DEF ReadLogs
  <2>4. ASSUME NEW wanted \in SUBSET Streams, NEW filter \in BOOLEAN, StreamLogs(wanted, filter)
        PROVE  read' = read
    BY <2>4 DEF StreamLogs
  <2>5. LooksForFile \/ OpensFile => ReadEnds'
    <3> DEFINE s == First(read.todo)
               r1 == [read EXCEPT !.step = NextFile(read.todo \ {s})]
               r2 == [r1 EXCEPT !.todo = @ \ {s}]
               r3 == [read EXCEPT !.step = "open"]
               r4 == [read EXCEPT !.step = "failed"]
               r5 == [read EXCEPT !.step = "read"]
               r6 == [r5 EXCEPT !.file = path[s]]
               Kept(r) == /\ r.entries = read.entries /\ r.seen = read.seen
                          /\ r.todo \subseteq read.todo
    <3>1. LooksForFile \/ OpensFile => read' \in {r2, r3, r4, r6}
      BY DEF LooksForFile, OpensFile
    <3>2. Kept(r1) /\ Kept(r3) /\ Kept(r4) /\ Kept(r5)
      BY DEF TypeOK, Read
    <3>3. r1 \in Read /\ r5 \in Read
      BY DEF TypeOK, Read, NextFile
    <3> HIDE DEF r1, r3, r4, r5
    <3>4. Kept(r2) /\ Kept(r6)
      BY <3>2, <3>3 DEF Read
    <3> HIDE DEF r2, r6
    <3>5. LooksForFile \/ OpensFile => Kept(read')
      BY <3>1, <3>2, <3>4
    <3> QED
      BY <3>5, ReadKeepsEnds
  <2>6. ReadsFile => ReadEnds'
    BY ReadsFileEnds
  <2> QED
    BY <1>1, <1>3, <2>1, <2>2, <2>3, <2>4, <2>5, <2>6, NextCases
<1> QED
    BY <1>2, <1>3

\* What is shown are the last of the entries, in the order of the answer.
LEMMA NewestAreLast ==
    ASSUME TypeOK, ReadEnds
    PROVE  /\ Shown \subseteq read.entries
           /\ \A a \in Shown, b \in read.entries : Before(a, b) => b \in Shown
           /\ \A a \in read.entries \ Shown :
                 Lines <= Cardinality({b \in Shown : Before(a, b)})
           /\ Cardinality(Shown) <= Lines
<1>1. PICK entries, shown, After :
          /\ entries = read.entries /\ shown = Shown
          /\ After = [a \in entries |-> {b \in entries : Before(a, b)}]
    OBVIOUS
<1>2. \A a \in entries : a.n \in Nat /\ a.at \in Nat /\ a.src \in Streams
    BY <1>1, Bounds DEF TypeOK, Read, Line, Numbers
<1>3. IsFiniteSet(entries) /\ \A a, b \in entries : a.src = b.src /\ a.n = b.n => a = b
    BY <1>1, FS_Subset DEF ReadEnds
<1>4. /\ After \in [entries -> SUBSET entries]
      /\ \A a, b \in entries : b \in After[a] <=> Before(a, b)
      /\ \A a \in entries : After[a] = {b \in entries : Before(a, b)}
    BY <1>1
<1>5. AreLast(shown, entries, After, Lines)
    BY <1>1, <1>4 DEF AreLast, Shown, Newest
<1>6. Orders(After, entries)
  <2>1. \A a \in entries : ~Before(a, a)
    BY <1>2 DEF Before
  <2>2. \A a, b, c \in entries : Before(a, b) /\ Before(b, c) => Before(a, c)
    BY <1>2 DEF Before, Streams
  <2>3. \A a, b \in entries : a = b \/ Before(a, b) \/ Before(b, a)
    BY <1>2, <1>3 DEF Before, Streams
  <2>4. \A a, b \in entries : b \in After[a] => After[b] \subseteq After[a]
    <3> TAKE a, b \in entries
    <3>1. ASSUME b \in After[a], NEW c \in After[b] PROVE c \in After[a]
      BY <1>4, <2>2, <3>1
    <3> QED
      BY <3>1
  <2> QED
    BY <1>4, <2>1, <2>3, <2>4 DEF Orders
<1>7. Lines \in Nat
    BY Bounds
<1>8. /\ \A a \in shown : After[a] \subseteq shown
      /\ \A a \in entries \ shown : Lines <= Cardinality(After[a] \cap shown)
      /\ Cardinality(shown) <= Lines
    BY <1>3, <1>5, <1>6, <1>7, LastOnes
<1>9. shown \subseteq entries
    BY <1>5 DEF AreLast
<1>10. \A a \in entries : After[a] \cap shown = {b \in shown : Before(a, b)}
    BY <1>4, <1>9
<1> QED
    BY <1>1, <1>4, <1>8, <1>9, <1>10

LEMMA EndsShown == TypeOK /\ ReadEnds => ShowsEnds
<1> SUFFICES ASSUME TypeOK, ReadEnds, NEW a \in Shown, NEW b \in read.seen,
                    a.src = b.src, a.n < b.n
             PROVE  b \in Shown
    BY DEF ShowsEnds
<1>1. a \in read.entries /\ a \in read.seen
    BY NewestAreLast DEF ReadEnds
<1>2. b \in read.entries /\ a.at <= b.at
    BY <1>1 DEF ReadEnds
<1>3. a.at \in Nat /\ b.at \in Nat
    BY <1>1, Bounds DEF TypeOK, Read, Line
<1>4. Before(a, b)
    BY <1>2, <1>3 DEF Before
<1> QED
    BY <1>2, <1>4, NewestAreLast

LEMMA NewestShown == TypeOK /\ ReadEnds => ShowsNewest
<1> SUFFICES ASSUME TypeOK, ReadEnds
             PROVE  /\ Cardinality(Shown) = IF Cardinality(read.seen) < Lines
                                            THEN Cardinality(read.seen) ELSE Lines
                    /\ \A a \in read.seen \ Shown, b \in Shown : a.at <= b.at
    BY DEF ShowsNewest
<1>1. /\ Shown \subseteq read.entries /\ read.entries \subseteq read.seen
      /\ IsFiniteSet(read.seen) /\ Cardinality(Shown) <= Lines
    BY NewestAreLast DEF ReadEnds
<1>2. /\ IsFiniteSet(Shown) /\ IsFiniteSet(read.entries)
      /\ Cardinality(Shown) \in Nat /\ Cardinality(read.entries) \in Nat
      /\ Cardinality(read.seen) \in Nat /\ Lines \in Nat
    BY <1>1, FS_Subset, FS_CardinalityType, Bounds
<1>3. \A a \in read.seen : a.n \in Nat /\ a.at \in Nat
    BY Bounds DEF TypeOK, Read, Line, Numbers
<1>4. ASSUME NEW a \in read.entries \ Shown
      PROVE  Lines <= Cardinality({b \in Shown : Before(a, b)})
    BY NewestAreLast
<1>5. ASSUME NEW a \in read.entries \ Shown
      PROVE  Cardinality(Shown) = Lines
  <2>1. {b \in Shown : Before(a, b)} \subseteq Shown
    OBVIOUS
  <2>2. Cardinality({b \in Shown : Before(a, b)}) <= Cardinality(Shown)
        /\ Cardinality({b \in Shown : Before(a, b)}) \in Nat
    BY <1>2, <2>1, FS_Subset, FS_CardinalityType
  <2> QED
    BY <1>1, <1>2, <1>4, <2>2
<1>6. ASSUME NEW a \in read.seen \ read.entries
      PROVE  Lines <= Cardinality(read.entries)
  <2> DEFINE Later == {b \in read.entries : b.src = a.src /\ a.n < b.n}
  <2>1. Lines <= Cardinality(Later)
    BY DEF ReadEnds
  <2>2. Cardinality(Later) <= Cardinality(read.entries) /\ Cardinality(Later) \in Nat
    BY <1>2, FS_Subset, FS_CardinalityType
  <2> QED
    BY <1>2, <2>1, <2>2
<1>7. Cardinality(Shown) = IF Cardinality(read.seen) < Lines
                           THEN Cardinality(read.seen) ELSE Lines
  <2>1. CASE Shown = read.seen
    BY <1>1, <1>2, <2>1
  <2>2. CASE Shown # read.seen
    <3>1. Cardinality(Shown) = Lines
      <4>1. CASE Shown = read.entries
        <5>1. PICK a \in read.seen : a \notin read.entries
          BY <1>1, <2>2, <4>1
        <5> QED
          BY <1>1, <1>2, <1>6, <4>1, <5>1
      <4>2. CASE Shown # read.entries
        BY <1>1, <1>5, <4>2
      <4> QED
        BY <4>1, <4>2
    <3>2. Cardinality(Shown) <= Cardinality(read.seen)
      BY <1>1, FS_Subset
    <3> QED
      BY <1>2, <3>1, <3>2
  <2> QED
    BY <2>1, <2>2
<1>8. ASSUME NEW a \in read.seen \ Shown, NEW b \in Shown
      PROVE  a.at <= b.at
  <2> SUFFICES ASSUME b.at < a.at PROVE FALSE
    BY <1>1, <1>3
  <2>1. PICK Better : Better = {c \in read.entries : Before(b, c)}
    OBVIOUS
  <2>2. IsFiniteSet(Better) /\ Better \subseteq Shown /\ b \notin Better /\ Cardinality(Better) \in Nat
    <3>1. ~Before(b, b)
      BY <1>1, <1>3 DEF Before
    <3> QED
      BY <1>2, <2>1, <3>1, NewestAreLast, FS_Subset, FS_CardinalityType
  <2>3. Cardinality(Better) < Lines
    <3>1. Cardinality(Better \cup {b}) = Cardinality(Better) + 1
      BY <2>2, FS_AddElement
    <3>2. Better \cup {b} \subseteq Shown
      BY <2>2
    <3>3. Cardinality(Better \cup {b}) <= Cardinality(Shown)
      BY <1>2, <3>2, FS_Subset
    <3> QED
      BY <1>1, <1>2, <2>2, <3>1, <3>3
  <2>4. CASE a \in read.entries
    <3>1. {c \in Shown : Before(a, c)} \subseteq Better
      <4>1. ASSUME NEW c \in Shown, Before(a, c) PROVE c \in read.entries /\ Before(b, c)
        <5>1. c \in read.entries /\ a.at <= c.at /\ a.at \in Nat /\ c.at \in Nat /\ b.at \in Nat
          BY <1>1, <1>3, <4>1 DEF Before
        <5> QED
          BY <5>1 DEF Before
      <4> QED
        BY <2>1, <4>1
    <3>2. Cardinality({c \in Shown : Before(a, c)}) <= Cardinality(Better)
          /\ Cardinality({c \in Shown : Before(a, c)}) \in Nat
      BY <2>2, <3>1, FS_Subset, FS_CardinalityType
    <3> QED
      BY <1>2, <1>4, <2>2, <2>3, <2>4, <3>2
  <2>5. CASE a \notin read.entries
    <3> DEFINE Later == {c \in read.entries : c.src = a.src /\ a.n < c.n}
    <3>1. Later \subseteq Better
      <4>1. ASSUME NEW c \in read.entries, c.src = a.src, a.n < c.n PROVE Before(b, c)
        <5>1. a.at <= c.at /\ a.at \in Nat /\ c.at \in Nat /\ b.at \in Nat
          BY <1>1, <1>3, <4>1 DEF ReadEnds
        <5> QED
          BY <5>1 DEF Before
      <4> QED
        BY <2>1, <4>1
    <3>2. Lines <= Cardinality(Later)
      BY <2>5 DEF ReadEnds
    <3>3. Cardinality(Later) <= Cardinality(Better) /\ Cardinality(Later) \in Nat
      BY <2>2, <3>1, FS_Subset, FS_CardinalityType
    <3> QED
      BY <1>2, <2>2, <2>3, <3>2, <3>3
  <2> QED
    BY <2>4, <2>5
<1> QED
    BY <1>7, <1>8

-----------------------------------------------------------------------------
(* What the tailers have taken. *)

\* Where a tailer is, or will be when it opens the path again: the lines ahead of
\* this place are those that it can still come to.
Point(s) == <<IF tail.file[s] = 0 THEN Len(files[s]) ELSE tail.file[s], tail.position[s]>>

\* Before a task has begun nothing has arrived.
Idle == tail.step = "none" => got = <<>> /\ channel = <<>>

\* The tailers are behind every line they can still come to.
TailBehind ==
    /\ Idle
    /\ ArriveInOrder
    /\ \A i \in DOMAIN Taken :
          /\ Taken[i].n <= written
          /\ \A s \in Streams : Taken[i].src = s =>
                \A p \in Places(s) : Ahead(Point(s), p) => Taken[i].n < LineAt(s, p).n

\* No tailer comes to a line that it is past.
GoesForward ==
    \A s \in Streams : \A p \in Places(s) : Ahead(Point(s)', p) => Ahead(Point(s), p)

\* One of the tailers takes a line that is ahead of it.
Takes ==
    \E s \in Streams : \E q \in Places(s) :
        /\ Ahead(Point(s), q)
        /\ Taken' = Append(Taken, LineAt(s, q))
        /\ \A p \in Places(s) : Ahead(Point(s)', p) => Ahead(q, p)

LEMMA TakenTyped ==
    ASSUME TypeOK
    PROVE  /\ Taken \in Seq(Line) /\ Len(Taken) \in Nat /\ DOMAIN Taken = 1 .. Len(Taken)
           /\ \A i \in DOMAIN Taken : /\ Taken[i] \in Line /\ Taken[i].n \in Nat
                                      /\ Taken[i].src \in Streams
<1>1. got \in Seq(Line) /\ channel \in Seq(Line) /\ tail.entry \in Seq(Line)
    BY DEF TypeOK, TailTask
<1>2. got \o channel \in Seq(Line)
    BY <1>1
<1>3. Taken \in Seq(Line)
    BY <1>1, <1>2 DEF Taken
<1>4. \A i \in DOMAIN Taken : Taken[i] \in Line
    BY <1>3
<1> QED
    BY <1>3, <1>4, Bounds DEF Line, Numbers

\* Taking a line keeps what has been taken in order.
LEMMA BehindStays ==
    ASSUME TypeOK, TypeOK', FilesInOrder, LogGrows, TailBehind, Idle', GoesForward,
           Taken' = Taken
    PROVE  TailBehind'
<1>1. /\ written \in Nat /\ written' \in Nat /\ written <= written'
    BY Bounds DEF TypeOK, LogGrows
<1>2. ArriveInOrder'
    BY DEF TailBehind, ArriveInOrder
<1>3. ASSUME NEW i \in DOMAIN Taken
      PROVE  Taken[i].n <= written'
    BY <1>1, TakenTyped DEF TailBehind
<1>4. ASSUME NEW i \in DOMAIN Taken, NEW s \in Streams, s = Taken[i].src,
             NEW p \in Places(s)', Ahead(Point(s)', p)
      PROVE  Taken[i].n < LineAt(s, p)'.n
  <2>1. s \in Streams /\ Taken[i].n \in Nat /\ Taken[i].n <= written
    BY <1>4, TakenTyped DEF TailBehind
  <2>2. CASE p \in Places(s)
    <3>1. Ahead(Point(s), p) /\ LineAt(s, p)' = LineAt(s, p)
      BY <1>4, <2>1, <2>2 DEF GoesForward, LogGrows
    <3> QED
      BY <1>4, <2>2, <3>1 DEF TailBehind
  <2>3. CASE p \notin Places(s)
    <3>1. LineAt(s, p)' = [n |-> written + 1, at |-> now, src |-> s]
      BY <1>4, <2>1, <2>3 DEF LogGrows
    <3> QED
      BY <1>1, <2>1, <3>1
  <2> QED
    BY <2>2, <2>3
<1>5. \A i \in DOMAIN Taken : \A s \in Streams : Taken[i].src = s =>
          \A p \in Places(s)' : Ahead(Point(s)', p) => Taken[i].n < LineAt(s, p)'.n
    BY <1>4
<1>6. Taken' = Taken
    OBVIOUS
<1> QED
    BY <1>2, <1>3, <1>5, <1>6 DEF TailBehind

LEMMA BehindTakes ==
    ASSUME TypeOK, TypeOK', FilesInOrder, TailBehind, Idle', GoesForward, Takes,
           files' = files, written' = written
    PROVE  TailBehind'
<1>0. PICK s \in Streams : \E q \in Places(s) :
          /\ Ahead(Point(s), q)
          /\ Taken' = Append(Taken, LineAt(s, q))
          /\ \A p \in Places(s) : Ahead(Point(s)', p) => Ahead(q, p)
    BY DEF Takes
<1>1. PICK q \in Places(s) :
          /\ Ahead(Point(s), q)
          /\ Taken' = Append(Taken, LineAt(s, q))
          /\ \A p \in Places(s) : Ahead(Point(s)', p) => Ahead(q, p)
    BY <1>0
<1>2. PICK line, k : line = LineAt(s, q) /\ k = Len(Taken)
    OBVIOUS
<1>3. /\ line \in Line /\ line.n \in Nat /\ line.src = s /\ line.n <= written
    BY <1>2, PlaceIs DEF FilesInOrder
<1>4. /\ Taken \in Seq(Line) /\ k \in Nat /\ DOMAIN Taken = 1 .. k
      /\ \A i \in 1 .. k : Taken[i] \in Line /\ Taken[i].n \in Nat /\ Taken[i].src \in Streams
    BY <1>2, TakenTyped
<1>5. /\ DOMAIN Taken' = 1 .. k + 1 /\ Taken'[k + 1] = line
      /\ \A i \in 1 .. k : Taken'[i] = Taken[i]
  <2>1. /\ DOMAIN Append(Taken, line) = 1 .. k + 1 /\ Append(Taken, line)[k + 1] = line
        /\ \A i \in 1 .. k : Append(Taken, line)[i] = Taken[i]
    BY <1>2, <1>3, <1>4
  <2> QED
    BY <1>1, <1>2, <2>1
<1>6. \A t \in Streams : Places(t)' = Places(t) /\ \A p : LineAt(t, p)' = LineAt(t, p)
    BY DEF Places, LineAt
<1>7. \A i \in 1 .. k : Taken[i].src = s => Taken[i].n < line.n
    BY <1>1, <1>2, <1>4 DEF TailBehind
<1>8. ArriveInOrder'
  <2> SUFFICES ASSUME NEW i \in 1 .. k + 1, NEW j \in 1 .. k + 1, i < j,
                      Taken'[i].src = Taken'[j].src
               PROVE  Taken'[i].n < Taken'[j].n
    BY <1>5 DEF ArriveInOrder
  <2>1. i \in 1 .. k
    BY <1>4
  <2>2. CASE j = k + 1
    BY <1>3, <1>5, <1>7, <2>1, <2>2
  <2>3. CASE j # k + 1
    <3>1. j \in 1 .. k
      BY <1>4, <2>3
    <3> QED
      BY <1>4, <1>5, <2>1, <3>1 DEF TailBehind, ArriveInOrder
  <2> QED
    BY <2>2, <2>3
<1>9. ASSUME NEW i \in 1 .. k + 1
      PROVE  Taken'[i].n <= written'
  <2>1. CASE i = k + 1
    BY <1>3, <1>5, <2>1
  <2>2. CASE i # k + 1
    <3>1. i \in 1 .. k
      BY <1>4, <2>2
    <3> QED
      BY <1>4, <1>5, <3>1 DEF TailBehind
  <2> QED
    BY <2>1, <2>2
<1>10. ASSUME NEW i \in 1 .. k + 1, NEW t \in Streams, t = Taken'[i].src,
              NEW p \in Places(t)', Ahead(Point(t)', p)
       PROVE  Taken'[i].n < LineAt(t, p)'.n
  <2>1. CASE i = k + 1
    <3>1. t = s /\ Taken'[i].n = line.n /\ p \in Places(s)
      BY <1>3, <1>5, <1>6, <1>10, <2>1
    <3>2. Ahead(q, p)
      BY <1>1, <1>10, <3>1
    <3>3. LineAt(s, q).n < LineAt(s, p).n
      BY <3>1, <3>2 DEF FilesInOrder
    <3> QED
      BY <1>2, <1>6, <3>1, <3>3
  <2>2. CASE i # k + 1
    <3>1. i \in 1 .. k
      BY <1>4, <2>2
    <3>2. Taken'[i] = Taken[i] /\ t = Taken[i].src /\ t \in Streams /\ p \in Places(t)
      BY <1>4, <1>5, <1>6, <1>10, <3>1
    <3>3. Ahead(Point(t), p)
      BY <1>10, <3>2 DEF GoesForward
    <3>4. Taken[i].n < LineAt(t, p).n
      BY <1>4, <3>1, <3>2, <3>3 DEF TailBehind
    <3> QED
      BY <1>6, <3>2, <3>4
  <2> QED
    BY <2>1, <2>2
<1>11. \A i \in 1 .. k + 1 : \A t \in Streams : Taken'[i].src = t =>
           \A p \in Places(t)' : Ahead(Point(t)', p) => Taken'[i].n < LineAt(t, p)'.n
    BY <1>10
<1> QED
    BY <1>5, <1>8, <1>9, <1>11 DEF TailBehind

\* What a step that does not take a line leaves as it is.
LEMMA TakenStays ==
    ASSUME got' = got, channel' = channel, tail'.entry = tail.entry
    PROVE  Taken' = Taken
BY DEF Taken

LEMMA FilesGoForward ==
    ASSUME TypeOK, TypeOK', tail' = tail,
           \A s \in Streams : Len(files[s]) <= Len(files'[s])
    PROVE  GoesForward
<1> SUFFICES ASSUME NEW s \in Streams, NEW p \in Places(s), Ahead(Point(s)', p)
             PROVE  Ahead(Point(s), p)
    BY DEF GoesForward
<1>0. files[s] \in Seq(Seq(Line)) /\ files'[s] \in Seq(Seq(Line))
    BY DEF TypeOK
<1>1. p[1] \in Nat /\ p[2] \in Nat /\ p[1] <= Len(files[s])
      /\ Len(files[s]) \in Nat /\ Len(files'[s]) \in Nat /\ Len(files[s]) <= Len(files'[s])
    BY <1>0, PlaceIs
<1>2. Point(s)'[1] = (IF tail.file[s] = 0 THEN Len(files'[s]) ELSE tail.file[s])
      /\ Point(s)'[2] = tail.position[s]
    BY DEF Point
<1>3. tail.file[s] \in Nat /\ tail.position[s] \in Nat
    BY Bounds DEF TypeOK, TailTask
<1> QED
    BY <1>1, <1>2, <1>3 DEF Ahead, Point

LEMMA SamePlace ==
    ASSUME files' = files, tail'.file = tail.file, tail'.position = tail.position
    PROVE  GoesForward
<1>1. \A s \in Streams : Point(s)' = Point(s)
    BY DEF Point
<1> QED
    BY <1>1 DEF GoesForward

\* A step of the loop that takes no line.
LEMMA TurnGoesForward ==
    ASSUME TypeOK, Shape, NEW s \in Streams,
           NothingToRead(s) \/ TailOpens(s) \/ TailReadFails(s)
    PROVE  GoesForward /\ Taken' = Taken /\ tail'.step # "none"
<1>1. tail \in TailTask /\ tail.step = "turn" => tail.entry = <<>>
    BY DEF TypeOK, Shape
<1>2. CASE NothingToRead(s)
  <2>1. /\ tail' = NextTurn(tail) /\ files' = files /\ got' = got /\ channel' = channel
        /\ tail.step = "turn"
    BY <1>2 DEF NothingToRead, Following, log
  <2> QED
    BY <1>1, <2>1, NextTurnIs, SamePlace, TakenStays DEF TypeOK
<1>3. CASE TailOpens(s)
  <2>1. /\ tail' = [tail EXCEPT !.file[s] = path[s]] /\ tail.step = "turn"
        /\ files' = files /\ got' = got /\ channel' = channel
        /\ tail.file[s] = 0 /\ path[s] = Len(files[s])
    BY <1>3 DEF TailOpens, Following, log, Shape
  <2>2. /\ tail'.file = [tail.file EXCEPT ![s] = path[s]] /\ tail'.position = tail.position
        /\ tail'.step = tail.step /\ tail'.entry = tail.entry
        /\ tail.file \in [Streams -> 0 .. MaxFiles]
    BY <2>1 DEF TypeOK, TailTask
  <2>3. \A u \in Streams : Point(u)' = Point(u)
    BY <2>1, <2>2 DEF Point
  <2> QED
    BY <2>1, <2>2, <2>3, TakenStays DEF GoesForward
<1>4. CASE TailReadFails(s)
  <2> DEFINE t == [tail EXCEPT !.file[s] = 0]
  <2>1. /\ tail' = NextTurn(t) /\ tail.step = "turn"
        /\ files' = files /\ got' = got /\ channel' = channel
    BY <1>4 DEF TailReadFails, Following, log
  <2>a. tail \in TailTask /\ 0 \in 0 .. MaxFiles
    BY Bounds DEF TypeOK
  <2>2. /\ t \in TailTask /\ t.file = [tail.file EXCEPT ![s] = 0]
        /\ t.position = tail.position /\ tail.file \in [Streams -> 0 .. MaxFiles]
    BY <2>a DEF TailTask
  <2> HIDE DEF t
  <2>3. /\ tail'.file = [tail.file EXCEPT ![s] = 0] /\ tail'.position = tail.position
        /\ tail'.step # "none" /\ tail'.entry = <<>>
    BY <2>1, <2>2, NextTurnIs
  <2>4. ASSUME NEW u \in Streams, NEW p \in Places(u), Ahead(Point(u)', p)
        PROVE  Ahead(Point(u), p)
    <3>1. p[1] \in Nat /\ p[2] \in Nat /\ p[1] <= Len(files[u]) /\ Len(files[u]) \in Nat
      BY PlaceIs DEF TypeOK
    <3>2. /\ tail.file[u] \in Nat /\ tail.position[u] \in Nat
          /\ tail.file[u] # 0 => tail.file[u] <= Len(files[u])
      <4>1. files[u] \in Seq(Seq(Line)) /\ tail.file[u] # 0 => tail.file[u] \in DOMAIN files[u]
        BY DEF TypeOK, Shape
      <4>2. tail.file[u] \in Nat /\ tail.position[u] \in Nat
        BY Bounds DEF TypeOK, TailTask
      <4> QED
        BY <3>1, <4>1, <4>2 DEF TypeOK, Shape
    <3>3. CASE u = s
      <4>1. Point(u)' = <<Len(files[u]), tail.position[u]>>
        BY <2>1, <2>2, <2>3, <3>3 DEF Point
      <4>2. Len(files[u]) = p[1] /\ tail.position[u] < p[2]
        BY <2>4, <3>1, <4>1 DEF Ahead
      <4> QED
        BY <3>1, <3>2, <4>2 DEF Ahead, Point
    <3>4. CASE u # s
      <4>1. Point(u)' = Point(u)
        BY <2>1, <2>2, <2>3, <3>4 DEF Point
      <4> QED
        BY <2>4, <4>1
    <3> QED
      BY <3>3, <3>4
  <2>5. tail'.entry = tail.entry
    BY <1>1, <2>1, <2>3 DEF TypeOK
  <2>6. Taken' = Taken
    BY <2>1, <2>5, TakenStays
  <2>7. GoesForward
    BY <2>4 DEF GoesForward
  <2> QED
    BY <2>3, <2>6, <2>7
<1> QED
    BY <1>2, <1>3, <1>4

\* A tailer that reads goes on by one line, and takes it if the filter lets it.
LEMMA ReadsNextTakes ==
    ASSUME TypeOK, Shape, NEW s \in Streams, ReadsNext(s)
    PROVE  /\ GoesForward /\ tail'.step # "none"
           /\ tail'.file = tail.file /\ tail'.filter = tail.filter
           /\ tail'.position = [tail.position EXCEPT ![s] = @ + 1]
           /\ \/ Passes(NextLine(s), tail.filter) /\ Taken' = Append(Taken, NextLine(s)) /\ Takes
              \/ ~Passes(NextLine(s), tail.filter) /\ Taken' = Taken
<1> DEFINE next == tail.position[s] + 1
           passed == [tail EXCEPT !.position[s] = next]
           p1 == [passed EXCEPT !.step = "send"]
           p2 == [p1 EXCEPT !.entry = <<NextLine(s)>>]
           q == <<tail.file[s], next>>
<1>1. /\ files' = files /\ got' = got /\ channel' = channel /\ tail.entry = <<>>
      /\ HasLine(s) /\ tail.file[s] # 0
    BY DEF ReadsNext, Following, HasLine, Shape, log
<1>2. /\ next \in 0 .. MaxLines /\ NextLine(s) \in Line
      /\ tail.file[s] \in DOMAIN files[s] /\ next \in DOMAIN files[s][tail.file[s]]
    BY <1>1, NextLineIs
<1>3. /\ tail.file[s] \in Nat /\ tail.position[s] \in Nat /\ tail \in TailTask
      /\ tail.position \in [Streams -> 0 .. MaxLines]
    BY Bounds DEF TypeOK, TailTask
<1>4. q \in Places(s) /\ NextLine(s) = LineAt(s, q) /\ Ahead(Point(s), q)
    BY <1>1, <1>2, <1>3 DEF Places, NextLine, LineAt, Point, Ahead
<1>5. IF Passes(NextLine(s), tail.filter) THEN tail' = p2 ELSE tail' = NextTurn(passed)
    BY DEF ReadsNext
<1>6. /\ passed \in TailTask /\ passed.file = tail.file /\ passed.filter = tail.filter
      /\ passed.position = [tail.position EXCEPT ![s] = next]
    BY <1>2, <1>3 DEF TailTask
<1> HIDE DEF passed, q
<1>7. /\ p1 \in TailTask /\ p1.file = passed.file /\ p1.position = passed.position
      /\ p1.filter = passed.filter /\ p1.step = "send"
    BY <1>6 DEF TailTask
<1> HIDE DEF p1
<1>8. /\ p2.file = passed.file /\ p2.position = passed.position
      /\ p2.filter = passed.filter /\ p2.step = "send" /\ p2.entry = <<NextLine(s)>>
    BY <1>7 DEF TailTask
<1> HIDE DEF p2
<1>9. /\ tail'.file = tail.file /\ tail'.filter = tail.filter /\ tail'.step # "none"
      /\ tail'.position = [tail.position EXCEPT ![s] = next]
      /\ tail'.entry = IF Passes(NextLine(s), tail.filter) THEN <<NextLine(s)>> ELSE <<>>
  <2>1. CASE Passes(NextLine(s), tail.filter)
    BY <1>5, <1>6, <1>8, <2>1
  <2>2. CASE ~Passes(NextLine(s), tail.filter)
    BY <1>5, <1>6, <2>2, NextTurnIs
  <2> QED
    BY <2>1, <2>2
<1>10. /\ \A u \in Streams \ {s} : Point(u)' = Point(u)
       /\ Point(s)' = q /\ q[1] = tail.file[s] /\ q[2] = tail.position[s] + 1
       /\ Point(s)[1] = tail.file[s] /\ Point(s)[2] = tail.position[s]
    BY <1>1, <1>3, <1>9 DEF Point, q
<1>11. ASSUME NEW u \in Streams, NEW p \in Places(u), Ahead(Point(u)', p)
       PROVE  Ahead(Point(u), p)
  <2>1. p[1] \in Nat /\ p[2] \in Nat
    BY DEF Places
  <2> QED
    BY <1>3, <1>10, <1>11, <2>1 DEF Ahead
<1>12. CASE Passes(NextLine(s), tail.filter)
  <2>1. tail'.entry = <<NextLine(s)>>
    BY <1>9, <1>12
  <2>2. (got \o channel) \in Seq(Line)
    BY DEF TypeOK
  <2>3. Taken = got \o channel
    BY <1>1, <2>2 DEF Taken
  <2>4. Taken' = (got \o channel) \o <<NextLine(s)>>
    BY <1>1, <2>1 DEF Taken
  <2>5. Taken' = Append(Taken, NextLine(s))
    BY <1>2, <2>2, <2>3, <2>4, AppendIsConcat
  <2>6. Takes
    BY <1>4, <1>10, <2>5 DEF Takes
  <2> QED
    BY <1>9, <1>11, <1>12, <2>5, <2>6 DEF GoesForward
<1>13. CASE ~Passes(NextLine(s), tail.filter)
  <2>1. Taken' = Taken
    BY <1>1, <1>9, <1>13, TakenStays
  <2> QED
    BY <1>9, <1>11, <1>13, <2>1 DEF GoesForward
<1> QED
    BY <1>12, <1>13

\* What is sent and what is received stay taken.
LEMMA SendsKeeps ==
    ASSUME TypeOK, Sends
    PROVE  GoesForward /\ Taken' = Taken /\ tail'.step # "none"
<1>1. /\ tail' = NextTurn(tail) /\ files' = files /\ got' = got
      /\ channel' = channel \o tail.entry
    BY DEF Sends, log
<1>2. tail \in TailTask /\ got \in Seq(Line) /\ channel \in Seq(Line) /\ tail.entry \in Seq(Line)
    BY DEF TypeOK, TailTask
<1>3. /\ tail'.file = tail.file /\ tail'.position = tail.position
      /\ tail'.entry = <<>> /\ tail'.step # "none"
    BY <1>1, <1>2, NextTurnIs
<1>4. Taken' = (got \o (channel \o tail.entry)) \o <<>>
    BY <1>1, <1>3 DEF Taken
<1>5. got \o (channel \o tail.entry) \in Seq(Line)
    BY <1>2
<1>6. Taken' = got \o (channel \o tail.entry)
    BY <1>4, <1>5, ConcatEmptySeq
<1>7. Taken' = Taken
  <2>1. PICK entry \in Seq(Line) : entry = tail.entry
    BY <1>2
  <2>2. got \in Seq(Line) /\ channel \in Seq(Line)
    BY <1>2
  <2>3. (got \o channel) \o entry = got \o (channel \o entry)
    BY <2>2, ConcatAssociative
  <2> QED
    BY <1>6, <2>1, <2>3 DEF Taken
<1> QED
    BY <1>1, <1>3, <1>7, SamePlace

LEMMA ReceivesKeeps ==
    ASSUME TypeOK, Receives
    PROVE  GoesForward /\ Taken' = Taken
<1>1. /\ tail' = tail /\ files' = files /\ channel # <<>>
      /\ got' = Append(got, Head(channel)) /\ channel' = Tail(channel)
    BY DEF Receives, log
<1>2. got \in Seq(Line) /\ channel \in Seq(Line) /\ Head(channel) \in Line
      /\ Tail(channel) \in Seq(Line) /\ <<Head(channel)>> \in Seq(Line)
    BY <1>1 DEF TypeOK
<1>3. got' = got \o <<Head(channel)>>
    BY <1>1, <1>2, AppendIsConcat
<1>4. got' \o channel' = got \o (<<Head(channel)>> \o Tail(channel))
    BY <1>1, <1>2, <1>3, ConcatAssociative
<1>5. <<Head(channel)>> \o Tail(channel) = channel
  <2> DEFINE k == Len(channel)
             c == <<Head(channel)>> \o Tail(channel)
  <2>1. /\ k \in Nat /\ k > 0 /\ Len(Tail(channel)) = k - 1 /\ Head(channel) = channel[1]
        /\ \A i \in 1 .. k - 1 : Tail(channel)[i] = channel[i + 1]
    BY <1>1, <1>2
  <2>2. c \in Seq(Line) /\ Len(c) = k /\ c[1] = channel[1]
    BY <1>2, <2>1
  <2>3. ASSUME NEW i \in 2 .. k PROVE c[i] = channel[i]
    <3>1. i - 1 \in 1 .. k - 1 /\ c[i] = Tail(channel)[i - 1]
      BY <1>2, <2>1
    <3> QED
      BY <2>1, <3>1
  <2>4. \A i \in 1 .. Len(c) : c[i] = channel[i]
    <3>1. \A i \in 1 .. k : i = 1 \/ i \in 2 .. k
      BY <2>1
    <3> HIDE DEF c
    <3> QED
      BY <2>2, <2>3, <3>1
  <2> HIDE DEF c
  <2>5. c = channel
    BY <1>2, <2>2, <2>4, SeqEqual
  <2> QED
    BY <2>5 DEF c
<1>6. Taken' = Taken
    BY <1>1, <1>4, <1>5 DEF Taken
<1> QED
    BY <1>1, <1>6, SamePlace

LEMMA NothingTaken ==
    /\ Taken = <<>> /\ Idle => TailBehind
    /\ Taken' = <<>> /\ Idle' => TailBehind'
<1>1. DOMAIN <<>> = {}
    OBVIOUS
<1>2. CASE Taken = <<>> /\ Idle
    BY <1>1, <1>2 DEF TailBehind, ArriveInOrder
<1>3. CASE Taken' = <<>> /\ Idle'
    BY <1>1, <1>3 DEF TailBehind, ArriveInOrder
<1> QED
    BY <1>2, <1>3

LEMMA NewTailTakes ==
    ASSUME TypeOK, Shape, Idle, NEW wanted \in SUBSET Streams, NEW filter \in BOOLEAN,
           StreamLogs(wanted, filter)
    PROVE  /\ Taken' = <<>> /\ tail'.step # "none" /\ broke' = broke
           /\ \A s \in Streams : tail'.file[s] = 0 /\ tail'.position[s] = 0
<1>1. /\ tail' = [NoTail EXCEPT !.step = "turn", !.wanted = wanted, !.filter = filter]
      /\ tail.step = "none" /\ got' = got /\ channel' = channel /\ broke' = broke
    BY DEF StreamLogs
<1>2. /\ tail'.step = "turn" /\ tail'.entry = <<>>
      /\ tail'.file = NoTail.file /\ tail'.position = NoTail.position
    BY <1>1, NewTailIs
<1>3. got = <<>> /\ channel = <<>>
    BY <1>1 DEF Idle
<1>4. Taken' = <<>>
    BY <1>1, <1>2, <1>3 DEF Taken
<1> QED
    BY <1>1, <1>2, <1>4 DEF NoTail

\* The steps that leave the task alone: the log's, the read's and the idle ones.
LEMMA TailRests ==
    ASSUME TypeOK, Shape,
           \/ UNCHANGED vars
           \/ \E s \in Streams : Opens(s) \/ Writes(s) \/ Renames(s) \/ Unlinks(s)
           \/ \E wanted \in SUBSET Streams, filter \in BOOLEAN : ReadLogs(wanted, filter)
           \/ Tick \/ LooksForFile \/ OpensFile \/ ReadsFile
    PROVE  /\ UNCHANGED <<tail, channel, got, broke>>
           /\ \A u \in Streams : Len(files[u]) <= Len(files'[u])
<1>0. \A u \in Streams : Len(files[u]) \in Nat
  <2>1. \A u \in Streams : files[u] \in Seq(Seq(Line))
    BY DEF TypeOK
  <2> QED
    BY <2>1
<1>1. ASSUME NEW s \in Streams, Opens(s)
      PROVE  \A u \in Streams : Len(files[u]) <= Len(files'[u])
  <2>1. /\ Len(files'[s]) = Len(files[s]) + 1
        /\ \A t \in Streams \ {s} : files'[t] = files[t]
    BY <1>1, OpensFiles
  <2> TAKE u \in Streams
  <2>3. CASE u = s
    BY <1>0, <2>1, <2>3
  <2>4. CASE u # s
    BY <1>0, <2>1, <2>4
  <2> QED
    BY <2>3, <2>4
<1>2. ASSUME NEW s \in Streams, Writes(s)
      PROVE  \A u \in Streams : Len(files[u]) <= Len(files'[u])
  <2>1. /\ Len(files'[s]) = Len(files[s])
        /\ \A t \in Streams \ {s} : files'[t] = files[t]
    BY <1>2, WritesFiles
  <2> QED
    BY <1>0, <2>1
<1>3. files' = files => \A u \in Streams : Len(files[u]) <= Len(files'[u])
    BY <1>0
<1>4. ASSUME NEW s \in Streams, Opens(s) \/ Writes(s) \/ Renames(s) \/ Unlinks(s)
      PROVE  UNCHANGED stream /\ (files' = files \/ Opens(s) \/ Writes(s))
    BY <1>4 DEF Opens, Writes, Renames, Unlinks
<1>5. ASSUME NEW wanted \in SUBSET Streams, NEW filter \in BOOLEAN, ReadLogs(wanted, filter)
      PROVE  UNCHANGED stream /\ files' = files
    BY <1>5 DEF ReadLogs, log
<1>6. Tick \/ LooksForFile \/ OpensFile \/ ReadsFile \/ UNCHANGED vars
          => UNCHANGED stream /\ files' = files
    BY DEF Tick, LooksForFile, OpensFile, ReadsFile, vars, log
<1> QED
    BY <1>1, <1>2, <1>3, <1>4, <1>5, <1>6 DEF stream

LEMMA NextBehind ==
    ASSUME TypeOK, TypeOK', Shape, FilesInOrder, LogGrows, TailBehind, [Next]_vars
    PROVE  TailBehind'
<1>0. Idle /\ (tail'.step # "none" => Idle')
    BY DEF TailBehind, Idle
<1>1. CASE UNCHANGED <<tail, channel, got, broke>>
           /\ \A u \in Streams : Len(files[u]) <= Len(files'[u])
  <2>1. Idle' /\ Taken' = Taken
    BY <1>0, <1>1 DEF Idle, Taken
  <2> QED
    BY <1>1, <2>1, FilesGoForward, BehindStays
<1>2. ASSUME NEW s \in Streams, NothingToRead(s) \/ TailOpens(s) \/ TailReadFails(s)
      PROVE  TailBehind'
    BY <1>0, <1>2, TurnGoesForward, BehindStays
<1>3. ASSUME NEW s \in Streams, ReadsNext(s)
      PROVE  TailBehind'
  <2>1. files' = files /\ written' = written
    BY <1>3 DEF ReadsNext, log
  <2>2. GoesForward /\ Idle' /\ (Takes \/ Taken' = Taken)
    BY <1>0, <1>3, ReadsNextTakes
  <2> QED
    BY <2>1, <2>2, BehindStays, BehindTakes
<1>4. Sends => TailBehind'
    BY <1>0, SendsKeeps, BehindStays
<1>5. Receives => TailBehind'
  <2>1. Receives => tail' = tail /\ channel # <<>>
    BY DEF Receives
  <2>2. Receives => Idle'
    BY <1>0, <2>1 DEF Idle
  <2> QED
    BY <2>2, ReceivesKeeps, BehindStays
<1>6. ASSUME NEW wanted \in SUBSET Streams, NEW filter \in BOOLEAN, StreamLogs(wanted, filter)
      PROVE  TailBehind'
    BY <1>0, <1>6, NewTailTakes, NothingTaken
<1>7. CASE UNCHANGED vars
    BY <1>1, <1>7, TailRests
<1>8. CASE Next
    BY <1>1, <1>2, <1>3, <1>4, <1>5, <1>6, <1>8, TailRests, NextCases
<1> QED
    BY <1>7, <1>8

-----------------------------------------------------------------------------
(* What the tailers have passed. *)

TakenOf(s) == {Taken[i] : i \in {i \in DOMAIN Taken : Taken[i].src = s}}

\* The lines of a stream that its tailer has read, less what the filter hides.
PassedOf(s) ==
    {LineAt(s, <<tail.file[s], m>>) : m \in
        {m \in 1 .. tail.position[s] : Passes(LineAt(s, <<tail.file[s], m>>), tail.filter)}}

\* Until a read fails, a position belongs to the file that is open.
TakenBegins ==
    ~broke =>
        \A s \in Streams :
            /\ tail.file[s] = 0 => tail.position[s] = 0
            /\ tail.file[s] # 0 => tail.position[s] <= Len(files[s][tail.file[s]])
            /\ TakenOf(s) = PassedOf(s)

LEMMA BeginsLoseNothing == TypeOK /\ Shape /\ TakenBegins => NothingLost
<1> SUFFICES ASSUME TypeOK, Shape, TakenBegins, ~broke, NEW s \in Streams
             PROVE  TakenOf(s) =
                        IF tail.file[s] = 0 THEN {}
                        ELSE {line \in ToSet(SubSeq(files[s][tail.file[s]], 1, tail.position[s])) :
                                 Passes(line, tail.filter)}
    BY DEF NothingLost, TakenOf
<1>1. TakenOf(s) = PassedOf(s)
    BY DEF TakenBegins
<1>2. CASE tail.file[s] = 0
  <2>1. tail.position[s] = 0
    BY <1>2 DEF TakenBegins
  <2>2. 1 .. tail.position[s] = {}
    BY <2>1
  <2> QED
    BY <1>1, <1>2, <2>2 DEF PassedOf
<1>3. CASE tail.file[s] # 0
  <2>1. PICK file, k : file = files[s][tail.file[s]] /\ k = tail.position[s]
    OBVIOUS
  <2>2. file \in Seq(Line) /\ k \in Nat /\ k <= Len(file)
    <3>1. tail.file[s] \in DOMAIN files[s] /\ files[s] \in Seq(Seq(Line))
      BY <1>3 DEF Shape, TypeOK
    <3>2. files[s][tail.file[s]] \in Seq(Line)
      BY <3>1
    <3>3. tail.position[s] \in Nat /\ tail.position[s] <= Len(files[s][tail.file[s]])
      BY <1>3, Bounds DEF TakenBegins, TypeOK, TailTask
    <3> QED
      BY <2>1, <3>2, <3>3
  <2>3. /\ DOMAIN SubSeq(file, 1, k) = 1 .. k
        /\ \A m \in 1 .. k : SubSeq(file, 1, k)[m] = file[m]
    BY <2>2
  <2>4. ToSet(SubSeq(file, 1, k)) = {file[m] : m \in 1 .. k}
    BY <2>3 DEF ToSet
  <2>5. \A m : LineAt(s, <<tail.file[s], m>>) = file[m]
    BY <2>1 DEF LineAt
  <2>6. PassedOf(s) = {file[m] : m \in {m \in 1 .. k : Passes(file[m], tail.filter)}}
    BY <2>1, <2>5 DEF PassedOf
  <2>7. PassedOf(s) = {line \in {file[m] : m \in 1 .. k} : Passes(line, tail.filter)}
    BY <2>6
  <2> QED
    BY <1>1, <1>3, <2>1, <2>4, <2>7
<1> QED
    BY <1>2, <1>3

\* A file that grows begins as it did.
LEMMA BeginsStay ==
    ASSUME TypeOK, TypeOK', Shape, Shape', LogGrows, TakenBegins, ~broke, Taken' = Taken,
           tail'.position = tail.position, tail'.filter = tail.filter,
           \A s \in Streams : \/ tail'.file[s] = tail.file[s]
                              \/ tail.file[s] = 0
    PROVE  TakenBegins'
<1> SUFFICES ASSUME NEW s \in Streams
             PROVE  /\ tail'.file[s] = 0 => tail'.position[s] = 0
                    /\ tail'.file[s] # 0 => tail'.position[s] <= Len(files'[s][tail'.file[s]])
                    /\ TakenOf(s)' = PassedOf(s)'
    BY DEF TakenBegins
<1>1. TakenOf(s)' = PassedOf(s)
    BY DEF TakenOf, TakenBegins
<1>2. /\ tail.position[s] \in Nat /\ tail.file[s] \in Nat /\ tail'.file[s] \in Nat
      /\ tail'.position[s] = tail.position[s]
    BY Bounds DEF TypeOK, TailTask
<1>3. tail'.file[s] # 0 => files'[s][tail'.file[s]] \in Seq(Line)
  <2>1. tail'.file[s] # 0 => tail'.file[s] \in DOMAIN files'[s]
    BY DEF Shape
  <2>2. files'[s] \in Seq(Seq(Line))
    BY DEF TypeOK
  <2> QED
    BY <2>1, <2>2
<1>4. CASE tail.position[s] = 0
  <2>1. 1 .. tail.position[s] = {}
    BY <1>4
  <2>2. PassedOf(s)' = {} /\ PassedOf(s) = {}
    BY <1>2, <2>1 DEF PassedOf
  <2>3. tail'.file[s] # 0 => 0 <= Len(files'[s][tail'.file[s]])
    BY <1>3
  <2> QED
    BY <1>1, <1>2, <1>4, <2>2, <2>3
<1>5. CASE tail.position[s] # 0
  <2>1. /\ tail.file[s] # 0 /\ tail'.file[s] = tail.file[s]
        /\ tail.position[s] <= Len(files[s][tail.file[s]])
    BY <1>5 DEF TakenBegins
  <2>2. PICK f, k : f = tail.file[s] /\ k = tail.position[s]
    OBVIOUS
  <2>3. files[s] \in Seq(Seq(Line)) /\ f \in DOMAIN files[s] /\ f \in Nat /\ k \in Nat \ {0}
    BY <1>2, <1>5, <2>1, <2>2 DEF TypeOK, Shape
  <2>4. files[s][f] \in Seq(Line) /\ k <= Len(files[s][f])
    BY <2>1, <2>2, <2>3
  <2>5. ASSUME NEW m \in 1 .. k
        PROVE  /\ LineAt(s, <<f, m>>)' = LineAt(s, <<f, m>>)
               /\ m \in DOMAIN files'[s][f]
    <3>1. m \in Nat /\ m \in DOMAIN files[s][f]
      BY <2>3, <2>4
    <3>2. <<f, m>> \in Places(s)
      BY <2>3, <3>1 DEF Places
    <3>3. <<f, m>> \in Places(s)' /\ LineAt(s, <<f, m>>)' = LineAt(s, <<f, m>>)
      BY <3>2 DEF LogGrows
    <3> QED
      BY <3>3 DEF Places
  <2>6. k <= Len(files'[s][f])
    <3>1. k \in 1 .. k
      BY <2>3
    <3>2. k \in DOMAIN files'[s][f]
      BY <2>5, <3>1
    <3>3. files'[s][f] \in Seq(Line)
      BY <1>3, <2>1, <2>2
    <3> QED
      BY <3>2, <3>3
  <2>7. PassedOf(s)' = PassedOf(s)
    <3>1. PassedOf(s)' = {LineAt(s, <<f, m>>)' : m \in
                             {m \in 1 .. k : Passes(LineAt(s, <<f, m>>)', tail.filter)}}
      BY <1>2, <2>1, <2>2 DEF PassedOf, Passes
    <3>2. PassedOf(s) = {LineAt(s, <<f, m>>) : m \in
                             {m \in 1 .. k : Passes(LineAt(s, <<f, m>>), tail.filter)}}
      BY <2>2 DEF PassedOf
    <3> QED
      BY <2>5, <3>1, <3>2
  <2> QED
    BY <1>1, <1>2, <1>5, <2>1, <2>2, <2>6, <2>7
<1> QED
    BY <1>4, <1>5

\* A tailer that reads takes the next line of its file.
LEMMA BeginsGrow ==
    ASSUME TypeOK, TypeOK', Shape, FilesInOrder, TakenBegins, NEW s \in Streams, ReadsNext(s)
    PROVE  TakenBegins'
<1> SUFFICES ASSUME ~broke, NEW u \in Streams
             PROVE  /\ tail'.file[u] = 0 => tail'.position[u] = 0
                    /\ tail'.file[u] # 0 => tail'.position[u] <= Len(files'[u][tail'.file[u]])
                    /\ TakenOf(u)' = PassedOf(u)'
  <2>1. broke' = broke
    BY DEF ReadsNext
  <2> QED
    BY <2>1 DEF TakenBegins
<1>1. /\ tail.file[u] = 0 => tail.position[u] = 0
      /\ tail.file[u] # 0 => tail.position[u] <= Len(files[u][tail.file[u]])
      /\ TakenOf(u) = PassedOf(u)
    BY DEF TakenBegins
<1>2. PICK f, k, line, filter : /\ f = tail.file[s] /\ k = tail.position[s]
                                /\ line = NextLine(s) /\ filter = tail.filter
    OBVIOUS
<1>3. /\ files' = files /\ HasLine(s) /\ f # 0 /\ k < Len(files[s][f])
    BY <1>2 DEF ReadsNext, HasLine, log
<1>4. /\ tail'.file = tail.file /\ tail'.filter = filter
      /\ tail'.position = [tail.position EXCEPT ![s] = k + 1]
      /\ \/ Passes(line, filter) /\ Taken' = Append(Taken, line)
         \/ ~Passes(line, filter) /\ Taken' = Taken
    BY <1>2, ReadsNextTakes
<1>5. /\ line \in Line /\ f \in DOMAIN files[s] /\ k + 1 \in DOMAIN files[s][f]
      /\ line = files[s][f][k + 1]
    BY <1>2, <1>3, NextLineIs DEF NextLine
<1>6. /\ k \in Nat /\ f \in Nat /\ tail.position \in [Streams -> 0 .. MaxLines]
    BY <1>2, Bounds DEF TypeOK, TailTask
<1>7. /\ Taken \in Seq(Line) /\ Len(Taken) \in Nat /\ DOMAIN Taken = 1 .. Len(Taken)
    BY TakenTyped
<1>8. CASE u # s
  <2>1. tail'.position[u] = tail.position[u]
    BY <1>4, <1>6, <1>8
  <2>2. PassedOf(u)' = PassedOf(u)
    BY <1>2, <1>3, <1>4, <2>1 DEF PassedOf, LineAt, Passes
  <2>3. line.src # u
    <3>1. <<f, k + 1>> \in Places(s) /\ line = LineAt(s, <<f, k + 1>>)
      BY <1>5, <1>6 DEF Places, LineAt
    <3> QED
      BY <1>8, <3>1 DEF FilesInOrder
  <2>4. TakenOf(u)' = TakenOf(u)
    <3>1. CASE Taken' = Taken
      BY <3>1 DEF TakenOf
    <3>2. CASE Taken' = Append(Taken, line)
      <4>1. /\ DOMAIN Taken' = 1 .. Len(Taken) + 1 /\ Taken'[Len(Taken) + 1] = line
            /\ \A i \in 1 .. Len(Taken) : Taken'[i] = Taken[i]
        BY <1>5, <1>7, <3>2
      <4>2. {i \in DOMAIN Taken' : Taken'[i].src = u} = {i \in DOMAIN Taken : Taken[i].src = u}
        <5>1. \A i \in 1 .. Len(Taken) + 1 : i = Len(Taken) + 1 \/ i \in 1 .. Len(Taken)
          BY <1>7
        <5>2. \A i \in 1 .. Len(Taken) : i \in 1 .. Len(Taken) + 1
          BY <1>7
        <5> QED
          BY <1>7, <2>3, <4>1, <5>1, <5>2
      <4> QED
        BY <1>7, <4>1, <4>2 DEF TakenOf
    <3> QED
      BY <1>4, <3>1, <3>2
  <2> QED
    BY <1>1, <1>3, <1>4, <2>1, <2>2, <2>4
<1>9. CASE u = s
  <2> DEFINE At(m) == files[s][f][m]
             Hit(n) == {m \in 1 .. n : Passes(At(m), filter)}
  <2>1. tail'.position[u] = k + 1 /\ tail'.file[u] = f
    BY <1>2, <1>4, <1>6, <1>9
  <2>2. k + 1 <= Len(files[s][f])
    BY <1>3, <1>5, <1>6 DEF TypeOK
  <2>3. PassedOf(s) = {At(m) : m \in Hit(k)}
    BY <1>2 DEF PassedOf, LineAt
  <2>4. PassedOf(s)' = {At(m) : m \in Hit(k + 1)}
    BY <1>3, <1>4, <1>9, <2>1 DEF PassedOf, LineAt, Passes
  <2>5. 1 .. k + 1 = (1 .. k) \cup {k + 1} /\ line = At(k + 1)
    BY <1>5, <1>6
  <2>6. CASE Passes(line, filter) /\ Taken' = Append(Taken, line)
    <3>1. /\ DOMAIN Taken' = 1 .. Len(Taken) + 1 /\ Taken'[Len(Taken) + 1] = line
          /\ \A i \in 1 .. Len(Taken) : Taken'[i] = Taken[i]
      BY <1>5, <1>7, <2>6
    <3>2. 1 .. Len(Taken) + 1 = (1 .. Len(Taken)) \cup {Len(Taken) + 1}
      BY <1>7
    <3>3. line.src = s
      <4>1. <<f, k + 1>> \in Places(s) /\ line = LineAt(s, <<f, k + 1>>)
        BY <1>5, <1>6 DEF Places, LineAt
      <4> QED
        BY <4>1 DEF FilesInOrder
    <3>4. {i \in DOMAIN Taken' : Taken'[i].src = s}
              = {i \in DOMAIN Taken : Taken[i].src = s} \cup {Len(Taken) + 1}
      BY <1>7, <3>1, <3>2, <3>3
    <3>5. TakenOf(s)' = TakenOf(s) \cup {line}
      <4>1. TakenOf(s)' = {Taken'[i] : i \in {i \in DOMAIN Taken : Taken[i].src = s} \cup {Len(Taken) + 1}}
        BY <3>4 DEF TakenOf
      <4>2. \A i \in {i \in DOMAIN Taken : Taken[i].src = s} : Taken'[i] = Taken[i]
        BY <1>7, <3>1
      <4> QED
        BY <3>1, <4>1, <4>2 DEF TakenOf
    <3>6. Hit(k + 1) = Hit(k) \cup {k + 1}
      BY <2>5, <2>6
    <3> HIDE DEF Hit, At
    <3>7. PassedOf(s)' = PassedOf(s) \cup {line}
      BY <2>3, <2>4, <2>5, <3>6
    <3> QED
      BY <1>1, <1>3, <1>6, <1>9, <2>1, <2>2, <3>5, <3>7
  <2>7. CASE ~Passes(line, filter) /\ Taken' = Taken
    <3>1. Hit(k + 1) = Hit(k)
      BY <2>5, <2>7
    <3>2. TakenOf(s)' = TakenOf(s)
      BY <2>7 DEF TakenOf
    <3> HIDE DEF Hit, At
    <3> QED
      BY <1>1, <1>3, <1>6, <1>9, <2>1, <2>2, <2>3, <2>4, <3>1, <3>2
  <2> QED
    BY <1>4, <2>6, <2>7
<1> QED
    BY <1>8, <1>9

LEMMA NextBegins ==
    ASSUME TypeOK, TypeOK', Shape, Shape', FilesInOrder, LogGrows, Idle, TakenBegins,
           [Next]_vars
    PROVE  TakenBegins'
<1>0. broke = TRUE \/ broke = FALSE
    BY DEF TypeOK
<1>1. CASE /\ Taken' = Taken /\ broke' = broke
           /\ tail'.position = tail.position /\ tail'.filter = tail.filter
           /\ \A s \in Streams : tail'.file[s] = tail.file[s] \/ tail.file[s] = 0
    BY <1>1, BeginsStay DEF TakenBegins
<1>2. CASE UNCHANGED <<tail, channel, got, broke>>
  <2>1. Taken' = Taken
    BY <1>2 DEF Taken
  <2> QED
    BY <1>1, <1>2, <2>1
<1>3. ASSUME NEW s \in Streams, NothingToRead(s)
      PROVE  TakenBegins'
  <2>1. tail' = NextTurn(tail) /\ tail \in TailTask /\ broke' = broke
    BY <1>3 DEF NothingToRead, TypeOK
  <2>2. Taken' = Taken
    BY <1>3, TurnGoesForward
  <2>3. /\ tail'.position = tail.position /\ tail'.filter = tail.filter
        /\ tail'.file = tail.file
    BY <2>1, NextTurnIs
  <2> QED
    BY <1>1, <2>1, <2>2, <2>3
<1>4. ASSUME NEW s \in Streams, TailOpens(s)
      PROVE  TakenBegins'
  <2>1. /\ tail' = [tail EXCEPT !.file[s] = path[s]] /\ tail.file[s] = 0 /\ broke' = broke
    BY <1>4 DEF TailOpens
  <2>2. Taken' = Taken
    BY <1>4, TurnGoesForward
  <2>3. /\ tail'.position = tail.position /\ tail'.filter = tail.filter
        /\ tail'.file = [tail.file EXCEPT ![s] = path[s]]
        /\ tail.file \in [Streams -> 0 .. MaxFiles]
    BY <2>1 DEF TypeOK, TailTask
  <2>4. \A u \in Streams : tail'.file[u] = tail.file[u] \/ tail.file[u] = 0
    BY <2>1, <2>3
  <2> QED
    BY <1>1, <2>1, <2>2, <2>3, <2>4
<1>5. ASSUME NEW s \in Streams, TailReadFails(s)
      PROVE  TakenBegins'
    BY <1>5 DEF TailReadFails, TakenBegins
<1>6. ASSUME NEW s \in Streams, ReadsNext(s)
      PROVE  TakenBegins'
    BY <1>6, BeginsGrow
<1>7. Sends => TakenBegins'
  <2> SUFFICES ASSUME Sends PROVE TakenBegins'
    OBVIOUS
  <2>1. tail' = NextTurn(tail) /\ tail \in TailTask /\ broke' = broke
    BY DEF Sends, TypeOK
  <2>2. Taken' = Taken
    BY SendsKeeps
  <2>3. /\ tail'.position = tail.position /\ tail'.filter = tail.filter
        /\ tail'.file = tail.file
    BY <2>1, NextTurnIs
  <2> QED
    BY <1>1, <2>1, <2>2, <2>3
<1>8. Receives => TakenBegins'
  <2> SUFFICES ASSUME Receives PROVE TakenBegins'
    OBVIOUS
  <2>1. tail' = tail /\ broke' = broke
    BY DEF Receives
  <2>2. Taken' = Taken
    BY ReceivesKeeps
  <2> QED
    BY <1>1, <2>1, <2>2
<1>9. ASSUME NEW wanted \in SUBSET Streams, NEW filter \in BOOLEAN, StreamLogs(wanted, filter)
      PROVE  TakenBegins'
  <2>1. /\ Taken' = <<>>
        /\ \A s \in Streams : tail'.file[s] = 0 /\ tail'.position[s] = 0
    BY <1>9, NewTailTakes
  <2>2. DOMAIN <<>> = {} /\ 1 .. 0 = {}
    OBVIOUS
  <2>3. \A s \in Streams : TakenOf(s)' = {} /\ PassedOf(s)' = {}
    BY <2>1, <2>2 DEF TakenOf, PassedOf
  <2> QED
    BY <2>1, <2>3 DEF TakenBegins
<1>10. CASE UNCHANGED vars
    BY <1>2, <1>10, TailRests
<1>11. CASE Next
    BY <1>2, <1>3, <1>4, <1>5, <1>6, <1>7, <1>8, <1>9, <1>11, TailRests, NextCases
<1> QED
    BY <1>10, <1>11

-----------------------------------------------------------------------------
(* The inductive invariant, and what follows from it. *)

LogInvariant ==
    /\ TypeOK
    /\ Shape
    /\ FilesInOrder
    /\ ReadEnds
    /\ TailBehind
    /\ TakenBegins

LEMMA InitLog == Init => LogInvariant
<1> SUFFICES ASSUME Init PROVE LogInvariant
    OBVIOUS
<1>1. TypeOK /\ Shape
    BY InitTyped
<1>2. FilesInOrder
  <2>1. \A s \in Streams : files[s] = <<>>
    BY DEF Init
  <2>2. DOMAIN <<>> = {}
    OBVIOUS
  <2>3. \A s \in Streams : Places(s) = {}
    BY <2>1, <2>2 DEF Places
  <2> QED
    BY <2>3 DEF FilesInOrder
<1>3. ReadEnds
  <2>1. read.entries = {} /\ read.seen = {}
    BY DEF Init, NoRead
  <2> QED
    BY <2>1, FS_EmptySet DEF ReadEnds
<1>4. Taken = <<>> /\ Idle /\ \A s \in Streams : tail.file[s] = 0 /\ tail.position[s] = 0
    BY DEF Init, Taken, Idle, NoTail
<1>5. TakenBegins
  <2>1. DOMAIN <<>> = {} /\ 1 .. 0 = {}
    OBVIOUS
  <2>2. \A s \in Streams : TakenOf(s) = {} /\ PassedOf(s) = {}
    BY <1>4, <2>1 DEF TakenOf, PassedOf
  <2> QED
    BY <1>4, <2>2 DEF TakenBegins
<1> QED
    BY <1>1, <1>2, <1>3, <1>4, <1>5, NothingTaken DEF LogInvariant

LEMMA NextLog == LogInvariant /\ [Next]_vars => LogInvariant'
<1> SUFFICES ASSUME LogInvariant, [Next]_vars PROVE LogInvariant'
    OBVIOUS
<1>1. TypeOK /\ Shape /\ FilesInOrder /\ ReadEnds /\ TailBehind /\ TakenBegins /\ Idle
    BY DEF LogInvariant, TailBehind
<1>2. TypeOK' /\ Shape' /\ LogGrows
    BY <1>1, NextTyped, NextGrows
<1> QED
    BY <1>1, <1>2, NextInOrder, NextEnds, NextBehind, NextBegins DEF LogInvariant

LEMMA LogHolds == Spec => []LogInvariant
BY InitLog, NextLog, PTL DEF Spec

\* The variables of a reader and of the log keep their shapes, and the channel of a
\* tail never holds more than its capacity.
THEOREM TypeCorrectness == Spec => []TypeOK
<1>1. LogInvariant => TypeOK
    BY DEF LogInvariant
<1> QED
    BY <1>1, LogHolds, PTL

\* The answer of read_logs is the newest lines of what the call came across, as
\* many as were asked for, however the two files were cut on their own.
THEOREM AnswersShowTheNewest == Spec => []ShowsNewest
<1>1. LogInvariant => ShowsNewest
    BY NewestShown DEF LogInvariant
<1> QED
    BY <1>1, LogHolds, PTL

\* Of each stream the answer of read_logs is an end of its file, without gaps.
THEOREM AnswersShowEnds == Spec => []ShowsEnds
<1>1. LogInvariant => ShowsEnds
    BY EndsShown DEF LogInvariant
<1> QED
    BY <1>1, LogHolds, PTL

\* A tail gives a stream's lines once and in the order they were written in, through
\* rotations, deletions and reads that fail and start again.
THEOREM LinesArriveInOrder == Spec => []ArriveInOrder
<1>1. LogInvariant => ArriveInOrder
    BY DEF LogInvariant, TailBehind
<1> QED
    BY <1>1, LogHolds, PTL

\* Until a read fails, what a tail has taken of a stream is all that its file begins
\* with, less what the filter hides.
THEOREM NoLineIsLost == Spec => []NothingLost
<1>1. LogInvariant => NothingLost
    BY BeginsLoseNothing DEF LogInvariant
<1> QED
    BY <1>1, LogHolds, PTL

-----------------------------------------------------------------------------
(* Late lines can arrive. *)

\* What is on its way is where a step can take it from: in the channel, in the
\* task's hands, or ahead of its tailer in the file it has open.
LateLinesAreAhead ==
    \A number \in Numbers : OnItsWay(number) =>
        \/ \E line \in ToSet(channel) \cup ToSet(tail.entry) : line.n = number
        \/ \E s \in tail.wanted :
              /\ HasLine(s)
              /\ \E m \in (tail.position[s] + 1) .. Len(files[s][tail.file[s]]) :
                    files[s][tail.file[s]][m].n = number

\* Each line that was taken has been received, waits in the channel or is being sent.
LEMMA TakenIsInPlace ==
    ASSUME got \in Seq(Line), channel \in Seq(Line), tail.entry \in Seq(Line),
           NEW i \in DOMAIN Taken
    PROVE  Taken[i] \in ToSet(got) \cup ToSet(channel) \cup ToSet(tail.entry)
<1> DEFINE first == got \o channel
<1>1. /\ first \in Seq(Line) /\ Len(first) = Len(got) + Len(channel)
      /\ Taken = first \o tail.entry
    BY DEF Taken
<1>2. /\ Len(got) \in Nat /\ Len(channel) \in Nat /\ Len(tail.entry) \in Nat
      /\ DOMAIN got = 1 .. Len(got) /\ DOMAIN channel = 1 .. Len(channel)
      /\ DOMAIN tail.entry = 1 .. Len(tail.entry)
    OBVIOUS
<1>3. CASE i <= Len(first)
  <2>1. i \in 1 .. Len(first) /\ Taken[i] = first[i]
    BY <1>1, <1>2, <1>3
  <2>2. CASE i <= Len(got)
    <3>1. i \in DOMAIN got /\ first[i] = got[i]
      BY <1>2, <2>1, <2>2
    <3> QED
      BY <2>1, <3>1 DEF ToSet
  <2>3. CASE Len(got) < i
    <3>1. i - Len(got) \in DOMAIN channel /\ first[i] = channel[i - Len(got)]
      BY <1>1, <1>2, <2>1, <2>3
    <3> QED
      BY <2>1, <3>1 DEF ToSet
  <2> QED
    BY <1>2, <2>1, <2>2, <2>3
<1>4. CASE Len(first) < i
  <2>1. PICK entry \in Seq(Line) : entry = tail.entry
    OBVIOUS
  <2> HIDE DEF first
  <2>2. Taken = first \o entry /\ first \in Seq(Line)
    BY <1>1, <2>1
  <2>3. i - Len(first) \in DOMAIN entry /\ Taken[i] = entry[i - Len(first)]
    BY <1>4, <2>2
  <2> QED
    BY <2>1, <2>3 DEF ToSet
<1>5. i \in Nat
    BY <1>1
<1> QED
    BY <1>1, <1>2, <1>3, <1>4, <1>5

\* A line that the receiver has still to get is never behind its tailer and nowhere
\* else: all that it takes for it to arrive are steps of the task of LogStream::new
\* and calls of LogStream::next.
THEOREM LateLinesCanArrive == Spec => []LateLinesAreAhead
<1>1. LogInvariant => LateLinesAreAhead
  <2> SUFFICES ASSUME LogInvariant, ~broke, NEW number \in Numbers, NEW s \in tail.wanted,
                      tail.file[s] # 0,
                      NEW line \in ToSet(files[s][tail.file[s]]),
                      line.n = number, Passes(line, tail.filter), line \notin ToSet(got)
               PROVE  \/ line \in ToSet(channel) \cup ToSet(tail.entry)
                      \/ /\ HasLine(s)
                         /\ \E m \in (tail.position[s] + 1) .. Len(files[s][tail.file[s]]) :
                               files[s][tail.file[s]][m].n = number
    BY DEF LateLinesAreAhead, OnItsWay
  <2> DEFINE file == files[s][tail.file[s]]
             k == tail.position[s]
  <2>1. s \in Streams
    BY DEF LogInvariant, TypeOK, TailTask
  <2>2. file \in Seq(Line) /\ k \in Nat
    <3>1. tail.file[s] \in DOMAIN files[s] /\ files[s] \in Seq(Seq(Line))
      BY <2>1 DEF LogInvariant, Shape, TypeOK
    <3>2. file \in Seq(Line)
      BY <3>1
    <3> QED
      BY <2>1, <3>2, Bounds DEF LogInvariant, TypeOK, TailTask
  <2>3. PICK m \in DOMAIN file : file[m] = line
    BY DEF ToSet
  <2> HIDE DEF file, k
  <2>4. DOMAIN file = 1 .. Len(file) /\ Len(file) \in Nat
    BY <2>2
  <2>5. CASE m <= k
    <3>1. LineAt(s, <<tail.file[s], m>>) = line
      BY <2>3 DEF LineAt, file
    <3>2. line \in PassedOf(s)
      BY <2>2, <2>4, <2>5, <3>1 DEF PassedOf, k
    <3>3. line \in TakenOf(s)
      BY <2>1, <3>2 DEF LogInvariant, TakenBegins
    <3>4. PICK i \in DOMAIN Taken : Taken[i] = line
      BY <3>3 DEF TakenOf
    <3>5. line \in ToSet(got) \cup ToSet(channel) \cup ToSet(tail.entry)
      <4>1. got \in Seq(Line) /\ channel \in Seq(Line) /\ tail.entry \in Seq(Line)
        BY DEF LogInvariant, TypeOK, TailTask
      <4> QED
        BY <3>4, <4>1, TakenIsInPlace
    <3> QED
      BY <3>5
  <2>6. CASE k < m
    <3>1. m \in (k + 1) .. Len(file) /\ k < Len(file)
      BY <2>2, <2>4, <2>6
    <3>2. HasLine(s)
      BY <3>1 DEF HasLine, file, k
    <3> QED
      BY <2>3, <3>1, <3>2 DEF file, k
  <2> QED
    BY <2>2, <2>4, <2>5, <2>6
<1> QED
    BY <1>1, LogHolds, PTL

=============================================================================
