---------------------------- MODULE DaemonProofs ----------------------------
(***************************************************************************)
(* Theorems about Daemon, for any names, services, clients and modes.      *)
(*                                                                         *)
(* IInv is the inductive invariant: while the main task stops and saves it *)
(* is the one that holds the lock, a connection that runs a command holds  *)
(* it otherwise, and so no child comes to life between stop_all and the    *)
(* rename.  The temporary file holds the table when it is renamed.         *)
(***************************************************************************)
EXTENDS Daemon, TLAPS

Saving   == {"create", "write", "rename"}
Shutting == {"stop"} \cup Saving

LockHeld ==
    /\ main.step \in Shutting <=> lock = "main"
    /\ \A c \in Clients : conns[c].step = "busy" => lock = c

NothingStarts ==
    /\ main.step = "stop" => alive \subseteq main.todo \cup main.wait
    /\ main.step \in Saving => alive = {}

TempIsTable == main.step = "rename" => temp.state = "whole" /\ temp.names = Table

\* A torn file keeps daemons from starting, so `end' stays what it was.
FileKept == disk.state = "torn" => end = "power" /\ main.step = "down"

IInv == TypeOK /\ LockHeld /\ NothingStarts /\ TempIsTable /\ FileKept

-----------------------------------------------------------------------------
(* Typing. *)

LEMMA EmptyTable == DOMAIN <<>> = {} /\ <<>> \in [{} -> {"Running", "Stopped"}]
<1>1. DOMAIN <<>> = {}
    OBVIOUS
<1> QED
    BY <1>1

LEMMA NothingTypeOK ==
    /\ Down \in MainTask
    /\ [c \in Clients |-> Closed] \in [Clients -> Connection]
    /\ {Absent, Torn} \subseteq File
BY DEF Down, Closed, Absent, Torn, MainTask, Connection, File

LEMMA InitTypeOK == Init => TypeOK
BY EmptyTable, NothingTypeOK DEF Init, TypeOK, Table

LEMMA SpawnedTypeOK ==
    ASSUME TypeOK, NEW n \in Names, Spawned(n)
    PROVE  /\ table' \in [Table' -> {"Running", "Stopped"}]
           /\ alive' \subseteq Table' /\ Table' \subseteq Names
BY DEF TypeOK, Spawned, Table

\* A connection that has its reply.
LEMMA AnsweredIsConnection ==
    ASSUME NEW step \in {"queued", "ok", "error"}
    PROVE  /\ [Closed EXCEPT !.step = step] \in Connection
           /\ [Closed EXCEPT !.step = step].step = step
<1>1. <<>> \in Seq(Services)
    OBVIOUS
<1> QED
    BY <1>1 DEF Closed, Connection

LEMMA ReplyTypeOK ==
    ASSUME TypeOK, NEW c \in Clients, NEW ok \in BOOLEAN, Reply(c, ok)
    PROVE  /\ conns' \in [Clients -> Connection]
           /\ lock' = "free"
           /\ \A d \in Clients : conns'[d].step = "busy" => d # c /\ conns[d].step = "busy"
<1> DEFINE step == IF ok THEN "ok" ELSE "error"
<1>1. [Closed EXCEPT !.step = step] \in Connection /\ [Closed EXCEPT !.step = step].step = step
    BY AnsweredIsConnection
<1>2. conns' = [conns EXCEPT ![c] = [Closed EXCEPT !.step = step]] /\ lock' = "free"
    BY DEF Reply
<1> HIDE DEF step
<1>3. step # "busy"
    BY DEF step
<1> QED
    BY <1>1, <1>2, <1>3 DEF TypeOK

LEMMA RefusedTypeOK ==
    ASSUME TypeOK, NEW c \in Clients, FileRefused(c)
    PROVE  /\ conns' \in [Clients -> Connection]
           /\ \A d \in Clients : conns'[d].step = "busy" => conns[d].step = "busy"
<1>1. [Closed EXCEPT !.step = "error"] \in Connection
    BY AnsweredIsConnection
<1>2. [Closed EXCEPT !.step = "error"].step = "error"
    BY AnsweredIsConnection
<1>3. conns' = [conns EXCEPT ![c] = [Closed EXCEPT !.step = "error"]]
    BY DEF FileRefused
<1> QED
    BY <1>1, <1>2, <1>3 DEF TypeOK

LEMMA EndsTypeOK == ASSUME TypeOK, NEW how \in {"clean", "error", "killed", "interrupted", "terminated"}, Ends(how)
                    PROVE  TypeOK'
BY EmptyTable, NothingTypeOK DEF TypeOK, Ends, Table

LEMMA MainTypeOK == TypeOK /\ MainStep => TypeOK'
<1> SUFFICES ASSUME TypeOK, MainStep PROVE TypeOK'
    OBVIOUS
<1>1. ASSUME NEW n \in Names, Restore(n) PROVE TypeOK'
    BY <1>1, SpawnedTypeOK DEF Restore, TypeOK, MainTask, files
<1>2. ASSUME NEW n \in Names, RestoreFails(n) PROVE TypeOK'
    BY <1>2 DEF RestoreFails, TypeOK, MainTask, files, children, Table
<1>3. ASSUME NEW n \in Names, StopSignals(n) PROVE TypeOK'
    BY <1>3 DEF StopSignals, TypeOK, MainTask, files, children, Table
<1>4. ASSUME NEW n \in Names, StopReturns(n) PROVE TypeOK'
    BY <1>4 DEF StopReturns, TypeOK, MainTask, files, Table
<1>5. CASE RestoreEnds
    BY <1>5 DEF RestoreEnds, Goto, TypeOK, MainTask, files, children, Table
<1>6. CASE Bind
    BY <1>6 DEF Bind, Goto, TypeOK, MainTask, files, children, Table
<1>7. CASE BindFails
    BY <1>7, EndsTypeOK DEF BindFails
<1>8. CASE StopAccepting
    BY <1>8 DEF StopAccepting, Goto, TypeOK, MainTask, files, children, Table
<1>9. CASE LockForShutdown
    BY <1>9 DEF LockForShutdown, TypeOK, MainTask, files, children, Table
<1>10. CASE StopEnds
    BY <1>10 DEF StopEnds, Goto, TypeOK, MainTask, files, children, Table
<1>11. CASE SaveCreates
    BY <1>11 DEF SaveCreates, Goto, TypeOK, MainTask, children, Table, Torn, File
<1>12. CASE SaveWrites
    BY <1>12 DEF SaveWrites, Goto, TypeOK, MainTask, children, Table, File
<1>13. CASE SaveRenames
    BY <1>13 DEF SaveRenames, Goto, TypeOK, MainTask, children, Table, Absent, File
<1>14. CASE SaveFails
    BY <1>14 DEF SaveFails, Goto, TypeOK, MainTask, files, children, Table
<1>15. CASE Exit
    BY <1>15, EndsTypeOK DEF Exit
<1> QED
    BY <1>1, <1>2, <1>3, <1>4, <1>5, <1>6, <1>7, <1>8, <1>9, <1>10, <1>11, <1>12, <1>13,
       <1>14, <1>15 DEF MainStep

LEMMA ConnTypeOK == ASSUME TypeOK, NEW c \in Clients, ConnStep(c) PROVE TypeOK'
<1>1. CASE Enter(c)
    BY <1>1 DEF Enter, TypeOK, Connection, files, children, Table
<1>2. ASSUME NEW n \in Names, NEW logged \in BOOLEAN, StartOne(c, n, logged) PROVE TypeOK'
  <2> DEFINE counted == IF logged THEN conns[c].counted \cup {n} ELSE conns[c].counted
             conn == [conns[c] EXCEPT !.asked = @ \ {n}, !.counted = counted]
  <2>0. conns[c] \in Connection /\ counted \subseteq Names
    BY DEF TypeOK, Connection
  <2>1. conns' \in [Clients -> Connection]
    <3>1. conn \in Connection
      BY <2>0 DEF Connection
    <3>2. conns' = [conns EXCEPT ![c] = conn]
      BY <1>2, <2>0 DEF StartOne, Starting, Launching, Connection
    <3> QED
      BY <3>1, <3>2 DEF TypeOK
  <2>2. Spawned(n)
    BY <1>2 DEF StartOne
  <2>3. UNCHANGED <<main, lock, signal, files, end>>
    BY <1>2 DEF StartOne
  <2> QED
    BY <2>1, <2>2, <2>3, SpawnedTypeOK DEF TypeOK, files
<1>3. ASSUME NEW n \in Names, StartOneFails(c, n) PROVE TypeOK'
    BY <1>3 DEF StartOneFails, Starting, Launching, TypeOK, Connection, files, children, Table
<1>4. ASSUME NEW n \in Names, StopOne(c, n) PROVE TypeOK'
    BY <1>4, ReplyTypeOK DEF StopOne, TypeOK, files, Table
<1>5. ASSUME NEW n \in Names, DeleteOne(c, n) PROVE TypeOK'
    BY <1>5, ReplyTypeOK DEF DeleteOne, TypeOK, files, Table, Restrict
<1>6. CASE StartReplies(c)
  <2>1. PICK ok \in BOOLEAN : Reply(c, ok)
    BY <1>6, Zenon DEF StartReplies
  <2> QED
    BY <1>6, <2>1, ReplyTypeOK DEF StartReplies, TypeOK, files, children, Table
<1>7. CASE NotFound(c)
    BY <1>7, ReplyTypeOK DEF NotFound, TypeOK, files, children, Table
<1>8. CASE Close(c)
    BY <1>8 DEF Close, Closed, TypeOK, Connection, files, children, Table
<1>9. CASE FileRefused(c)
    BY <1>9, RefusedTypeOK DEF FileRefused, TypeOK, files, children, Table
<1>10. CASE NextService(c)
  <2> DEFINE service == Head(conns[c].services)
             asked == IF conns[c].call = "reload" /\ service.base \in Table THEN {}
                      ELSE service.instances
             conn == [conns[c] EXCEPT !.services = Tail(@), !.asked = asked]
  <2>1. conns[c] \in Connection
    BY DEF TypeOK
  <2>2. service \in Services /\ Tail(conns[c].services) \in Seq(Services)
    BY <1>10, <2>1 DEF NextService, Connection
  <2>3. asked \subseteq Names
    BY <2>2, NamesAssumption
  <2>4. conn \in Connection
    BY <2>1, <2>2, <2>3 DEF Connection
  <2>5. conns' = [conns EXCEPT ![c] = conn]
    BY <1>10, <2>1 DEF NextService, Connection
  <2> QED
    BY <1>10, <2>4, <2>5 DEF NextService, TypeOK, files, children, Table
<1> QED
    BY <1>1, <1>2, <1>3, <1>4, <1>5, <1>6, <1>7, <1>8, <1>9, <1>10 DEF ConnStep

LEMMA EnvironmentTypeOK == TypeOK /\ Environment => TypeOK'
<1> SUFFICES ASSUME TypeOK, Environment PROVE TypeOK'
    OBVIOUS
<1>1. ASSUME NEW workers \in Modes, Boot(workers) PROVE TypeOK'
    BY <1>1, ModesAssumption DEF Boot, TypeOK, MainTask, File, files, children, Table
<1>2. ASSUME NEW c \in Clients, NEW call \in {"start", "config", "reload", "stop", "delete"},
             NEW names \in SUBSET Names, NEW services \in Seq(Services),
             Accept(c, call, names, services)
      PROVE TypeOK'
  <2> DEFINE conn == [Closed EXCEPT !.step = "queued", !.call = call, !.asked = names,
                                    !.services = services]
  <2>1. conn \in Connection
    BY DEF Closed, Connection
  <2>2. conns' = [conns EXCEPT ![c] = conn]
    BY <1>2 DEF Accept
  <2> QED
    BY <1>2, <2>1, <2>2 DEF Accept, TypeOK, files, children, Table
<1>3. ASSUME NEW c \in Clients, NEW service \in Services, Accept(c, "start", {}, <<service>>)
      PROVE TypeOK'
  <2>1. <<service>> \in Seq(Services) /\ {} \in SUBSET Names
    BY <1>3
  <2> QED
    BY <1>2, <1>3, <2>1
<1>4. ASSUME NEW n \in Names, ChildExits(n) PROVE TypeOK'
    BY <1>4 DEF ChildExits, TypeOK, tasks, files, Table
<1>5. ASSUME NEW c \in Clients, NEW file \in Files, NEW call \in {"config", "reload"},
             Accept(c, call, {}, file)
      PROVE TypeOK'
    BY <1>2, <1>5, NamesAssumption
<1>11. ASSUME NEW c \in Clients, NEW n \in Names, NEW call \in {"stop", "delete"},
              Accept(c, call, {n}, <<>>)
       PROVE TypeOK'
  <2>1. <<>> \in Seq(Services) /\ {n} \in SUBSET Names
    BY <1>11
  <2> QED
    BY <1>2, <1>11, <2>1
<1>6. CASE Killed
    BY <1>6, EndsTypeOK DEF Killed
<1>7. CASE Interrupted
    BY <1>7, EndsTypeOK DEF Interrupted
<1>8. CASE Terminated
    BY <1>8, EndsTypeOK DEF Terminated
<1>9. CASE TerminateUnheard
    BY <1>9 DEF TerminateUnheard, TypeOK, files, children, Table
<1>10. CASE PowerFails
  <2>1. disk' \in File
    BY <1>10, NothingTypeOK DEF PowerFails, TypeOK, File
  <2> QED
    BY <1>10, <2>1, EmptyTable, NothingTypeOK DEF PowerFails, TypeOK, Table
<1> QED
    BY <1>1, <1>3, <1>4, <1>5, <1>6, <1>7, <1>8, <1>9, <1>10, <1>11 DEF Environment

LEMMA NextTypeOK == TypeOK /\ [Next]_vars => TypeOK'
<1>1. CASE UNCHANGED vars
    BY <1>1 DEF TypeOK, vars, tasks, children, files, Table
<1> QED
    BY <1>1, MainTypeOK, ConnTypeOK, EnvironmentTypeOK DEF Next

-----------------------------------------------------------------------------
(* The other conjuncts of IInv. *)

Core == LockHeld /\ NothingStarts /\ TempIsTable /\ FileKept

LEMMA InitCore == Init => Core
BY ClientsAssumption
   DEF Init, Core, LockHeld, NothingStarts, TempIsTable, FileKept, Shutting, Saving, Down,
       Closed, Absent

\* Where a daemon ends nothing is left to be said of it.
LEMMA EndsCore == ASSUME IInv, NEW how, main.step # "down", Ends(how) PROVE Core'
BY ClientsAssumption
   DEF IInv, Core, LockHeld, NothingStarts, TempIsTable, FileKept, Shutting, Saving, Ends, Down,
       Closed

LEMMA MainCore == IInv /\ MainStep => Core'
<1> SUFFICES ASSUME IInv, MainStep PROVE Core'
    OBVIOUS
<1> USE DEF IInv, Core
<1>1. ASSUME NEW n \in Names, Restore(n) \/ RestoreFails(n) PROVE Core'
  <2>1. main.step = "restore" /\ main'.step = "restore"
    BY <1>1 DEF Restore, RestoreFails, TypeOK, MainTask
  <2>2. UNCHANGED <<lock, conns, disk>>
    BY <1>1 DEF Restore, RestoreFails, files
  <2> QED
    BY <2>1, <2>2 DEF LockHeld, NothingStarts, TempIsTable, FileKept, Shutting, Saving
<1>2. ASSUME NEW n \in Names, StopSignals(n) PROVE Core'
    BY <1>2 DEF StopSignals, TypeOK, MainTask, LockHeld, NothingStarts, TempIsTable, FileKept,
                Shutting, Saving, files, children, Table
<1>3. ASSUME NEW n \in Names, StopReturns(n) PROVE Core'
    BY <1>3 DEF StopReturns, TypeOK, MainTask, LockHeld, NothingStarts, TempIsTable, FileKept,
                Shutting, Saving, files, Table
<1>4. ASSUME RestoreEnds \/ Bind \/ StopAccepting PROVE Core'
    BY <1>4 DEF RestoreEnds, Bind, StopAccepting, Goto, TypeOK, MainTask, LockHeld,
                NothingStarts, TempIsTable, FileKept, Shutting, Saving, files, children,
                Table
<1>5. ASSUME BindFails \/ Exit PROVE Core'
    BY <1>5, EndsCore DEF BindFails, Exit
<1>6. CASE LockForShutdown
    BY <1>6, ClientsAssumption
       DEF LockForShutdown, TypeOK, MainTask, LockHeld, NothingStarts, TempIsTable, FileKept,
           Shutting, Saving, files, children, Table
<1>7. CASE StopEnds
    BY <1>7 DEF StopEnds, Goto, TypeOK, MainTask, LockHeld, NothingStarts, TempIsTable, FileKept,
                Shutting, Saving, files, children, Table
<1>8. ASSUME SaveCreates \/ SaveWrites PROVE Core'
    BY <1>8 DEF SaveCreates, SaveWrites, Goto, TypeOK, MainTask, LockHeld, NothingStarts,
                TempIsTable, FileKept, Shutting, Saving, children, Table
<1>9. ASSUME SaveRenames \/ SaveFails PROVE Core'
    BY <1>9, ClientsAssumption
       DEF SaveRenames, SaveFails, Goto, TypeOK, MainTask, LockHeld, NothingStarts, TempIsTable,
           FileKept, Shutting, Saving, files, children, Table
<1> QED
    BY <1>1, <1>2, <1>3, <1>4, <1>5, <1>6, <1>7, <1>8, <1>9 DEF MainStep

LEMMA ConnCore == ASSUME IInv, NEW c \in Clients, ConnStep(c) PROVE Core'
<1> USE DEF IInv, Core
<1>1. CASE Enter(c)
    BY <1>1, ClientsAssumption
       DEF Enter, TypeOK, Connection, LockHeld, NothingStarts, TempIsTable, FileKept, Shutting,
           Saving, files, children, Table
<1>2. ASSUME NEW n \in Names, NEW logged \in BOOLEAN, StartOne(c, n, logged) PROVE Core'
  <2>1. lock = c /\ lock # "main"
    BY <1>2, ClientsAssumption DEF StartOne, Starting, Launching, LockHeld
  <2>2. UNCHANGED <<main, lock, disk, temp, end>>
    BY <1>2 DEF StartOne, files
  <2>3. \A d \in Clients : conns'[d].step = conns[d].step
    BY <1>2 DEF StartOne, Starting, Launching, TypeOK, Connection
  <2> QED
    BY <2>1, <2>2, <2>3 DEF LockHeld, NothingStarts, TempIsTable, FileKept, Shutting, Saving
<1>3. ASSUME NEW n \in Names, StartOneFails(c, n) PROVE Core'
    BY <1>3 DEF StartOneFails, Starting, Launching, TypeOK, Connection, LockHeld, NothingStarts,
                TempIsTable, FileKept, files, children, Table
<1>4. ASSUME NEW n \in Names, StopOne(c, n) \/ DeleteOne(c, n) PROVE Core'
  <2>1. /\ lock = c /\ lock' = "free"
        /\ \A d \in Clients : conns'[d].step = "busy" => d # c /\ conns[d].step = "busy"
    BY <1>4, ReplyTypeOK DEF StopOne, DeleteOne, LockHeld
  <2>2. main.step \notin Shutting
    BY <2>1, ClientsAssumption DEF LockHeld
  <2> QED
    BY <1>4, <2>1, <2>2
       DEF StopOne, DeleteOne, LockHeld, NothingStarts, TempIsTable, FileKept, Shutting, Saving,
           files
<1>5. ASSUME StartReplies(c) \/ NotFound(c) PROVE Core'
  <2>1. PICK ok \in BOOLEAN : Reply(c, ok)
    BY <1>5, Zenon DEF StartReplies, NotFound
  <2>2. /\ lock = c /\ lock' = "free"
        /\ \A d \in Clients : conns'[d].step = "busy" => d # c /\ conns[d].step = "busy"
    BY <1>5, <2>1, ReplyTypeOK DEF StartReplies, NotFound, Launching, LockHeld
  <2>3. main.step \notin Shutting
    BY <2>2, ClientsAssumption DEF LockHeld
  <2> QED
    BY <1>5, <2>2, <2>3
       DEF StartReplies, NotFound, LockHeld, NothingStarts, TempIsTable, FileKept, Shutting,
           Saving, files, children, Table
<1>6. CASE Close(c)
    BY <1>6 DEF Close, Closed, TypeOK, Connection, LockHeld, NothingStarts, TempIsTable,
                FileKept, files, children, Table
<1>7. ASSUME FileRefused(c) \/ NextService(c) PROVE Core'
  <2>1. \A d \in Clients : conns'[d].step = "busy" => conns[d].step = "busy"
    BY <1>7, RefusedTypeOK DEF NextService, TypeOK, Connection
  <2>2. UNCHANGED <<main, lock, alive, table, disk, temp, end>>
    BY <1>7 DEF FileRefused, NextService, files, children
  <2> QED
    BY <2>1, <2>2 DEF LockHeld, NothingStarts, TempIsTable, FileKept, Table
<1> QED
    BY <1>1, <1>2, <1>3, <1>4, <1>5, <1>6, <1>7 DEF ConnStep

LEMMA EnvironmentCore == IInv /\ Environment => Core'
<1> SUFFICES ASSUME IInv, Environment PROVE Core'
    OBVIOUS
<1> USE DEF IInv, Core
<1>1. ASSUME NEW workers \in Modes, Boot(workers) PROVE Core'
    BY <1>1 DEF Boot, LockHeld, NothingStarts, TempIsTable, FileKept, Shutting, Saving, files,
                children, Table
<1>2. ASSUME NEW c \in Clients, NEW names, NEW call, NEW services,
             Accept(c, call, names, services)
      PROVE Core'
    BY <1>2 DEF Accept, TypeOK, Closed, Connection, LockHeld, NothingStarts, TempIsTable,
                FileKept, files, children, Table
<1>3. ASSUME NEW n \in Names, ChildExits(n) PROVE Core'
    BY <1>3 DEF ChildExits, LockHeld, NothingStarts, TempIsTable, FileKept, tasks,
                files, Table
<1>4. ASSUME Killed \/ Interrupted \/ Terminated PROVE Core'
    BY <1>4, EndsCore DEF Killed, Interrupted, Terminated
<1>5. CASE TerminateUnheard
    BY <1>5 DEF TerminateUnheard, LockHeld, NothingStarts, TempIsTable, FileKept, files,
                children, Table
<1>6. CASE PowerFails
    BY <1>6, ClientsAssumption
       DEF PowerFails, Down, Closed, LockHeld, NothingStarts, TempIsTable, FileKept, Shutting,
           Saving
<1> QED
    BY <1>1, <1>2, <1>3, <1>4, <1>5, <1>6 DEF Environment

LEMMA NextCore == IInv /\ [Next]_vars => Core'
<1>1. CASE UNCHANGED vars
    BY <1>1 DEF IInv, Core, LockHeld, NothingStarts, TempIsTable, FileKept, vars, tasks, children,
                files, Table
<1> QED
    BY <1>1, MainCore, ConnCore, EnvironmentCore DEF Next

LEMMA Invariance == Spec => []IInv
<1>1. Init => IInv
    BY InitTypeOK, InitCore DEF IInv, Core
<1>2. IInv /\ [Next]_vars => IInv'
    BY NextTypeOK, NextCore DEF IInv, Core
<1> QED
    BY <1>1, <1>2, PTL DEF Spec

-----------------------------------------------------------------------------
(* The theorems. *)

\* The variables of the daemon, its children and its files keep their shape.
THEOREM TypeCorrectness == Spec => []TypeOK
<1>1. IInv => TypeOK
    BY DEF IInv
<1> QED
    BY <1>1, Invariance, PTL

\* However the daemon ends (StateStore::save writes beside the state file and
\* renames), only a power failure can leave the state file torn.
THEOREM KillsNeverTear == Spec => []KillKeepsFile
<1>1. IInv => KillKeepsFile
    BY DEF IInv, FileKept, KillKeepsFile
<1> QED
    BY <1>1, Invariance, PTL

\* Only the rename of a shutdown changes the state file, and what it then
\* lists is the table, none of whose children is alive (shutdown_components
\* keeps the process manager's lock from stop_all to save).
THEOREM ShutdownSavesWhatItStopped == Spec => SavesWhatItStopped
<1> DEFINE Saves == disk' # disk /\ end' # "power" => disk'.names = Table /\ alive = {}
<1>1. IInv /\ [Next]_vars => [Saves]_vars
  <2> SUFFICES ASSUME IInv, Next PROVE Saves
    OBVIOUS
  <2>1. CASE SaveRenames
    BY <2>1 DEF SaveRenames, IInv, NothingStarts, TempIsTable, Saving
  <2>2. CASE PowerFails
    BY <2>2 DEF PowerFails
  <2>3. CASE ~SaveRenames /\ ~PowerFails
    <3>1. disk' = disk
      BY <2>3 DEF Next, MainStep, ConnStep, Environment, Restore, RestoreFails, StopSignals,
          StopReturns, RestoreEnds, Bind, BindFails, StopAccepting, LockForShutdown, StopEnds,
          SaveCreates, SaveWrites, SaveFails, Exit, Enter, StartOne, StartOneFails, StopOne,
          DeleteOne, StartReplies, NotFound, Close, Boot, Accept, ChildExits, FileRefused, NextService,
          Killed, Interrupted, Terminated, TerminateUnheard, Ends, files
    <3> QED
      BY <3>1
  <2> QED
    BY <2>1, <2>2, <2>3
<1> QED
    BY <1>1, Invariance, PTL DEF Spec, SavesWhatItStopped

-----------------------------------------------------------------------------
(* Replies.  A connection that runs a command has the lock, so nobody stops   *)
(* or deletes what it has counted.                                            *)

RunningNow(n) == n \in Table /\ table[n] = "Running"

CountedRun ==
    \A c \in Clients : /\ conns[c].step # "busy" => conns[c].counted = {}
                       /\ \A n \in conns[c].counted : RunningNow(n)

\* A step that leaves the connections alone and takes no entry of theirs away.
LEMMA CountedFrame ==
    ASSUME CountedRun, UNCHANGED conns, \A n : RunningNow(n) => RunningNow(n)'
    PROVE  CountedRun'
BY DEF CountedRun

LEMMA SpawnedKeeps ==
    ASSUME NEW m, Spawned(m), NEW n, RunningNow(n) PROVE RunningNow(n)'
BY DEF Spawned, RunningNow, Table

LEMMA ClosedCounts == Closed.counted = {} /\ Closed.step = "closed"
BY DEF Closed

LEMMA EndsCounted == ASSUME NEW how, Ends(how) PROVE CountedRun'
BY ClosedCounts DEF Ends, CountedRun

LEMMA MainCounted == IInv /\ CountedRun /\ MainStep => CountedRun'
<1> SUFFICES ASSUME IInv, CountedRun, MainStep PROVE CountedRun'
    OBVIOUS
<1>1. ASSUME NEW n \in Names, Restore(n) PROVE CountedRun'
    BY <1>1, CountedFrame, SpawnedKeeps DEF Restore
<1>2. ASSUME NEW n \in Names, StopReturns(n) PROVE CountedRun'
  <2>1. lock = "main"
    BY <1>2 DEF IInv, LockHeld, Shutting, StopReturns
  <2>2. \A c \in Clients : conns[c].step # "busy"
    BY <2>1, ClientsAssumption DEF IInv, LockHeld
  <2>3. conns' = conns
    BY <1>2 DEF StopReturns
  <2> QED
    BY <2>2, <2>3 DEF CountedRun
<1>3. CASE BindFails \/ Exit
    BY <1>3, EndsCounted DEF BindFails, Exit
<1>4. CASE UNCHANGED <<table, conns>>
    BY <1>4, CountedFrame DEF RunningNow, Table
<1> QED
    BY <1>1, <1>2, <1>3, <1>4
       DEF MainStep, RestoreFails, StopSignals, RestoreEnds, Bind, StopAccepting,
           LockForShutdown, StopEnds, SaveCreates, SaveWrites, SaveRenames, SaveFails, children

LEMMA ReplyCounted ==
    ASSUME IInv, CountedRun, NEW c \in Clients, NEW ok \in BOOLEAN, Reply(c, ok), lock = c
    PROVE  CountedRun'
<1> DEFINE step == IF ok THEN "ok" ELSE "error"
<1>1. conns' = [conns EXCEPT ![c] = [Closed EXCEPT !.step = step]]
    BY DEF Reply
<1>2. [Closed EXCEPT !.step = step].counted = {}
    BY DEF Closed
<1>3. conns'[c].counted = {} /\ \A d \in Clients : d # c => conns'[d] = conns[d]
    BY <1>1, <1>2 DEF IInv, TypeOK
<1>4. \A d \in Clients : d # c => conns[d].counted = {}
    BY DEF IInv, LockHeld, CountedRun
<1> QED
    BY <1>3, <1>4 DEF CountedRun

LEMMA ConnCounted ==
    ASSUME IInv, CountedRun, NEW c \in Clients, ConnStep(c) PROVE CountedRun'
<1>0. conns \in [Clients -> Connection]
    BY DEF IInv, TypeOK
<1>1. ASSUME NEW n \in Names, NEW logged \in BOOLEAN, StartOne(c, n, logged) PROVE CountedRun'
  <2> DEFINE counted == IF logged THEN conns[c].counted \cup {n} ELSE conns[c].counted
  <2>1. /\ conns'[c].counted = counted
        /\ conns'[c].step = "busy"
        /\ \A d \in Clients : d # c => conns'[d] = conns[d]
    BY <1>0, <1>1 DEF StartOne, Starting, Launching, Connection
  <2>2. RunningNow(n)'
    BY <1>1 DEF StartOne, Spawned, RunningNow, Table
  <2>3. \A m : RunningNow(m) => RunningNow(m)'
    BY <1>1, SpawnedKeeps DEF StartOne
  <2>4. \A m \in counted : RunningNow(m)'
    BY <2>2, <2>3 DEF CountedRun
  <2> QED
    BY <2>1, <2>3, <2>4 DEF CountedRun
<1>2. ASSUME NEW n \in Names, StopOne(c, n) \/ DeleteOne(c, n) PROVE CountedRun'
  <2>1. lock = c /\ Reply(c, TRUE)
    BY <1>2 DEF StopOne, DeleteOne, IInv, LockHeld
  <2> QED
    BY <2>1, ReplyCounted
<1>3. CASE StartReplies(c) \/ NotFound(c)
  <2>1. PICK ok \in BOOLEAN : Reply(c, ok)
    BY <1>3, Zenon DEF StartReplies, NotFound
  <2>2. lock = c
    BY <1>3 DEF StartReplies, NotFound, Launching, IInv, LockHeld
  <2> QED
    BY <2>1, <2>2, ReplyCounted
<1>4. CASE FileRefused(c) \/ Close(c)
  <2>1. PICK conn : conns' = [conns EXCEPT ![c] = conn] /\ conn.counted = {}
    BY <1>4 DEF FileRefused, Close, Closed
  <2>2. conns'[c].counted = {} /\ \A d \in Clients : d # c => conns'[d] = conns[d]
    BY <1>0, <2>1
  <2>3. UNCHANGED table
    BY <1>4 DEF FileRefused, Close, children
  <2> QED
    BY <2>2, <2>3 DEF CountedRun, RunningNow, Table
<1>5. CASE Enter(c) \/ NextService(c) \/ \E n \in Names : StartOneFails(c, n)
  <2>1. /\ conns'[c].counted = conns[c].counted
        /\ conns'[c].step = "busy"
        /\ \A d \in Clients : d # c => conns'[d] = conns[d]
    BY <1>0, <1>5 DEF Enter, NextService, StartOneFails, Starting, Launching, Connection
  <2>2. UNCHANGED table
    BY <1>5 DEF Enter, NextService, StartOneFails, children
  <2> QED
    BY <2>1, <2>2 DEF CountedRun, RunningNow, Table
<1> QED
    BY <1>1, <1>2, <1>3, <1>4, <1>5 DEF ConnStep

LEMMA EnvironmentCounted == IInv /\ CountedRun /\ Environment => CountedRun'
<1> SUFFICES ASSUME IInv, CountedRun, Environment PROVE CountedRun'
    OBVIOUS
<1>1. ASSUME NEW c \in Clients, NEW call, NEW names, NEW services,
             Accept(c, call, names, services)
      PROVE CountedRun'
  <2> DEFINE conn == [Closed EXCEPT !.step = "queued", !.call = call,
                                   !.asked = names, !.services = services]
  <2>1. conns' = [conns EXCEPT ![c] = conn]
    BY <1>1 DEF Accept
  <2>0. conn.counted = {}
    BY DEF Closed
  <2>2. conns'[c].counted = {} /\ \A d \in Clients : d # c => conns'[d] = conns[d]
    BY <2>1, <2>0 DEF IInv, TypeOK
  <2>3. UNCHANGED table
    BY <1>1 DEF Accept, children
  <2> QED
    BY <2>2, <2>3 DEF CountedRun, RunningNow, Table
<1>2. CASE Killed \/ Interrupted \/ Terminated
    BY <1>2, EndsCounted DEF Killed, Interrupted, Terminated
<1>3. CASE PowerFails
    BY <1>3, ClosedCounts DEF PowerFails, CountedRun
<1>4. CASE UNCHANGED <<table, conns>>
    BY <1>4, CountedFrame DEF RunningNow, Table
<1> QED
    BY <1>1, <1>2, <1>3, <1>4 DEF Environment, Boot, ChildExits, TerminateUnheard, children, tasks

\* A connection's step writes no other connection.
LEMMA OneConnection ==
    ASSUME NEW c \in Clients, conns \in [Clients -> Connection], ConnStep(c)
    PROVE  \E conn : conns' = [conns EXCEPT ![c] = conn]
<1> SUFFICES conns' = [conns EXCEPT ![c] = conns'[c]]
    OBVIOUS
<1>1. ASSUME NEW conn, conns' = [conns EXCEPT ![c] = conn]
      PROVE  conns' = [conns EXCEPT ![c] = conns'[c]]
    BY <1>1
<1>2. CASE Enter(c) \/ NextService(c)
    BY <1>2 DEF Enter, NextService
<1>3. CASE FileRefused(c)
    BY <1>1, <1>3 DEF FileRefused
<1>4. ASSUME NEW n \in Names,
             StartOneFails(c, n) \/ \E logged \in BOOLEAN : StartOne(c, n, logged)
      PROVE  conns' = [conns EXCEPT ![c] = conns'[c]]
    BY <1>4 DEF StartOne, StartOneFails
<1>5. ASSUME NEW ok, Reply(c, ok) PROVE conns' = [conns EXCEPT ![c] = conns'[c]]
    BY <1>1, <1>5 DEF Reply
<1>6. CASE Close(c)
    BY <1>1, <1>6 DEF Close
<1> QED
    BY <1>2, <1>3, <1>4, <1>5, <1>6
       DEF ConnStep, StopOne, DeleteOne, StartReplies, NotFound

LEMMA CountedInvariance == Spec => [](IInv /\ CountedRun)
<1>1. Init => CountedRun
    BY ClosedCounts DEF Init, CountedRun
<1>2. IInv /\ CountedRun /\ [Next]_vars => CountedRun'
  <2>1. CASE UNCHANGED vars
    BY <2>1, CountedFrame DEF vars, tasks, children, RunningNow, Table
  <2> QED
    BY <2>1, MainCounted, ConnCounted, EnvironmentCounted DEF Next
<1> QED
    BY <1>1, <1>2, Invariance, PTL DEF Spec

\* A start or a configuration file is answered with success only while all that
\* the answer counts is running, and that is something (handle_command holds the
\* process manager's lock from the first instance to the reply).
THEOREM RepliesTellTheTruth == Spec => RepliesAreTrue
<1> DEFINE Told(c) ==
        conns[c].call \in {"start", "config"} /\ conns[c].step = "busy" /\ conns'[c].step = "ok" =>
            /\ conns[c].counted # {}
            /\ \A n \in conns[c].counted : n \in Table /\ table[n] = "Running"
<1>1. IInv /\ CountedRun /\ [Next]_vars => [\A c \in Clients : Told(c)]_vars
  <2> SUFFICES ASSUME IInv, CountedRun, Next, NEW c \in Clients,
                      conns[c].call \in {"start", "config"}, conns[c].step = "busy",
                      conns'[c].step = "ok"
               PROVE  conns[c].counted # {}
    BY DEF CountedRun, RunningNow
  <2>0. conns \in [Clients -> Connection]
    BY DEF IInv, TypeOK
  <2>1. PICK d \in Clients : ConnStep(d)
    <3>1. CASE MainStep
        BY <3>1, ClosedCounts
           DEF MainStep, Restore, RestoreFails, StopSignals, StopReturns, RestoreEnds, Bind,
               BindFails, Exit, Ends, StopAccepting, LockForShutdown, StopEnds, SaveCreates,
               SaveWrites, SaveRenames, SaveFails
    <3>2. CASE Environment
      <4>1. ASSUME NEW e \in Clients, NEW call, NEW names, NEW services,
                   Accept(e, call, names, services)
            PROVE FALSE
          BY <2>0, <4>1, ClosedCounts DEF Accept, Closed
      <4> QED
          BY <3>2, <4>1, ClosedCounts
             DEF Environment, Boot, Killed, Interrupted, Terminated, Ends, TerminateUnheard,
                 PowerFails, ChildExits, tasks
    <3> QED
        BY <3>1, <3>2 DEF Next
  <2>2. d = c
    <3>1. ASSUME NEW conn, conns' = [conns EXCEPT ![d] = conn] PROVE d = c
        BY <2>0, <3>1
    <3>2. PICK conn : conns' = [conns EXCEPT ![d] = conn]
        BY <2>0, <2>1, OneConnection
    <3> QED
        BY <3>1, <3>2
  <2>3. StartReplies(c)
    <3>1. conns[c] \in Connection
        BY <2>0
    <3>2. ~Enter(c) /\ ~FileRefused(c) /\ ~NotFound(c) /\ ~Close(c)
        BY DEF Enter, FileRefused, NotFound, Close
    <3>3. ASSUME NEW n \in Names PROVE ~StopOne(c, n) /\ ~DeleteOne(c, n)
        BY DEF StopOne, DeleteOne
    <3>4. ~NextService(c)
      <4>1. ASSUME NextService(c) PROVE conns'[c].step = "busy"
          BY <2>0, <3>1, <4>1 DEF NextService, Launching, Connection
      <4> QED
          BY <4>1
    <3>5. ASSUME NEW n \in Names, NEW logged \in BOOLEAN
          PROVE  ~StartOne(c, n, logged) /\ ~StartOneFails(c, n)
      <4>1. CASE StartOne(c, n, logged)
          BY <2>0, <3>1, <4>1 DEF StartOne, Connection
      <4>2. CASE StartOneFails(c, n)
          BY <2>0, <3>1, <4>2 DEF StartOneFails, Connection
      <4> QED
          BY <4>1, <4>2
    <3> QED
        BY <2>1, <2>2, <3>2, <3>3, <3>4, <3>5 DEF ConnStep
  <2>4. conns'[c].step = IF conns[c].counted # {} \/ conns[c].call = "reload" THEN "ok" ELSE "error"
    BY <2>0, <2>3 DEF StartReplies, Reply, Closed
  <2> QED
    BY <2>4
<1> QED
    BY <1>1, CountedInvariance, PTL DEF Spec, RepliesAreTrue

-----------------------------------------------------------------------------
(* Shutdowns and commands get done. *)

Waiting(c) == conns[c].step \in {"queued", "busy"}

\* Who holds the lock is the main task on its way out, or the one connection
\* that runs a command, and the command is one that there is a step for.
HolderGoesOn ==
    \/ lock = "free"
    \/ lock = "main" /\ main.step \in Shutting
    \/ lock \in Clients /\ conns[lock].step = "busy" /\ conns[lock].call # "none"

\* Whoever waits for the lock waits for a task that can go on: no connection runs
\* without it, and none waits in a daemon without worker threads, where a shutdown
\* may stop for good at a child that is alive.
TasksCanGoOn ==
    /\ HolderGoesOn
    /\ \A c \in Clients : /\ conns[c].step = "busy" => lock = c
                          /\ Waiting(c) => main.workers

\* How many steps the main task is from its end.
MainLeft ==
    [step \in {"down", "restore", "bind", "serve", "closing", "stop", "create", "write",
               "rename", "released"} |->
        CASE step = "restore" -> 9 [] step = "bind" -> 8 [] step = "serve" -> 7
          [] step = "closing" -> 6 [] step = "stop" -> 5 [] step = "create" -> 4
          [] step = "write" -> 3 [] step = "rename" -> 2 [] step = "released" -> 1
          [] OTHER -> 0]

\* The main task is a step further, or has fewer names left to restore or to stop,
\* or waits for fewer.
MainAdvances ==
    \/ MainLeft[main'.step] < MainLeft[main.step]
    \/ /\ main'.step = main.step
       /\ main'.todo \subseteq main.todo
       /\ main'.todo # main.todo \/ (main'.wait \subseteq main.wait /\ main'.wait # main.wait)

\* A command is answered or lost with its daemon, has the lock, or has fewer
\* services or instances left.
CommandAdvances(c) ==
    \/ ~Waiting(c)'
    \/ conns[c].step = "queued" /\ conns'[c].step = "busy"
    \/ /\ conns[c].step = "busy" /\ conns'[c].step = "busy"
       /\ conns'[c].call = conns[c].call
       /\ \/ Len(conns'[c].services) < Len(conns[c].services)
          \/ /\ conns'[c].services = conns[c].services
             /\ conns'[c].asked \subseteq conns[c].asked
             /\ conns'[c].asked # conns[c].asked

\* Whatever happens to the main task between its start and its end brings it
\* nearer to its end, whatever happens to a command brings that nearer to its
\* answer, and commands join those that wait for the lock only while the daemon
\* serves: a shutdown is passed by finitely many.
TasksAdvance ==
    [][/\ main.step # "down" /\ main' # main => MainAdvances
       /\ \A c \in Clients :
             /\ Waiting(c) /\ conns'[c] # conns[c] => CommandAdvances(c)
             /\ ~Waiting(c) /\ Waiting(c)' => main.step = "serve"]_vars

\* Connections are made by a daemon that serves, which needs its workers, and each
\* brings a command; one that has the lock runs it.
Served ==
    /\ \A c \in Clients :
          /\ conns[c].step # "closed" =>
                main.workers /\ main.step \notin {"down", "restore", "bind"}
          /\ Waiting(c) => conns[c].call # "none"
    /\ lock \in Clients => conns[lock].step = "busy"

\* What a step of a connection leaves of its command.
LEMMA ConnAdvances ==
    ASSUME IInv, Served, NEW c \in Clients, ConnStep(c)
    PROVE  /\ main' = main
           /\ \A d \in Clients : d # c => conns'[d] = conns[d]
           /\ conns[c].step # "closed"
           /\ \/ lock' = "free"
              \/ lock' = lock /\ lock # c
              \/ lock' = c /\ conns'[c].step = "busy"
           /\ Waiting(c)' => Waiting(c) /\ conns'[c].call # "none"
           /\ Waiting(c) => CommandAdvances(c)
<1>0. conns \in [Clients -> Connection] /\ conns[c] \in Connection
    BY DEF IInv, TypeOK
<1>a. conns[c].step # "busy" => lock # c
    BY DEF Served
<1>b. conns[c].step = "busy" => lock = c
    BY DEF IInv, LockHeld
<1> DEFINE Goal == /\ conns[c].step # "closed"
                   /\ \/ lock' = "free"
                      \/ lock' = lock /\ lock # c
                      \/ lock' = c /\ conns'[c].step = "busy"
                   /\ Waiting(c)' => Waiting(c) /\ conns'[c].call # "none"
                   /\ Waiting(c) => CommandAdvances(c)
<1>1. main' = main
    BY DEF ConnStep, Enter, FileRefused, NextService, StartOne, StartOneFails, StopOne, DeleteOne,
           StartReplies, NotFound, Close
<1>2. \A d \in Clients : d # c => conns'[d] = conns[d]
    BY <1>0, OneConnection
<1>3. ASSUME Enter(c) PROVE Goal
  <2>1. /\ conns'[c] = [conns[c] EXCEPT !.step = "busy"] /\ conns[c].step = "queued"
        /\ lock' = c
    BY <1>0, <1>3 DEF Enter
  <2>2. conns'[c].step = "busy" /\ conns'[c].call = conns[c].call
    BY <1>0, <2>1 DEF Connection
  <2>3. conns[c].call # "none"
    BY <2>1 DEF Served, Waiting
  <2> QED
    BY <2>1, <2>2, <2>3 DEF Waiting, CommandAdvances
<1>4. ASSUME NEW ok, Reply(c, ok), conns[c].step = "busy" PROVE Goal
  <2> DEFINE step == IF ok THEN "ok" ELSE "error"
  <2>1. /\ conns'[c] = [Closed EXCEPT !.step = step] /\ step \in {"ok", "error"}
        /\ lock' = "free"
    BY <1>0, <1>4 DEF Reply
  <2> HIDE DEF step
  <2>2. conns'[c].step \in {"ok", "error"}
    BY <2>1, AnsweredIsConnection
  <2> QED
    BY <1>4, <2>1, <2>2 DEF Waiting, CommandAdvances
<1>5. ASSUME FileRefused(c) PROVE Goal
  <2>1. conns'[c].step = "error" /\ conns[c].step = "queued" /\ lock' = lock
    BY <1>0, <1>5, AnsweredIsConnection DEF FileRefused
  <2> QED
    BY <1>a, <2>1 DEF Waiting, CommandAdvances
<1>6. ASSUME Close(c) PROVE Goal
  <2>1. conns'[c].step = "closed" /\ conns[c].step \in {"ok", "error"} /\ lock' = lock
    BY <1>0, <1>6, ClosedCounts DEF Close
  <2> QED
    BY <1>a, <2>1 DEF Waiting, CommandAdvances
<1>7. ASSUME NextService(c) PROVE Goal
  <2> DEFINE services == conns[c].services
  <2>1. /\ conns'[c].step = "busy" /\ conns[c].step = "busy"
        /\ conns'[c].call = conns[c].call /\ conns[c].call # "none"
        /\ conns'[c].services = Tail(services) /\ lock' = lock
    BY <1>0, <1>7 DEF NextService, Launching, Connection
  <2>2. services \in Seq(Services) /\ services # <<>>
    BY <1>0, <1>7 DEF NextService, Connection
  <2>3. Len(Tail(services)) < Len(services)
    BY <2>2
  <2> QED
    BY <1>b, <2>1, <2>3 DEF Waiting, CommandAdvances
<1>8. ASSUME NEW n \in Names,
             StartOneFails(c, n) \/ \E logged \in BOOLEAN : StartOne(c, n, logged)
      PROVE  Goal
  <2>1. /\ conns'[c].step = "busy" /\ conns[c].step = "busy"
        /\ conns'[c].call = conns[c].call /\ conns[c].call # "none"
        /\ conns'[c].services = conns[c].services
        /\ conns'[c].asked = conns[c].asked \ {n} /\ n \in conns[c].asked
        /\ lock' = lock
    BY <1>0, <1>8 DEF StartOneFails, StartOne, Starting, Launching, Connection
  <2> QED
    BY <1>b, <2>1 DEF Waiting, CommandAdvances
<1>9. Goal
  <2>1. ASSUME NEW n \in Names, StopOne(c, n) \/ DeleteOne(c, n) PROVE Goal
    BY <1>4, <2>1 DEF StopOne, DeleteOne
  <2>2. ASSUME StartReplies(c) \/ NotFound(c) PROVE Goal
    BY <1>4, <2>2 DEF StartReplies, NotFound, Launching
  <2> QED
    BY <1>3, <1>5, <1>6, <1>7, <1>8, <2>1, <2>2 DEF ConnStep
<1> QED
    BY <1>1, <1>2, <1>9

\* A daemon's end closes its connections.
LEMMA EndsCloses ==
    ASSUME NEW how, Ends(how) \/ PowerFails
    PROVE  /\ \A c \in Clients : conns'[c].step = "closed"
           /\ main'.step = "down" /\ lock' = "free"
BY ClosedCounts DEF Ends, PowerFails, Down

\* Every step of the main task is one towards its end, and it makes no command.
LEMMA MainNearer ==
    ASSUME IInv, MainStep
    PROVE  /\ main' # main => MainAdvances
           /\ main'.workers = main.workers \/ main'.step = "down"
           /\ main'.step \in {"restore", "bind"} => main.step \in {"restore", "bind"}
           /\ \/ /\ main'.step = "down" /\ lock' = "free"
                 /\ \A c \in Clients : conns'[c].step = "closed"
              \/ /\ main'.step # "down" /\ lock' \in {"free", "main", lock}
                 /\ conns' = conns
<1> DEFINE Goal == /\ MainAdvances
                   /\ main'.workers = main.workers \/ main'.step = "down"
                   /\ main'.step \in {"restore", "bind"} => main.step \in {"restore", "bind"}
                   /\ \/ /\ main'.step = "down" /\ lock' = "free"
                         /\ \A c \in Clients : conns'[c].step = "closed"
                      \/ /\ main'.step # "down" /\ lock' \in {"free", "main", lock}
                         /\ conns' = conns
<1>0. main \in MainTask
    BY DEF IInv, TypeOK
<1>1. ASSUME NEW n \in Names, Restore(n) \/ RestoreFails(n) \/ StopSignals(n) \/ StopReturns(n)
      PROVE  Goal
  <2>1. /\ conns' = conns /\ lock' = lock /\ main.step \in {"restore", "stop"}
        /\ main'.step = main.step /\ main'.workers = main.workers
    BY <1>0, <1>1 DEF Restore, RestoreFails, StopSignals, StopReturns, MainTask
  <2>2. \/ n \in main.todo /\ main'.todo = main.todo \ {n}
        \/ main'.todo = main.todo /\ n \in main.wait /\ main'.wait = main.wait \ {n}
    BY <1>0, <1>1 DEF Restore, RestoreFails, StopSignals, StopReturns, MainTask
  <2> QED
    BY <2>1, <2>2 DEF MainAdvances
<1>2. ASSUME RestoreEnds \/ Bind \/ StopAccepting \/ LockForShutdown \/ StopEnds \/ SaveCreates
             \/ SaveWrites \/ SaveRenames \/ SaveFails
      PROVE  Goal
  <2>1. conns' = conns /\ main'.workers = main.workers /\ lock' \in {"free", "main", lock}
    BY <1>0, <1>2
       DEF RestoreEnds, Bind, StopAccepting, LockForShutdown, StopEnds, SaveCreates, SaveWrites,
           SaveRenames, SaveFails, Goto, MainTask
  <2>2. \/ main.step = "restore" /\ main'.step = "bind"
        \/ main.step = "bind" /\ main'.step = "serve"
        \/ main.step = "serve" /\ main'.step = "closing"
        \/ main.step = "closing" /\ main'.step = "stop"
        \/ main.step = "stop" /\ main'.step = "create"
        \/ main.step = "create" /\ main'.step = "write"
        \/ main.step = "write" /\ main'.step = "rename"
        \/ main.step \in {"create", "write", "rename"} /\ main'.step = "released"
    BY <1>0, <1>2
       DEF RestoreEnds, Bind, StopAccepting, LockForShutdown, StopEnds, SaveCreates, SaveWrites,
           SaveRenames, SaveFails, Goto, MainTask
  <2>3. MainLeft[main'.step] < MainLeft[main.step]
    BY <2>2 DEF MainLeft
  <2> QED
    BY <2>1, <2>2, <2>3 DEF MainAdvances
<1>3. ASSUME BindFails \/ Exit PROVE Goal
  <2>1. /\ main'.step = "down" /\ lock' = "free" /\ \A c \in Clients : conns'[c].step = "closed"
    BY <1>3, EndsCloses DEF BindFails, Exit
  <2>2. MainLeft[main'.step] < MainLeft[main.step]
    BY <1>3, <2>1 DEF MainLeft, BindFails, Exit
  <2> QED
    BY <2>1, <2>2 DEF MainAdvances
<1> QED
    BY <1>1, <1>2, <1>3 DEF MainStep

LEMMA AcceptServes ==
    ASSUME IInv, NEW c \in Clients, NEW call \in {"start", "config", "reload", "stop", "delete"},
           NEW names, NEW services, Accept(c, call, names, services)
    PROVE  /\ main' = main /\ lock' = lock /\ main.workers /\ main.step = "serve"
           /\ \A d \in Clients : d # c => conns'[d] = conns[d]
           /\ conns[c].step = "closed"
           /\ conns'[c].step = "queued" /\ conns'[c].call = call
BY ClosedCounts DEF Accept, IInv, TypeOK, Closed

\* What the world does: it starts and ends daemons, and makes commands.
LEMMA EnvironmentNearer ==
    ASSUME IInv, Served, Environment
    PROVE  /\ main.step # "down" /\ main' # main => MainAdvances
           /\ \A c \in Clients :
                 /\ Waiting(c) /\ conns'[c] # conns[c] => CommandAdvances(c)
                 /\ ~Waiting(c) /\ Waiting(c)' => main.step = "serve"
           /\ Served'
<1> DEFINE Goal == /\ main.step # "down" /\ main' # main => MainAdvances
                   /\ \A c \in Clients :
                         /\ Waiting(c) /\ conns'[c] # conns[c] => CommandAdvances(c)
                         /\ ~Waiting(c) /\ Waiting(c)' => main.step = "serve"
                   /\ Served'
<1>1. ASSUME NEW how, Ends(how) \/ PowerFails PROVE Goal
  <2>1. main'.step = "down" /\ lock' = "free" /\ \A c \in Clients : conns'[c].step = "closed"
    BY <1>1, EndsCloses
  <2>2. main.step # "down" => MainLeft[main'.step] < MainLeft[main.step]
    BY <2>1 DEF IInv, TypeOK, MainTask, MainLeft
  <2> QED
    BY <2>1, <2>2, ClientsAssumption DEF MainAdvances, CommandAdvances, Waiting, Served
<1>2. ASSUME NEW workers \in Modes, Boot(workers) PROVE Goal
  <2>1. main.step = "down" /\ conns' = conns /\ lock' = lock
    BY <1>2 DEF Boot
  <2>2. \A c \in Clients : conns[c].step = "closed"
    BY <2>1 DEF Served
  <2> QED
    BY <2>1, <2>2 DEF Served, Waiting
<1>3. ASSUME NEW c \in Clients,
             NEW call \in {"start", "config", "reload", "stop", "delete"}, NEW names,
             NEW services, Accept(c, call, names, services)
      PROVE  Goal
  <2>1. /\ main' = main /\ lock' = lock /\ main.workers /\ main.step = "serve"
        /\ \A d \in Clients : d # c => conns'[d] = conns[d]
        /\ conns[c].step = "closed"
        /\ conns'[c].step = "queued" /\ conns'[c].call = call
    BY <1>3, AcceptServes
  <2> QED
    BY <2>1 DEF Served, Waiting
<1>4. ASSUME TerminateUnheard \/ \E n \in Names : ChildExits(n) PROVE Goal
  <2>1. main' = main /\ conns' = conns /\ lock' = lock
    BY <1>4 DEF TerminateUnheard, ChildExits, tasks
  <2> QED
    BY <2>1 DEF Served, Waiting
<1> QED
    BY <1>1, <1>2, <1>3, <1>4 DEF Environment, Killed, Interrupted, Terminated

LEMMA TasksStep ==
    ASSUME IInv, Served, Next
    PROVE  /\ main.step # "down" /\ main' # main => MainAdvances
           /\ \A c \in Clients :
                 /\ Waiting(c) /\ conns'[c] # conns[c] => CommandAdvances(c)
                 /\ ~Waiting(c) /\ Waiting(c)' => main.step = "serve"
           /\ Served'
<1>1. CASE MainStep
  <2>1. \A c \in Clients : conns'[c] # conns[c] => ~Waiting(c)'
    BY <1>1, MainNearer DEF Waiting
  <2>2. Served'
    BY <1>1, <2>1, MainNearer, ClientsAssumption DEF Served, Waiting
  <2> QED
    BY <1>1, <2>1, <2>2, MainNearer DEF CommandAdvances, Waiting
<1>2. ASSUME NEW c \in Clients, ConnStep(c)
      PROVE  /\ main' = main
             /\ \A d \in Clients :
                   /\ Waiting(d) /\ conns'[d] # conns[d] => CommandAdvances(d)
                   /\ ~(~Waiting(d) /\ Waiting(d)')
             /\ Served'
  <2>1. /\ main' = main
        /\ \A d \in Clients : d # c => conns'[d] = conns[d]
        /\ conns[c].step # "closed"
        /\ lock' = "free" \/ (lock' = lock /\ lock # c) \/ (lock' = c /\ conns'[c].step = "busy")
        /\ Waiting(c)' => Waiting(c) /\ conns'[c].call # "none"
        /\ Waiting(c) => CommandAdvances(c)
    BY <1>2, ConnAdvances
  <2>2. Served'
    BY <2>1, ClientsAssumption DEF Served, Waiting
  <2> QED
    BY <2>1, <2>2 DEF Waiting
<1> QED
    BY <1>1, <1>2, EnvironmentNearer DEF Next

LEMMA ServedInvariance == Spec => [](IInv /\ Served)
<1>1. Init => Served
    BY ClosedCounts, ClientsAssumption DEF Init, Served, Waiting
<1>2. IInv /\ Served /\ [Next]_vars => Served'
  <2>1. CASE UNCHANGED vars
    BY <2>1 DEF vars, tasks, Served, Waiting
  <2> QED
    BY <2>1, TasksStep
<1> QED
    BY <1>1, <1>2, Invariance, PTL DEF Spec

\* Whoever holds the lock of the process manager can go on, so that nothing in the
\* daemon waits for a lock that is never given back: the main task until it has
\* saved (main), a connection until its command is handled (handle_command).
THEOREM LockHoldersCanGoOn == Spec => []TasksCanGoOn
<1>1. IInv /\ Served => TasksCanGoOn
  <2> SUFFICES ASSUME IInv, Served PROVE TasksCanGoOn
    OBVIOUS
  <2>1. \A c \in Clients : conns[c].step = "busy" => lock = c
    BY DEF IInv, LockHeld
  <2>2. \A c \in Clients : Waiting(c) => main.workers
    BY DEF Served, Waiting
  <2>3. HolderGoesOn
    <3>1. lock \in {"free", "main"} \cup Clients
      BY DEF IInv, TypeOK
    <3>2. CASE lock \in Clients
      <4>1. conns[lock].step = "busy"
        BY <3>2 DEF Served
      <4> QED
        BY <3>2, <4>1 DEF HolderGoesOn, Served, Waiting
    <3> QED
      BY <3>1, <3>2 DEF HolderGoesOn, IInv, LockHeld
  <2> QED
    BY <2>1, <2>2, <2>3 DEF TasksCanGoOn
<1> QED
    BY <1>1, ServedInvariance, PTL

\* A shutdown and the commands it meets get done, one step nearer with each thing
\* that happens to them, and once the daemon has stopped accepting no other
\* command comes before it to the lock (main, handle_command).
THEOREM TasksGetDone == Spec => TasksAdvance
<1>1. IInv /\ Served /\ [Next]_vars =>
          [/\ main.step # "down" /\ main' # main => MainAdvances
           /\ \A c \in Clients :
                 /\ Waiting(c) /\ conns'[c] # conns[c] => CommandAdvances(c)
                 /\ ~Waiting(c) /\ Waiting(c)' => main.step = "serve"]_vars
    BY TasksStep
<1> QED
    BY <1>1, ServedInvariance, PTL DEF Spec, TasksAdvance

=============================================================================
