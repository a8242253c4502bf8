------------------------ MODULE ProcessManagerProofs ------------------------
(***************************************************************************)
(* Proofs about ProcessManager, for every value of its constants.          *)
(*                                                                         *)
(* None of the safety properties is inductive alone.  Together with the    *)
(* shape of the operation in progress (OpShape) they are: DownIsDead needs *)
(* HandlesHoldPids, so that reaping one child cannot make another entry's  *)
(* dead child look alive, and NoLeakedChild needs in addition that, where  *)
(* zombies are listed and only the manager reaps, no crash report ever     *)
(* exists (Quiet).                                                         *)
(*                                                                         *)
(* TableKeepsPromise shows that the table implements Lifecycle: Stage maps *)
(* an entry and its child to a stage of Lifecycle, and PromiseStep maps    *)
(* each step, by action, to one of Lifecycle's or to a stutter.            *)
(***************************************************************************)
EXTENDS ProcessManager, TLAPS

USE DEF Ids, NoId

\* The operation in progress works on entries that are in the table, on one at
\* a time, and respawns only what it has reaped.
OpShape ==
    /\ op.step \in {"wait", "reap", "respawn", "health", "backoff"} => op.id \in Table
    /\ op.todo \subseteq Table
    /\ op.todo \cap op.done = {}
    /\ op.step \in {"wait", "reap", "respawn"} => op.id \notin op.todo \cup op.done
    /\ op.step = "respawn" => procs[op.id].reaped
    /\ op.step = "backoff" => op.call = "auto"
    /\ op.call = "auto" => op.todo = {} /\ op.done = {}

\* Zombies are listed and only the manager reaps: no crash is ever reported.
Quiet ==
    ZombieListed /\ ~OwnerReaps => DOMAIN reports = {} /\ op.call # "auto"

IInv ==
    /\ TypeOK
    /\ OpShape
    /\ HandlesHoldPids
    /\ DownIsDead
    /\ RunningIsHeld
    /\ Quiet
    /\ NoLeakedChild
    /\ RolledStayRunning

-----------------------------------------------------------------------------
(* The next-state relation as a flat list of actions: every call that begins a
   command is one Begin. *)
LEMMA NextCases ==
    ASSUME Next
    PROVE  \/ \E name \in Names, pid \in Pids : Spawn(name, pid)
           \/ \E call \in {"stop", "restart", "delete"}, targets \in SUBSET Table,
                 force \in BOOLEAN : Begin(call, targets, force)
           \/ \E i \in Table : Signal(i) \/ SignalFails(i) \/ DeleteStopped(i)
           \/ WaitTimeout \/ WaitReturns
           \/ \E pid \in Pids : Respawn(pid)
           \/ RespawnFails \/ HealthCheck
           \/ DetectCrashes \/ SecondLock
           \/ \E j \in DOMAIN reports : TryAutoRestart(j)
           \/ \E pid \in Pids : AutoRespawn(pid)
           \/ AutoRespawnFails
           \/ \E pid \in Pids : \/ ChildExits(pid) \/ OrphanReaped(pid)
                                \/ StrangerStarts(pid) \/ StrangerEnds(pid)
           \/ \E i \in Table : OwnerReapsChild(i) \/ WindowSlides(i)
<1>1. ASSUME Calls
      PROVE  \/ \E name \in Names, pid \in Pids : Spawn(name, pid)
             \/ \E call \in {"stop", "restart", "delete"}, targets \in SUBSET Table,
                   force \in BOOLEAN : Begin(call, targets, force)
  <2>1. \A name : Instances(name) \subseteq Table
    BY DEF Instances
  <2>2. ASSUME NEW name \in Patterns, RollingRestart(name) \/ DeleteByName(name)
        PROVE  \E call \in {"stop", "restart", "delete"}, targets \in SUBSET Table,
                  force \in BOOLEAN : Begin(call, targets, force)
    BY <2>1, <2>2, Zenon DEF RollingRestart, BeginRestart, DeleteByName
  <2>3. ASSUME NEW i \in Table,
               \/ \E force \in BOOLEAN : Stop(i, force)
               \/ Restart(i) \/ RollingRestartById(i) \/ Delete(i)
        PROVE  \E call \in {"stop", "restart", "delete"}, targets \in SUBSET Table,
                  force \in BOOLEAN : Begin(call, targets, force)
    BY <2>1, <2>3 DEF Stop, Restart, RollingRestartById, BeginRestart, Delete
  <2>4. ASSUME StopAll
        PROVE  \E call \in {"stop", "restart", "delete"}, targets \in SUBSET Table,
                  force \in BOOLEAN : Begin(call, targets, force)
    BY <2>4 DEF StopAll
  <2> QED
    BY <1>1, <2>2, <2>3, <2>4, Zenon DEF Calls
<1> QED
  BY <1>1, Zenon DEF Next, OpStep, StopStep, RestartStep, AutoStep, Environment

-----------------------------------------------------------------------------
(* What a step does to the table, as facts about its shape. *)

LEMMA IdleFacts ==
    /\ Idle \in Operation
    /\ Idle.call = "none" /\ Idle.step = "idle"
    /\ Idle.todo = {} /\ Idle.done = {} /\ Idle.id = 0
BY DEF Idle, Operation

LEMMA ProceedFacts ==
    ASSUME TypeOK, NEW todo \in SUBSET op.todo
    PROVE  /\ Proceed(todo) \in Operation
           /\ Proceed(todo).step \in {"idle", "next"}
           /\ Proceed(todo).todo = todo
           /\ Proceed(todo).done \subseteq op.done
           /\ Proceed(todo).call \in {"none", op.call}
BY IdleFacts DEF Proceed, TypeOK, Operation

LEMMA ProceedAutoFacts ==
    ASSUME TypeOK, NEW rest
    PROVE  /\ ProceedAuto(rest) \in Operation
           /\ ProceedAuto(rest).step \in {"idle", "next"}
           /\ ProceedAuto(rest).todo \subseteq op.todo
           /\ ProceedAuto(rest).done \subseteq op.done
           /\ ProceedAuto(rest).call \in {"none", op.call}
BY IdleFacts DEF ProceedAuto, TypeOK, Operation

\* Marking an entry keeps the table's domain and its shape.
LEMMA MarkFacts ==
    ASSUME TypeOK, NEW i \in Table, NEW s \in States
    PROVE  /\ [procs EXCEPT ![i].state = s] \in [Table -> Entry]
           /\ [procs EXCEPT ![i].state = s, ![i].reaped = TRUE] \in [Table -> Entry]
BY DEF TypeOK, Entry

LEMMA RespawnedFacts ==
    ASSUME TypeOK, NEW i \in Table, NEW pid \in Pids, Respawned(i, pid)
    PROVE  /\ procs' \in [Table -> Entry]
           /\ os' \in [Pids -> PidStates]
           /\ \A j \in Table \ {i} : procs'[j] = procs[j]
           /\ procs'[i].state = "Running" /\ procs'[i].pid = pid
           /\ procs'[i].reaped = FALSE
BY DEF TypeOK, Entry, Respawned, States, PidStates

LEMMA OsFacts ==
    ASSUME TypeOK
    PROVE  /\ \A pid \in Pids, s \in PidStates : [os EXCEPT ![pid] = s] \in [Pids -> PidStates]
           /\ \A pid \in Pids : Killed(pid) \in [Pids -> PidStates]
           /\ \A i \in Table : Reap(i) \in [Pids -> PidStates] /\ procs[i].pid \in Pids
BY DEF TypeOK, Entry, Killed, Reap, PidStates

LEMMA TypeInit == Init => TypeOK
<1> SUFFICES ASSUME Init PROVE TypeOK
  OBVIOUS
<1>1. next_id \in 1 .. MaxId + 1
  BY BoundsAssumption DEF Init
<1>2. /\ Table = {} /\ procs \in [Table -> Entry]
      /\ DOMAIN reports = {} /\ reports \in [DOMAIN reports -> Ids]
  BY DEF Init, Table
<1> QED
  BY <1>1, <1>2, IdleFacts DEF Init, TypeOK, PidStates

LEMMA TypeStep ==
    ASSUME TypeOK, OpShape, [Next]_vars
    PROVE  TypeOK'
<1> USE DEF Table
<1>1. CASE UNCHANGED vars
  BY <1>1 DEF TypeOK, vars
<1>2. ASSUME NEW name \in Names, NEW pid \in Pids, Spawn(name, pid)
      PROVE  TypeOK'
  <2>1. next_id \in Ids /\ next_id' \in 1 .. MaxId + 1 /\ next_id \in 1 .. next_id' - 1
    BY <1>2, BoundsAssumption DEF Spawn, TypeOK
  <2>2. DOMAIN procs' = Table \cup {next_id}
    BY <1>2 DEF Spawn
  <2>3. Table' \subseteq Ids \cap 1 .. next_id' - 1
    BY <1>2, <2>1, <2>2, BoundsAssumption DEF Spawn, TypeOK
  <2>4. NewEntry(name, pid) \in Entry
    BY DEF NewEntry, Entry, States
  <2>5. procs' \in [Table' -> Entry]
    BY <1>2, <2>2, <2>4 DEF Spawn, TypeOK
  <2> QED
    BY <1>2, <2>1, <2>3, <2>5, OsFacts DEF Spawn, TypeOK, PidStates
<1>3. ASSUME NEW call \in {"stop", "restart", "delete"}, NEW targets \in SUBSET Table,
             NEW force \in BOOLEAN, Begin(call, targets, force)
      PROVE  TypeOK'
  <2>1. op' \in Operation
    BY <1>3 DEF Begin, Idle, Operation, TypeOK
  <2> QED
    BY <1>3, <2>1 DEF Begin, TypeOK
<1>4. ASSUME NEW i \in Table, Signal(i)
      PROVE  TypeOK'
  <2>1. op' \in Operation
    BY <1>4 DEF Signal, Operation, TypeOK
  <2> QED
    BY <1>4, <2>1, MarkFacts, OsFacts DEF Signal, TypeOK, States
<1>5. ASSUME NEW i \in Table, SignalFails(i)
      PROVE  TypeOK'
  <2>1. op' \in Operation
    BY <1>5, ProceedFacts, IdleFacts DEF SignalFails
  <2> QED
    BY <1>5, <2>1, MarkFacts DEF SignalFails, TypeOK, States
<1>6. ASSUME NEW i \in Table, DeleteStopped(i)
      PROVE  TypeOK'
  <2>1. op' \in Operation
    BY <1>6, ProceedFacts DEF DeleteStopped
  <2>2. procs' = [j \in Table \ {i} |-> procs[j]]
    BY <1>6 DEF DeleteStopped, Restrict
  <2> QED
    BY <1>6, <2>1, <2>2 DEF DeleteStopped, TypeOK
<1>7. CASE WaitTimeout
  <2>1. op' \in Operation
    BY <1>7 DEF WaitTimeout, Operation, TypeOK
  <2>2. os' \in [Pids -> PidStates]
    BY <1>7, OsFacts DEF WaitTimeout, OpShape
  <2> QED
    BY <1>7, <2>1, <2>2 DEF WaitTimeout, TypeOK
<1>8. CASE WaitReturns
  <2>1. op.id \in Table
    BY <1>8 DEF WaitReturns, OpShape
  <2>2. op' \in Operation
    BY <1>8, ProceedFacts DEF WaitReturns, TypeOK, Operation
  <2>3. os' \in [Pids -> PidStates]
    BY <1>8, <2>1, OsFacts DEF WaitReturns
  <2>4. CASE op.call = "delete"
    <3>1. procs' = [j \in Table \ {op.id} |-> procs[j]]
      BY <1>8, <2>4 DEF WaitReturns, Restrict
    <3> QED
      BY <1>8, <2>2, <2>3, <3>1 DEF WaitReturns, TypeOK
  <2>5. CASE op.call # "delete"
    <3>1. procs' \in [Table -> Entry]
      BY <1>8, <2>1, <2>5, MarkFacts DEF WaitReturns, States
    <3> QED
      BY <1>8, <2>2, <2>3, <3>1 DEF WaitReturns, TypeOK
  <2> QED
    BY <2>4, <2>5
<1>9. ASSUME NEW pid \in Pids, Respawn(pid)
      PROVE  TypeOK'
  <2>1. op.id \in Table
    BY <1>9 DEF Respawn, OpShape
  <2>2. op' \in Operation
    BY <1>9, <2>1, IdleFacts DEF Respawn, TypeOK, Operation
  <2> QED
    BY <1>9, <2>1, <2>2, RespawnedFacts DEF Respawn, TypeOK
<1>10. CASE RespawnFails
  BY <1>10, IdleFacts DEF RespawnFails, TypeOK
<1>11. CASE HealthCheck
  BY <1>11, IdleFacts, ProceedFacts DEF HealthCheck, TypeOK
<1>12. CASE DetectCrashes
  <2>1. CrashedNow \subseteq Table
    BY DEF CrashedNow
  <2>2. PICK pid_to_id \in [{procs[i].pid : i \in CrashedNow} -> Table] :
            reports' = [i \in CrashedNow |-> pid_to_id[procs[i].pid]]
    BY <1>12 DEF DetectCrashes
  <2>3. DOMAIN reports' \subseteq Ids /\ reports' \in [DOMAIN reports' -> Ids]
    BY <2>1, <2>2 DEF TypeOK
  <2>4. procs' \in [Table -> Entry]
    <3>1. \A i \in Table : [procs[i] EXCEPT !.state = "Errored"] \in Entry
      BY DEF TypeOK, Entry, States
    <3> QED
      BY <1>12, <3>1 DEF DetectCrashes, TypeOK
  <2> QED
    BY <1>12, <2>3, <2>4 DEF DetectCrashes, TypeOK
<1>13. CASE SecondLock
  BY <1>13 DEF SecondLock, TypeOK, Idle, Operation
<1>14. ASSUME NEW j \in DOMAIN reports, TryAutoRestart(j)
       PROVE  TypeOK'
  <2>1. reports' = [k \in DOMAIN reports \ {j} |-> reports[k]]
    BY <1>14 DEF TryAutoRestart, Restrict
  <2>2. DOMAIN reports' \subseteq Ids /\ reports' \in [DOMAIN reports' -> Ids]
    BY <2>1 DEF TypeOK
  <2>3. op' \in Operation
    BY <1>14, ProceedAutoFacts DEF TryAutoRestart, TypeOK, Operation
  <2> QED
    BY <1>14, <2>2, <2>3 DEF TryAutoRestart, TypeOK
<1>15. ASSUME NEW pid \in Pids, AutoRespawn(pid)
       PROVE  TypeOK'
  <2>1. op.id \in Table
    BY <1>15 DEF AutoRespawn, OpShape
  <2> QED
    BY <1>15, <2>1, RespawnedFacts, ProceedAutoFacts DEF AutoRespawn, TypeOK
<1>16. CASE AutoRespawnFails
  BY <1>16, ProceedAutoFacts DEF AutoRespawnFails, TypeOK
<1>17. ASSUME NEW pid \in Pids,
              \/ ChildExits(pid) \/ OrphanReaped(pid)
              \/ StrangerStarts(pid) \/ StrangerEnds(pid)
       PROVE  TypeOK'
  <2>1. os' \in [Pids -> PidStates]
    BY <1>17, OsFacts
       DEF ChildExits, OrphanReaped, StrangerStarts, StrangerEnds, PidStates
  <2> QED
    BY <1>17, <2>1 DEF ChildExits, OrphanReaped, StrangerStarts, StrangerEnds, TypeOK
<1>18. ASSUME NEW i \in Table, OwnerReapsChild(i) \/ WindowSlides(i)
       PROVE  TypeOK'
  <2>1. procs' \in [Table -> Entry]
    <3>1. procs[i].recent > 0 => procs[i].recent - 1 \in Nat
      BY DEF TypeOK, Entry
    <3>2. CASE OwnerReapsChild(i)
      BY <3>2 DEF OwnerReapsChild, TypeOK, Entry
    <3>3. CASE WindowSlides(i)
      BY <3>1, <3>3 DEF WindowSlides, TypeOK, Entry
    <3> QED
      BY <1>18, <3>2, <3>3
  <2>2. os' \in [Pids -> PidStates]
    BY <1>18, OsFacts DEF OwnerReapsChild, WindowSlides, TypeOK, PidStates
  <2> QED
    BY <1>18, <2>1, <2>2 DEF OwnerReapsChild, WindowSlides, TypeOK
<1> QED
  BY <1>1, <1>2, <1>3, <1>4, <1>5, <1>6, <1>7, <1>8, <1>9, <1>10, <1>11, <1>12, <1>13,
     <1>14, <1>15, <1>16, <1>17, <1>18, NextCases, Zenon

LEMMA OpShapeStep ==
    ASSUME TypeOK, OpShape, [Next]_vars
    PROVE  OpShape'
<1> USE DEF Table
<1>1. CASE UNCHANGED vars
  BY <1>1 DEF OpShape, vars
<1>2. ASSUME NEW name \in Names, NEW pid \in Pids, Spawn(name, pid)
      PROVE  OpShape'
  BY <1>2, IdleFacts DEF Spawn, OpShape
<1>3. ASSUME NEW call \in {"stop", "restart", "delete"}, NEW targets \in SUBSET Table,
             NEW force \in BOOLEAN, Begin(call, targets, force)
      PROVE  OpShape'
  BY <1>3 DEF Begin, Idle, OpShape
<1>4. ASSUME NEW i \in Table, Signal(i)
      PROVE  OpShape'
  <2>1. op.call # "auto"
    BY <1>4 DEF Signal, OpShape
  <2>2. /\ op'.step \in {"wait", "reap"} /\ op'.id = i
        /\ op'.todo = op.todo \ {i} /\ op'.done = op.done /\ op'.call = op.call
    BY <1>4 DEF Signal, TypeOK, Operation
  <2>3. DOMAIN procs' = DOMAIN procs
    BY <1>4 DEF Signal
  <2> QED
    BY <1>4, <2>1, <2>2, <2>3 DEF Signal, OpShape
<1>5. ASSUME NEW i \in Table, SignalFails(i)
      PROVE  OpShape'
  <2>1. DOMAIN procs' = DOMAIN procs /\ op.call # "auto"
    BY <1>5 DEF SignalFails, OpShape
  <2> QED
    BY <1>5, <2>1, IdleFacts, ProceedFacts DEF SignalFails, OpShape
<1>6. ASSUME NEW i \in Table, DeleteStopped(i)
      PROVE  OpShape'
  <2>1. DOMAIN procs' = DOMAIN procs \ {i} /\ op.call # "auto"
    BY <1>6 DEF DeleteStopped, Restrict, OpShape
  <2>2. /\ op'.step \in {"idle", "next"} /\ op'.todo = op.todo \ {i}
        /\ op'.done \subseteq op.done /\ op'.call \in {"none", op.call}
    BY <1>6, ProceedFacts DEF DeleteStopped
  <2> QED
    BY <2>1, <2>2 DEF OpShape
<1>7. CASE WaitTimeout
  <2>1. op' = [op EXCEPT !.step = "reap"] /\ op.step = "wait"
    BY <1>7 DEF WaitTimeout
  <2> QED
    BY <1>7, <2>1 DEF WaitTimeout, OpShape, TypeOK, Operation
<1>8. CASE WaitReturns
  <2>1. op.id \in Table /\ op.id \notin op.todo \cup op.done /\ op.todo \subseteq Table
    BY <1>8 DEF WaitReturns, OpShape
  <2>2. CASE op.call = "restart"
    <3>1. op' = [op EXCEPT !.step = "respawn"]
      BY <1>8, <2>2 DEF WaitReturns
    <3>2. DOMAIN procs' = DOMAIN procs /\ procs'[op.id].reaped
      BY <1>8, <2>1, <2>2 DEF WaitReturns, TypeOK, Entry
    <3> QED
      BY <2>1, <2>2, <3>1, <3>2 DEF OpShape, TypeOK, Operation
  <2>3. CASE op.call # "restart"
    <3>1. op' = Proceed(op.todo)
      BY <1>8, <2>3 DEF WaitReturns
    <3>2. DOMAIN procs \ {op.id} \subseteq DOMAIN procs'
      BY <1>8 DEF WaitReturns, Restrict
    <3> QED
      BY <2>1, <3>1, <3>2, ProceedFacts DEF OpShape
  <2> QED
    BY <2>2, <2>3
<1>9. ASSUME NEW pid \in Pids, Respawn(pid)
      PROVE  OpShape'
  <2>1. op.id \in Table /\ op.id \notin op.todo
    BY <1>9 DEF Respawn, OpShape
  <2>2. DOMAIN procs' = DOMAIN procs
    BY <1>9, <2>1, RespawnedFacts DEF Respawn
  <2>3. CASE op.todo = {}
    BY <1>9, <2>3, IdleFacts DEF Respawn, OpShape
  <2>4. CASE op.todo # {}
    <3>1. op' = [op EXCEPT !.step = "health", !.done = @ \cup {op.id}]
      BY <1>9, <2>4 DEF Respawn
    <3> QED
      BY <2>1, <2>2, <2>4, <3>1 DEF OpShape, TypeOK, Operation
  <2> QED
    BY <2>3, <2>4
<1>10. CASE RespawnFails
  BY <1>10, IdleFacts DEF RespawnFails, OpShape
<1>11. CASE HealthCheck
  BY <1>11, IdleFacts, ProceedFacts DEF HealthCheck, OpShape
<1>12. CASE DetectCrashes
  <2>1. DOMAIN procs' = DOMAIN procs
    BY <1>12 DEF DetectCrashes
  <2> QED
    BY <1>12, <2>1, IdleFacts DEF DetectCrashes, OpShape
<1>13. CASE SecondLock
  BY <1>13 DEF SecondLock, OpShape, Idle
<1>14. ASSUME NEW j \in DOMAIN reports, TryAutoRestart(j)
       PROVE  OpShape'
  <2>1. CASE reports[j] \in Table /\ ShouldRestart(reports[j])
    BY <1>14, <2>1 DEF TryAutoRestart, OpShape, TypeOK, Operation
  <2>2. CASE ~(reports[j] \in Table /\ ShouldRestart(reports[j]))
    BY <1>14, <2>2, ProceedAutoFacts DEF TryAutoRestart, OpShape
  <2> QED
    BY <2>1, <2>2
<1>15. ASSUME NEW pid \in Pids, AutoRespawn(pid)
       PROVE  OpShape'
  <2>1. DOMAIN procs' = DOMAIN procs
    BY <1>15, RespawnedFacts DEF AutoRespawn, OpShape
  <2> QED
    BY <1>15, <2>1, ProceedAutoFacts DEF AutoRespawn, OpShape
<1>16. CASE AutoRespawnFails
  BY <1>16, ProceedAutoFacts DEF AutoRespawnFails, OpShape
<1>17. ASSUME NEW pid \in Pids,
              \/ ChildExits(pid) \/ OrphanReaped(pid)
              \/ StrangerStarts(pid) \/ StrangerEnds(pid)
       PROVE  OpShape'
  BY <1>17 DEF ChildExits, OrphanReaped, StrangerStarts, StrangerEnds, OpShape
<1>18. ASSUME NEW i \in Table, OwnerReapsChild(i) \/ WindowSlides(i)
       PROVE  OpShape'
  <2>1. op' = op /\ DOMAIN procs' = DOMAIN procs
    BY <1>18 DEF OwnerReapsChild, WindowSlides
  <2>2. \A k \in Table : procs[k].reaped => procs'[k].reaped
    BY <1>18 DEF OwnerReapsChild, WindowSlides, TypeOK, Entry
  <2> QED
    BY <2>1, <2>2 DEF OpShape
<1> QED
  BY <1>1, <1>2, <1>3, <1>4, <1>5, <1>6, <1>7, <1>8, <1>9, <1>10, <1>11, <1>12, <1>13,
     <1>14, <1>15, <1>16, <1>17, <1>18, NextCases, Zenon

-----------------------------------------------------------------------------
(* HandlesHoldPids and DownIsDead.  A step disturbs at most the entry it works
   on; the frame lemmas carry the two invariants over for the others. *)

\* Entry i is as it was, except perhaps for its state, its restarts and a name.
SameHandle(i) ==
    /\ i \in Table
    /\ procs'[i].pid = procs[i].pid
    /\ procs'[i].reaped = procs[i].reaped

\* A child that has not been reaped is still there after the step, and a dead
\* one is still dead.
ChildrenStay ==
    \A i \in Table' : SameHandle(i) /\ ~procs[i].reaped =>
        /\ os'[procs[i].pid] \in {"running", "zombie"}
        /\ os[procs[i].pid] = "zombie" => os'[procs[i].pid] = "zombie"

LEMMA HandlesFrame ==
    ASSUME HandlesHoldPids, ChildrenStay, \A i \in Table' : SameHandle(i)
    PROVE  HandlesHoldPids'
BY DEF HandlesHoldPids, ChildrenStay, SameHandle

LEMMA DownFrame ==
    ASSUME DownIsDead, ChildrenStay, NEW i \in Table', SameHandle(i),
           procs[i].state # "Running" /\ ~BusyWith(i)
    PROVE  Exited(i)'
BY DEF DownIsDead, ChildrenStay, SameHandle, Exited

\* A step that leaves every pid's state alone, or only ends children, keeps them.
LEMMA ChildrenStayEasily ==
    ASSUME TypeOK, HandlesHoldPids,
           \/ os' = os
           \/ \E pid \in Pids : os' = Killed(pid)
           \/ \E pid \in Pids :
                /\ os[pid] \in {"free", "stranger"} \/ (os[pid] = "zombie" /\ ~Held(pid))
                /\ \E s \in PidStates : os' = [os EXCEPT ![pid] = s]
    PROVE  ChildrenStay
<1> SUFFICES ASSUME NEW i \in Table', SameHandle(i), ~procs[i].reaped
             PROVE  /\ os'[procs[i].pid] \in {"running", "zombie"}
                    /\ os[procs[i].pid] = "zombie" => os'[procs[i].pid] = "zombie"
  BY DEF ChildrenStay
<1>1. i \in Table /\ procs[i].pid \in Pids /\ os[procs[i].pid] \in {"running", "zombie"}
      /\ Held(procs[i].pid)
  BY DEF SameHandle, HandlesHoldPids, Held, TypeOK, Entry
<1>2. CASE os' = os
  BY <1>1, <1>2
<1>3. ASSUME NEW pid \in Pids, os' = Killed(pid)
      PROVE  /\ os'[procs[i].pid] \in {"running", "zombie"}
             /\ os[procs[i].pid] = "zombie" => os'[procs[i].pid] = "zombie"
  BY <1>1, <1>3 DEF Killed, TypeOK
<1>4. ASSUME NEW pid \in Pids, NEW s \in PidStates, os' = [os EXCEPT ![pid] = s],
             os[pid] \in {"free", "stranger"} \/ (os[pid] = "zombie" /\ ~Held(pid))
      PROVE  /\ os'[procs[i].pid] \in {"running", "zombie"}
             /\ os[procs[i].pid] = "zombie" => os'[procs[i].pid] = "zombie"
  <2>1. pid # procs[i].pid
    BY <1>1, <1>4
  <2> QED
    BY <1>1, <1>4, <2>1 DEF TypeOK
<1> QED
  BY <1>2, <1>3, <1>4

\* Reaping one entry's child takes nobody else's pid.
LEMMA ReapLeavesOthers ==
    ASSUME TypeOK, HandlesHoldPids, NEW i \in Table, os' = Reap(i),
           NEW j \in Table \ {i}, ~procs[j].reaped
    PROVE  os'[procs[j].pid] = os[procs[j].pid]
BY OsFacts DEF Reap, HandlesHoldPids, TypeOK

LEMMA WaitReturnsFacts ==
    ASSUME TypeOK, OpShape, HandlesHoldPids, WaitReturns
    PROVE  /\ op.id \in Table /\ os' = Reap(op.id)
           /\ Table' \subseteq Table
           /\ \A j \in Table' \ {op.id} : procs'[j] = procs[j]
           /\ op.id \in Table' =>
                 procs'[op.id].reaped /\ procs'[op.id].state = "Stopped"
           /\ \A j \in Table' \ {op.id} : ~procs[j].reaped =>
                 os'[procs[j].pid] = os[procs[j].pid]
<1>1. op.id \in Table /\ os' = Reap(op.id)
  BY DEF WaitReturns, OpShape
<1>2. CASE op.call = "delete"
  <2>1. procs' = [j \in Table \ {op.id} |-> procs[j]]
    BY <1>2 DEF WaitReturns, Restrict
  <2> QED
    BY <1>1, <2>1, ReapLeavesOthers DEF Table
<1>3. CASE op.call # "delete"
  <2>1. procs' = [procs EXCEPT ![op.id].state = "Stopped", ![op.id].reaped = TRUE]
    BY <1>3 DEF WaitReturns
  <2>2. Table' = Table
    BY <2>1 DEF Table
  <2>3. procs'[op.id].reaped /\ procs'[op.id].state = "Stopped"
    BY <1>1, <2>1 DEF TypeOK, Entry
  <2>4. \A j \in Table \ {op.id} : procs'[j] = procs[j]
    BY <1>1, <2>1 DEF TypeOK
  <2> QED
    BY <1>1, <2>2, <2>3, <2>4, ReapLeavesOthers
<1> QED
  BY <1>2, <1>3

\* What a step that only marks entries or removes them keeps.
LEMMA SameHandles ==
    ASSUME TypeOK,
           \/ procs' = procs
           \/ \E i \in Table, s \in States : procs' = [procs EXCEPT ![i].state = s]
           \/ \E i \in Table : procs' = Restrict(procs, Table \ {i})
           \/ DetectCrashes
           \/ \E i \in Table : WindowSlides(i)
    PROVE  \A j \in Table' : SameHandle(j)
<1> USE DEF Table, SameHandle, TypeOK, Entry
<1>1. CASE procs' = procs
  BY <1>1
<1>2. ASSUME NEW i \in Table, NEW s \in States, procs' = [procs EXCEPT ![i].state = s]
      PROVE  \A j \in Table' : SameHandle(j)
  BY <1>2
<1>3. ASSUME NEW i \in Table, procs' = Restrict(procs, Table \ {i})
      PROVE  \A j \in Table' : SameHandle(j)
  BY <1>3 DEF Restrict
<1>4. CASE DetectCrashes
  <2>1. DOMAIN procs' = DOMAIN procs
    BY <1>4 DEF DetectCrashes
  <2>2. ASSUME NEW j \in Table
        PROVE  procs'[j].pid = procs[j].pid /\ procs'[j].reaped = procs[j].reaped
    <3>1. procs[j] \in Entry
      OBVIOUS
    <3>2. procs'[j] = [procs[j] EXCEPT !.state = "Errored"] \/ procs'[j] = procs[j]
      BY <1>4 DEF DetectCrashes
    <3> QED
      BY <3>1, <3>2
  <2> QED
    BY <2>1, <2>2
<1>5. ASSUME NEW i \in Table, WindowSlides(i)
      PROVE  \A j \in Table' : SameHandle(j)
  BY <1>5 DEF WindowSlides
<1> QED
  BY <1>1, <1>2, <1>3, <1>4, <1>5

\* The steps that leave every handle alone and every unreaped child in place.
LEMMA EasySteps ==
    ASSUME TypeOK, OpShape, HandlesHoldPids, [Next]_vars,
           ~ \E name \in Names, pid \in Pids : Spawn(name, pid),
           ~ WaitReturns,
           ~ \E pid \in Pids : Respawn(pid),
           ~ \E pid \in Pids : AutoRespawn(pid),
           ~ \E i \in Table : OwnerReapsChild(i),
           ~ \E pid \in Pids : ChildExits(pid)
    PROVE  ChildrenStay /\ \A j \in Table' : SameHandle(j)
<1>1. CASE UNCHANGED vars
  BY <1>1, SameHandles, ChildrenStayEasily DEF vars
<1>2. ASSUME NEW call, NEW targets, NEW force, Begin(call, targets, force)
      PROVE  ChildrenStay /\ \A j \in Table' : SameHandle(j)
  BY <1>2, SameHandles, ChildrenStayEasily DEF Begin
<1>3. ASSUME NEW i \in Table, Signal(i)
      PROVE  ChildrenStay /\ \A j \in Table' : SameHandle(j)
  <2>1. os' = os \/ \E pid \in Pids : os' = Killed(pid)
    BY <1>3, OsFacts DEF Signal
  <2>2. \E s \in States : procs' = [procs EXCEPT ![i].state = s]
    BY <1>3 DEF Signal, States
  <2> QED
    BY <2>1, <2>2, SameHandles, ChildrenStayEasily
<1>4. ASSUME NEW i \in Table, SignalFails(i)
      PROVE  ChildrenStay /\ \A j \in Table' : SameHandle(j)
  <2>1. \E s \in States : procs' = [procs EXCEPT ![i].state = s]
    BY <1>4 DEF SignalFails, States
  <2> QED
    BY <1>4, <2>1, SameHandles, ChildrenStayEasily DEF SignalFails
<1>5. ASSUME NEW i \in Table, DeleteStopped(i)
      PROVE  ChildrenStay /\ \A j \in Table' : SameHandle(j)
  BY <1>5, SameHandles, ChildrenStayEasily DEF DeleteStopped
<1>6. CASE WaitTimeout
  BY <1>6, OsFacts, SameHandles, ChildrenStayEasily DEF WaitTimeout, OpShape
<1>7. CASE RespawnFails \/ HealthCheck \/ SecondLock \/ AutoRespawnFails
  BY <1>7, SameHandles, ChildrenStayEasily
     DEF RespawnFails, HealthCheck, SecondLock, AutoRespawnFails
<1>8. CASE DetectCrashes
  BY <1>8, SameHandles, ChildrenStayEasily DEF DetectCrashes
<1>9. ASSUME NEW j \in DOMAIN reports, TryAutoRestart(j)
      PROVE  ChildrenStay /\ \A k \in Table' : SameHandle(k)
  BY <1>9, SameHandles, ChildrenStayEasily DEF TryAutoRestart
<1>10. ASSUME NEW pid \in Pids, OrphanReaped(pid) \/ StrangerStarts(pid) \/ StrangerEnds(pid)
       PROVE  ChildrenStay /\ \A j \in Table' : SameHandle(j)
  <2>1. /\ os[pid] \in {"free", "stranger"} \/ (os[pid] = "zombie" /\ ~Held(pid))
        /\ \E s \in PidStates : os' = [os EXCEPT ![pid] = s]
        /\ procs' = procs
    <3>1. /\ os[pid] \in {"free", "stranger"} \/ (os[pid] = "zombie" /\ ~Held(pid))
          /\ procs' = procs
          /\ \/ os' = [os EXCEPT ![pid] = "free"]
             \/ os' = [os EXCEPT ![pid] = "stranger"]
      BY <1>10 DEF OrphanReaped, StrangerStarts, StrangerEnds
    <3>2. "free" \in PidStates /\ "stranger" \in PidStates
      BY DEF PidStates
    <3> QED
      BY <3>1, <3>2, Zenon
  <2> QED
    BY <2>1, SameHandles, ChildrenStayEasily
<1>11. ASSUME NEW i \in Table, WindowSlides(i)
       PROVE  ChildrenStay /\ \A j \in Table' : SameHandle(j)
  BY <1>11, SameHandles, ChildrenStayEasily DEF WindowSlides
<1> QED
  BY <1>1, <1>2, <1>3, <1>4, <1>5, <1>6, <1>7, <1>8, <1>9, <1>10, <1>11, NextCases, Zenon

LEMMA HandlesStep ==
    ASSUME TypeOK, OpShape, HandlesHoldPids, [Next]_vars
    PROVE  HandlesHoldPids'
<1>1. ASSUME NEW name \in Names, NEW pid \in Pids, Spawn(name, pid)
      PROVE  HandlesHoldPids'
  <2>1. /\ Table' = Table \cup {next_id} /\ next_id \notin Table
        /\ procs'[next_id].pid = pid
        /\ \A j \in Table : procs'[j] = procs[j]
    BY <1>1 DEF Spawn, NewEntry, TypeOK, Table
  <2>2. os[pid] = "free" /\ os'[pid] = "running" /\ \A q \in Pids \ {pid} : os'[q] = os[q]
    BY <1>1 DEF Spawn, TypeOK
  <2>3. \A j \in Table : procs[j].pid \in Pids
    BY OsFacts
  <2> QED
    BY <2>1, <2>2, <2>3 DEF HandlesHoldPids
<1>2. CASE WaitReturns
  BY <1>2, WaitReturnsFacts DEF HandlesHoldPids
<1>3. ASSUME NEW i \in Table, NEW pid \in Pids, Respawned(i, pid)
      PROVE  HandlesHoldPids'
  <2>1. os[pid] = "free" /\ os'[pid] = "running" /\ \A q \in Pids \ {pid} : os'[q] = os[q]
    BY <1>3 DEF Respawned, TypeOK
  <2>2. Table' = Table
    BY <1>3, RespawnedFacts DEF Table
  <2>3. \A j \in Table : procs[j].pid \in Pids
    BY OsFacts
  <2>4. procs'[i].pid = pid /\ \A j \in Table \ {i} : procs'[j] = procs[j]
    BY <1>3, RespawnedFacts
  <2> QED
    BY <2>1, <2>2, <2>3, <2>4 DEF HandlesHoldPids
<1>4. ASSUME NEW pid \in Pids, Respawn(pid) \/ AutoRespawn(pid)
      PROVE  HandlesHoldPids'
  BY <1>3, <1>4 DEF Respawn, AutoRespawn, OpShape
<1>5. ASSUME NEW i \in Table, OwnerReapsChild(i)
      PROVE  HandlesHoldPids'
  <2>1. /\ Table' = Table /\ procs'[i].reaped /\ \A j \in Table \ {i} : procs'[j] = procs[j]
        /\ ~procs[i].reaped
    BY <1>5 DEF OwnerReapsChild, TypeOK, Table, Entry
  <2>2. \A q \in Pids : q # procs[i].pid => os'[q] = os[q]
    BY <1>5 DEF OwnerReapsChild, TypeOK
  <2>3. \A j \in Table : procs[j].pid \in Pids
    BY OsFacts
  <2> QED
    BY <2>1, <2>2, <2>3 DEF HandlesHoldPids
<1>6. ASSUME NEW pid \in Pids, ChildExits(pid)
      PROVE  HandlesHoldPids'
  <2>1. procs' = procs /\ Table' = Table
    BY <1>6 DEF ChildExits, Table
  <2>2. os'[pid] = "zombie" /\ \A q \in Pids \ {pid} : os'[q] = os[q]
    BY <1>6 DEF ChildExits, TypeOK
  <2>3. \A j \in Table : procs[j].pid \in Pids
    BY OsFacts
  <2> QED
    BY <2>1, <2>2, <2>3 DEF HandlesHoldPids
<1> QED
  BY <1>1, <1>2, <1>4, <1>5, <1>6, EasySteps, HandlesFrame, Zenon

\* Only WaitReturns ends the work on an entry that was signalled.
LEMMA StaysBusy ==
    ASSUME TypeOK, OpShape, [Next]_vars, ~WaitReturns, NEW j, BusyWith(j)
    PROVE  BusyWith(j)'
<1>1. op # Idle /\ op.step \in {"wait", "reap"}
  BY IdleFacts DEF BusyWith
<1>2. UNCHANGED op \/ WaitTimeout
  <2>1. CASE UNCHANGED vars
    BY <2>1 DEF vars
  <2>2. CASE Next
    BY <1>1, <2>2, NextCases
       DEF Spawn, Begin, Signal, SignalFails, DeleteStopped, Respawn, RespawnFails,
           HealthCheck, DetectCrashes, SecondLock, TryAutoRestart, AutoRespawn,
           AutoRespawnFails, ChildExits, OrphanReaped, StrangerStarts, StrangerEnds,
           OwnerReapsChild, WindowSlides
  <2> QED
    BY <2>1, <2>2
<1>3. CASE UNCHANGED op
  BY <1>3 DEF BusyWith
<1>4. CASE WaitTimeout
  BY <1>4 DEF WaitTimeout, BusyWith, TypeOK, Operation
<1> QED
  BY <1>2, <1>3, <1>4

\* An entry stops being Running because it is being stopped, because its signal
\* failed, or because its pid was not listed.
LEMMA LeavesRunning ==
    ASSUME TypeOK, OpShape, [Next]_vars, ~WaitReturns, NEW j \in Table, j \in Table',
           procs[j].state = "Running", procs'[j].state # "Running"
    PROVE  BusyWith(j)' \/ CanRefuse(procs[j].pid) \/ ~Listed(procs[j].pid)
<1>1. ASSUME NEW i \in Table, Signal(i)
      PROVE  BusyWith(j)'
  <2>1. i = j
    BY <1>1 DEF Signal, TypeOK
  <2> QED
    BY <1>1, <2>1 DEF Signal, BusyWith, TypeOK, Operation
<1>2. ASSUME NEW i \in Table, SignalFails(i)
      PROVE  CanRefuse(procs[j].pid)
  BY <1>2 DEF SignalFails, TypeOK
<1>3. CASE DetectCrashes
  BY <1>3 DEF DetectCrashes, CrashedNow
<1>4. ASSUME \/ \E name \in Names, pid \in Pids : Spawn(name, pid)
             \/ \E i \in Table : DeleteStopped(i) \/ WindowSlides(i) \/ OwnerReapsChild(i)
             \/ \E pid \in Pids : Respawn(pid) \/ AutoRespawn(pid)
      PROVE  FALSE
  <2>1. ASSUME NEW i \in Table, NEW pid \in Pids, Respawned(i, pid)
        PROVE  FALSE
    BY <2>1, RespawnedFacts
  <2>2. ASSUME NEW pid \in Pids, Respawn(pid) \/ AutoRespawn(pid)
        PROVE  FALSE
    BY <2>1, <2>2 DEF Respawn, AutoRespawn, OpShape
  <2>3. ASSUME NEW name \in Names, NEW pid \in Pids, Spawn(name, pid)
        PROVE  FALSE
    BY <2>3 DEF Spawn, NewEntry
  <2>4. ASSUME NEW i \in Table, DeleteStopped(i)
        PROVE  FALSE
    BY <2>4 DEF DeleteStopped, Restrict, Table
  <2>5. ASSUME NEW i \in Table, WindowSlides(i) \/ OwnerReapsChild(i)
        PROVE  FALSE
    BY <2>5 DEF WindowSlides, OwnerReapsChild, TypeOK, Entry
  <2> QED
    BY <1>4, <2>2, <2>3, <2>4, <2>5
<1>5. procs' # procs
  OBVIOUS
<1>6. ~ UNCHANGED vars /\ Next
  BY <1>5 DEF vars
<1> QED
  BY <1>1, <1>2, <1>3, <1>4, <1>5, <1>6, NextCases
     DEF Begin, WaitTimeout, RespawnFails, HealthCheck, SecondLock, TryAutoRestart,
         AutoRespawnFails, ChildExits, OrphanReaped, StrangerStarts, StrangerEnds

LEMMA DownStep ==
    ASSUME TypeOK, OpShape, HandlesHoldPids, DownIsDead, [Next]_vars
    PROVE  DownIsDead'
<1> SUFFICES ASSUME NEW j \in Table', procs'[j].state # "Running", ~BusyWith(j)'
             PROVE  Exited(j)'
  BY DEF DownIsDead
<1>1. ASSUME NEW name \in Names, NEW pid \in Pids, Spawn(name, pid)
      PROVE  Exited(j)'
  <2>1. /\ Table' = Table \cup {next_id}
        /\ procs'[next_id].state = "Running"
        /\ \A k \in Table : k # next_id => procs'[k] = procs[k]
    BY <1>1 DEF Spawn, NewEntry, Table
  <2>2. op' = op /\ os[pid] = "free" /\ \A q \in Pids \ {pid} : os'[q] = os[q]
    BY <1>1 DEF Spawn, TypeOK
  <2>3. j \in Table /\ procs'[j] = procs[j] /\ Exited(j) /\ procs[j].pid \in Pids
    BY <2>1, <2>2, OsFacts DEF DownIsDead, BusyWith
  <2> QED
    BY <2>2, <2>3 DEF Exited
<1>2. CASE WaitReturns
  <2>1. CASE j = op.id
    BY <1>2, <2>1, WaitReturnsFacts DEF Exited
  <2>2. CASE j # op.id
    <3>1. j \in Table /\ procs'[j] = procs[j]
          /\ (~procs[j].reaped => os'[procs[j].pid] = os[procs[j].pid])
      BY <1>2, <2>2, WaitReturnsFacts
    <3>2. Exited(j)
      BY <2>2, <3>1 DEF DownIsDead, BusyWith
    <3> QED
      BY <3>1, <3>2 DEF Exited
  <2> QED
    BY <2>1, <2>2
<1>3. ASSUME NEW pid \in Pids, Respawn(pid) \/ AutoRespawn(pid)
      PROVE  Exited(j)'
  <2>1. op.id \in Table /\ Respawned(op.id, pid) /\ op.step \notin {"wait", "reap"}
    BY <1>3 DEF Respawn, AutoRespawn, OpShape
  <2>2. Table' = Table /\ j # op.id /\ procs'[j] = procs[j]
    BY <2>1, RespawnedFacts DEF Table
  <2>3. Exited(j) /\ procs[j].pid \in Pids
    BY <2>1, <2>2, OsFacts DEF DownIsDead, BusyWith
  <2>4. os[pid] = "free" /\ \A q \in Pids \ {pid} : os'[q] = os[q]
    BY <2>1 DEF Respawned, TypeOK
  <2> QED
    BY <2>2, <2>3, <2>4 DEF Exited
<1>4. ASSUME NEW i \in Table, OwnerReapsChild(i)
      PROVE  Exited(j)'
  <2>1. /\ Table' = Table /\ procs'[i].reaped /\ \A k \in Table \ {i} : procs'[k] = procs[k]
        /\ op' = op /\ procs'[i].state = procs[i].state
    BY <1>4 DEF OwnerReapsChild, TypeOK, Table, Entry
  <2>2. CASE j = i
    BY <2>1, <2>2 DEF Exited
  <2>3. CASE j # i
    <3>1. Exited(j) /\ procs[j].pid \in Pids /\ procs'[j] = procs[j]
      BY <2>1, <2>3, OsFacts DEF DownIsDead, BusyWith
    <3>2. ~procs[j].reaped => procs[j].pid # procs[i].pid
      BY <1>4, <2>1, <2>3 DEF HandlesHoldPids, OwnerReapsChild
    <3>3. ~procs[j].reaped => os'[procs[j].pid] = os[procs[j].pid]
      BY <1>4, <3>1, <3>2 DEF OwnerReapsChild, TypeOK
    <3> QED
      BY <3>1, <3>3 DEF Exited
  <2> QED
    BY <2>2, <2>3
<1>5. ASSUME NEW pid \in Pids, ChildExits(pid)
      PROVE  Exited(j)'
  <2>1. procs' = procs /\ Table' = Table /\ op' = op
    BY <1>5 DEF ChildExits, Table
  <2>2. Exited(j) /\ procs[j].pid \in Pids
    BY <2>1, OsFacts DEF DownIsDead, BusyWith
  <2>3. os'[pid] = "zombie" /\ \A q \in Pids \ {pid} : os'[q] = os[q]
    BY <1>5 DEF ChildExits, TypeOK
  <2> QED
    BY <2>1, <2>2, <2>3 DEF Exited
<1>6. ASSUME ~ \E name \in Names, pid \in Pids : Spawn(name, pid),
             ~ WaitReturns,
             ~ \E pid \in Pids : Respawn(pid),
             ~ \E pid \in Pids : AutoRespawn(pid),
             ~ \E i \in Table : OwnerReapsChild(i),
             ~ \E pid \in Pids : ChildExits(pid)
      PROVE  Exited(j)'
  <2>1. ChildrenStay /\ SameHandle(j)
    BY <1>6, EasySteps, Zenon
  <2>2. ~BusyWith(j)
    BY <1>6, StaysBusy
  <2>3. CASE procs[j].state # "Running"
    BY <2>1, <2>2, <2>3, DownFrame
  <2>4. CASE procs[j].state = "Running"
    <3>1. CanRefuse(procs[j].pid) \/ ~Listed(procs[j].pid)
      BY <1>6, <2>1, <2>4, LeavesRunning DEF SameHandle
    <3>2. procs[j].reaped \/ os[procs[j].pid] = "zombie"
      BY <2>1, <3>1 DEF CanRefuse, Listed, HandlesHoldPids, SameHandle
    <3> QED
      BY <2>1, <3>2 DEF Exited, ChildrenStay, SameHandle
  <2> QED
    BY <2>3, <2>4
<1> QED
  BY <1>1, <1>2, <1>3, <1>4, <1>5, <1>6, Zenon

-----------------------------------------------------------------------------
(* The type invariant and the two invariants about dead children. *)

\* What the steps above need of one another.
Base == TypeOK /\ OpShape /\ HandlesHoldPids /\ DownIsDead

LEMMA BaseInit == Init => Base
<1> SUFFICES ASSUME Init PROVE Base
  OBVIOUS
<1>1. Table = {}
  BY DEF Init, Table
<1> QED
  BY <1>1, TypeInit, IdleFacts
     DEF Base, Init, OpShape, HandlesHoldPids, DownIsDead

LEMMA BaseStep == Base /\ [Next]_vars => Base'
BY TypeStep, OpShapeStep, HandlesStep, DownStep DEF Base

LEMMA BaseInvariant == Spec => []Base
BY BaseInit, BaseStep, PTL DEF Spec

\* The variables keep their shape in every behaviour of the process table: ids,
\* states, pids and reports stay in range through stop, restart, delete, spawn
\* and the supervisor's loop.
THEOREM TypeCorrectness == Spec => []TypeOK
<1>1. Base => TypeOK
  BY DEF Base
<1> QED
  BY <1>1, BaseInvariant, PTL

\* However stop, restart, delete, crash detection and the reuse of pids
\* interleave, an entry at rest that is not Running has no live child.
THEOREM TableHidesNoLiveChild == Spec => []DownIsDead
<1>1. Base => DownIsDead
  BY DEF Base
<1> QED
  BY <1>1, BaseInvariant, PTL

\* A child that nobody waited for keeps its pid to itself.
THEOREM HandlesKeepPids == Spec => []HandlesHoldPids
<1>1. Base => HandlesHoldPids
  BY DEF Base
<1> QED
  BY <1>1, BaseInvariant, PTL

\* delete, and everything else, removes an entry only when its child is dead.
THEOREM OnlyTheDeadAreDeleted == Spec => DeletesOnlyDead
<1>1. ASSUME Base, [Next]_vars, NEW i \in Table, i \notin DOMAIN procs'
      PROVE  Exited(i)
  <2>1. ASSUME NEW name \in Names, NEW pid \in Pids, Spawn(name, pid)
        PROVE  FALSE
    BY <1>1, <2>1 DEF Spawn, NewEntry
  <2>2. ASSUME NEW k \in Table, DeleteStopped(k)
        PROVE  Exited(i)
    <3>1. i = k /\ procs[i].state = "Stopped" /\ ~BusyWith(i)
      BY <1>1, <2>2 DEF DeleteStopped, Restrict, MustStop, BusyWith
    <3> QED
      BY <1>1, <3>1 DEF Base, DownIsDead
  <2>3. CASE WaitReturns
    <3>1. Exited(op.id) /\ DOMAIN procs \ {op.id} \subseteq DOMAIN procs'
      BY <2>3 DEF WaitReturns, Restrict, Table
    <3>2. i = op.id
      BY <1>1, <3>1 DEF Table
    <3> QED
      BY <3>1, <3>2
  <2>4. ASSUME NEW pid \in Pids, Respawn(pid) \/ AutoRespawn(pid)
        PROVE  FALSE
    BY <1>1, <2>4 DEF Respawn, AutoRespawn, Respawned, Table
  <2>5. ASSUME \/ \E k \in Table : Signal(k) \/ SignalFails(k)
               \/ \E k \in Table : WindowSlides(k) \/ OwnerReapsChild(k)
               \/ DetectCrashes
        PROVE  FALSE
    BY <1>1, <2>5 DEF Signal, SignalFails, WindowSlides, OwnerReapsChild,
                      DetectCrashes, Table
  <2>6. procs' # procs /\ ~ UNCHANGED vars /\ Next
    BY <1>1 DEF vars, Table
  <2> QED
    BY <2>1, <2>2, <2>3, <2>4, <2>5, <2>6, NextCases
       DEF Begin, WaitTimeout, RespawnFails, HealthCheck, SecondLock, TryAutoRestart,
           AutoRespawnFails, ChildExits, OrphanReaped, StrangerStarts, StrangerEnds
<1>2. Base /\ [Next]_vars => [\A i \in Table : i \in DOMAIN procs' \/ Exited(i)]_vars
  BY <1>1
<1> QED
  BY <1>2, BaseInvariant, PTL DEF Spec, DeletesOnlyDead

-----------------------------------------------------------------------------
(* Where the manager alone reaps its children. *)

\* Only spawn and delete change which ids are in the table.
LEMMA TableChanges ==
    ASSUME TypeOK, OpShape, [Next]_vars, Table' # Table
    PROVE  \/ \E name \in Names, pid \in Pids : Spawn(name, pid)
           \/ \E i \in Table : DeleteStopped(i)
           \/ WaitReturns
<1>1. procs' # procs /\ ~ UNCHANGED vars /\ Next
  BY DEF vars, Table
<1>2. ASSUME \/ \E i \in Table : \/ Signal(i) \/ SignalFails(i)
                                 \/ WindowSlides(i) \/ OwnerReapsChild(i)
             \/ DetectCrashes
             \/ \E pid \in Pids : Respawn(pid) \/ AutoRespawn(pid)
      PROVE  FALSE
  BY <1>2 DEF Signal, SignalFails, WindowSlides, OwnerReapsChild, DetectCrashes,
              Respawn, AutoRespawn, Respawned, Table
<1> QED
  BY <1>1, <1>2, NextCases
     DEF Begin, WaitTimeout, RespawnFails, HealthCheck, SecondLock, TryAutoRestart,
         AutoRespawnFails, ChildExits, OrphanReaped, StrangerStarts, StrangerEnds

\* Only spawn and the two respawns make an entry Running.
LEMMA OnlyStartsRun ==
    ASSUME TypeOK, OpShape, [Next]_vars, NEW j \in Table, j \in Table',
           procs[j].state # "Running", procs'[j].state = "Running"
    PROVE  \E pid \in Pids : Respawn(pid) \/ AutoRespawn(pid)
<1>1. ASSUME \/ \E name \in Names, pid \in Pids : Spawn(name, pid)
             \/ \E i \in Table : \/ Signal(i) \/ SignalFails(i) \/ DeleteStopped(i)
                                 \/ WindowSlides(i) \/ OwnerReapsChild(i)
             \/ WaitReturns \/ DetectCrashes
      PROVE  FALSE
  <2>1. ASSUME NEW name \in Names, NEW pid \in Pids, Spawn(name, pid)
        PROVE  FALSE
    BY <2>1 DEF Spawn, TypeOK
  <2>2. ASSUME NEW i \in Table, Signal(i) \/ SignalFails(i)
        PROVE  FALSE
    BY <2>2 DEF Signal, SignalFails, TypeOK, Entry
  <2>3. ASSUME NEW i \in Table, DeleteStopped(i)
        PROVE  FALSE
    BY <2>3 DEF DeleteStopped, Restrict, Table
  <2>4. ASSUME NEW i \in Table, WindowSlides(i) \/ OwnerReapsChild(i)
        PROVE  FALSE
    BY <2>4 DEF WindowSlides, OwnerReapsChild, TypeOK, Entry
  <2>5. CASE WaitReturns
    <3>1. CASE op.call = "delete"
      BY <2>5, <3>1 DEF WaitReturns, Restrict, Table
    <3>2. CASE op.call # "delete"
      BY <2>5, <3>2 DEF WaitReturns, OpShape, TypeOK, Entry
    <3> QED
      BY <3>1, <3>2
  <2>6. CASE DetectCrashes
    BY <2>6 DEF DetectCrashes, CrashedNow
  <2> QED
    BY <1>1, <2>1, <2>2, <2>3, <2>4, <2>5, <2>6
<1>2. procs' # procs /\ ~ UNCHANGED vars /\ Next
  BY DEF vars
<1> QED
  BY <1>1, <1>2, NextCases
     DEF Begin, WaitTimeout, RespawnFails, HealthCheck, SecondLock, TryAutoRestart,
         AutoRespawnFails, ChildExits, OrphanReaped, StrangerStarts, StrangerEnds

LEMMA HeldStep ==
    ASSUME Base, RunningIsHeld, [Next]_vars
    PROVE  RunningIsHeld'
<1> SUFFICES ASSUME ~OwnerReaps, NEW j \in Table', procs'[j].state = "Running"
             PROVE  ~procs'[j].reaped
  BY DEF RunningIsHeld
<1> USE DEF Base
<1>1. ASSUME NEW name \in Names, NEW pid \in Pids, Spawn(name, pid)
      PROVE  ~procs'[j].reaped
  <2>1. CASE j = next_id
    BY <1>1, <2>1 DEF Spawn, NewEntry
  <2>2. CASE j # next_id
    <3>1. j \in Table /\ procs'[j] = procs[j]
      BY <1>1, <2>2 DEF Spawn, Table
    <3> QED
      BY <3>1 DEF RunningIsHeld
  <2> QED
    BY <2>1, <2>2
<1>2. CASE WaitReturns
  BY <1>2, WaitReturnsFacts DEF RunningIsHeld
<1>3. ASSUME NEW pid \in Pids, Respawn(pid) \/ AutoRespawn(pid)
      PROVE  ~procs'[j].reaped
  <2>1. op.id \in Table /\ Respawned(op.id, pid)
    BY <1>3 DEF Respawn, AutoRespawn, OpShape
  <2>2. Table' = Table
    BY <2>1, RespawnedFacts DEF Table
  <2> QED
    BY <2>1, <2>2, RespawnedFacts DEF RunningIsHeld
<1>4. ~ \E i \in Table : OwnerReapsChild(i)
  BY DEF OwnerReapsChild
<1>5. ASSUME NEW pid \in Pids, ChildExits(pid)
      PROVE  ~procs'[j].reaped
  BY <1>5 DEF ChildExits, RunningIsHeld, Table
<1>6. ASSUME ~ \E name \in Names, pid \in Pids : Spawn(name, pid),
             ~ WaitReturns,
             ~ \E pid \in Pids : Respawn(pid),
             ~ \E pid \in Pids : AutoRespawn(pid),
             ~ \E pid \in Pids : ChildExits(pid)
      PROVE  ~procs'[j].reaped
  <2>1. SameHandle(j)
    BY <1>4, <1>6, EasySteps, Zenon
  <2>2. procs[j].state = "Running"
    BY <1>4, <1>6, <2>1, OnlyStartsRun DEF SameHandle
  <2> QED
    BY <2>1, <2>2 DEF SameHandle, RunningIsHeld
<1> QED
  BY <1>1, <1>2, <1>3, <1>5, <1>6, Zenon

LEMMA QuietStep ==
    ASSUME Base, RunningIsHeld, Quiet, [Next]_vars
    PROVE  Quiet'
<1> SUFFICES ASSUME ZombieListed, ~OwnerReaps, DOMAIN reports = {}, op.call # "auto"
             PROVE  DOMAIN reports' = {} /\ op'.call # "auto"
  BY DEF Quiet
<1> USE DEF Base
<1>1. ~DetectCrashes
  <2>1. SUFFICES ASSUME NEW i \in Table, procs[i].state = "Running"
                 PROVE  Listed(procs[i].pid)
    BY DEF DetectCrashes, CrashedNow
  <2> QED
    BY <2>1 DEF RunningIsHeld, HandlesHoldPids, Listed
<1>2. ~ \E j \in DOMAIN reports : TryAutoRestart(j)
  OBVIOUS
<1>3. ~ SecondLock /\ ~AutoRespawnFails /\ ~ \E pid \in Pids : AutoRespawn(pid)
  BY DEF SecondLock, AutoRespawnFails, AutoRespawn, OpShape
<1>4. CASE UNCHANGED vars
  BY <1>4 DEF vars
<1>5. ASSUME NEW call \in {"stop", "restart", "delete"}, NEW targets, NEW force,
             Begin(call, targets, force)
      PROVE  DOMAIN reports' = {} /\ op'.call # "auto"
  BY <1>5 DEF Begin, Idle
<1>6. ASSUME NEW i \in Table, Signal(i) \/ SignalFails(i) \/ DeleteStopped(i)
      PROVE  DOMAIN reports' = {} /\ op'.call # "auto"
  <2>1. CASE Signal(i)
    BY <2>1 DEF Signal, TypeOK, Operation
  <2>2. CASE SignalFails(i)
    BY <2>2, IdleFacts, ProceedFacts DEF SignalFails
  <2>3. CASE DeleteStopped(i)
    BY <2>3, ProceedFacts DEF DeleteStopped
  <2> QED
    BY <1>6, <2>1, <2>2, <2>3
<1>7. CASE WaitTimeout \/ WaitReturns
  BY <1>7, ProceedFacts DEF WaitTimeout, WaitReturns, TypeOK, Operation
<1>8. ASSUME NEW pid \in Pids, Respawn(pid)
      PROVE  DOMAIN reports' = {} /\ op'.call # "auto"
  BY <1>8, IdleFacts DEF Respawn, TypeOK, Operation
<1>9. CASE RespawnFails \/ HealthCheck
  BY <1>9, IdleFacts, ProceedFacts DEF RespawnFails, HealthCheck
<1>10. ASSUME \/ \E name \in Names, pid \in Pids : Spawn(name, pid)
              \/ \E pid \in Pids : \/ ChildExits(pid) \/ OrphanReaped(pid)
                                   \/ StrangerStarts(pid) \/ StrangerEnds(pid)
              \/ \E i \in Table : OwnerReapsChild(i) \/ WindowSlides(i)
       PROVE  DOMAIN reports' = {} /\ op'.call # "auto"
  BY <1>10 DEF Spawn, ChildExits, OrphanReaped, StrangerStarts, StrangerEnds,
               OwnerReapsChild, WindowSlides
<1> QED
  BY <1>1, <1>2, <1>3, <1>4, <1>5, <1>6, <1>7, <1>8, <1>9, <1>10, NextCases, Zenon

\* Only spawn and respawn make a pid a running child's.
LEMMA OnlyStartsFork ==
    ASSUME TypeOK, OpShape, [Next]_vars, NEW q \in Pids, os'[q] = "running", os[q] # "running"
    PROVE  \/ \E name \in Names : Spawn(name, q)
           \/ Respawn(q) \/ AutoRespawn(q)
<1>1. os' # os /\ ~ UNCHANGED vars /\ Next
  BY DEF vars
<1>2. ASSUME NEW name \in Names, NEW pid \in Pids, Spawn(name, pid)
      PROVE  pid = q
  BY <1>2 DEF Spawn, TypeOK
<1>3. ASSUME NEW pid \in Pids, Respawn(pid) \/ AutoRespawn(pid)
      PROVE  pid = q
  BY <1>3 DEF Respawn, AutoRespawn, Respawned, TypeOK
<1>4. ASSUME NEW pid \in Pids,
             \/ os' = Killed(pid)
             \/ \E s \in {"free", "zombie", "stranger"} : os' = [os EXCEPT ![pid] = s]
      PROVE  FALSE
  BY <1>4 DEF Killed, TypeOK
<1>5. ASSUME NEW i \in Table, Signal(i) \/ OwnerReapsChild(i)
      PROVE  FALSE
  BY <1>1, <1>4, <1>5, OsFacts DEF Signal, OwnerReapsChild
<1>6. CASE WaitTimeout \/ WaitReturns
  <2>1. op.id \in Table /\ (os' = Killed(procs[op.id].pid) \/ os' = Reap(op.id))
    BY <1>6 DEF WaitTimeout, WaitReturns, OpShape
  <2> QED
    BY <1>1, <1>4, <2>1, OsFacts DEF Reap
<1>7. ASSUME NEW pid \in Pids, \/ ChildExits(pid) \/ OrphanReaped(pid)
                               \/ StrangerStarts(pid) \/ StrangerEnds(pid)
      PROVE  FALSE
  BY <1>4, <1>7 DEF ChildExits, OrphanReaped, StrangerStarts, StrangerEnds
<1> QED
  BY <1>1, <1>2, <1>3, <1>5, <1>6, <1>7, NextCases
     DEF Begin, SignalFails, DeleteStopped, RespawnFails, HealthCheck, DetectCrashes,
         SecondLock, TryAutoRestart, AutoRespawnFails, WindowSlides

LEMMA LeakStep ==
    ASSUME Base, RunningIsHeld, Quiet, NoLeakedChild, [Next]_vars
    PROVE  NoLeakedChild'
<1> DEFINE Holder(i, q) == /\ procs[i].pid = q
                           /\ ~procs[i].reaped
                           /\ procs[i].state = "Running" \/ BusyWith(i)
<1> SUFFICES ASSUME ZombieListed, ~OwnerReaps, NEW q \in Pids, os'[q] = "running"
             PROVE  \E i \in Table' : Holder(i, q)'
  BY DEF NoLeakedChild
<1> USE DEF Base
<1>1. ASSUME NEW name \in Names, Spawn(name, q)
      PROVE  \E i \in Table' : Holder(i, q)'
  <2>1. next_id \in Table' /\ procs'[next_id].pid = q /\ procs'[next_id].reaped = FALSE
        /\ procs'[next_id].state = "Running"
    BY <1>1 DEF Spawn, NewEntry, Table
  <2> QED
    BY <2>1
<1>2. CASE Respawn(q) \/ AutoRespawn(q)
  <2>1. op.id \in Table /\ Respawned(op.id, q)
    BY <1>2 DEF Respawn, AutoRespawn, OpShape
  <2>2. Table' = Table
    BY <2>1, RespawnedFacts DEF Table
  <2> QED
    BY <2>1, <2>2, RespawnedFacts
<1>3. ASSUME os[q] = "running"
      PROVE  \E i \in Table' : Holder(i, q)'
  <2>1. PICK k \in Table : Holder(k, q)
    BY <1>3 DEF NoLeakedChild
  <2>2. ASSUME NEW name \in Names, NEW pid \in Pids, Spawn(name, pid)
        PROVE  Holder(k, q)' /\ k \in Table'
    BY <2>1, <2>2 DEF Spawn, Table, TypeOK, BusyWith
  <2>3. CASE WaitReturns
    <3>1. k # op.id
      BY <1>3, <2>1, <2>3 DEF WaitReturns, Exited
    <3>2. k \in Table'
      BY <2>1, <2>3, <3>1 DEF WaitReturns, Restrict, Table
    <3>3. procs'[k] = procs[k]
      BY <2>3, <3>1, <3>2, WaitReturnsFacts
    <3> QED
      BY <2>1, <3>1, <3>2, <3>3 DEF BusyWith
  <2>4. ASSUME NEW pid \in Pids, Respawn(pid)
        PROVE  Holder(k, q)' /\ k \in Table'
    <3>1. op.id \in Table /\ Respawned(op.id, pid) /\ op.step = "respawn"
          /\ procs[op.id].reaped
      BY <2>4 DEF Respawn, OpShape
    <3>2. k # op.id /\ Table' = Table
      BY <2>1, <3>1, RespawnedFacts DEF Table
    <3>3. procs'[k] = procs[k]
      BY <3>1, <3>2, RespawnedFacts
    <3> QED
      BY <2>1, <3>1, <3>2, <3>3 DEF BusyWith
  <2>5. ~ (\E pid \in Pids : AutoRespawn(pid)) /\ ~ \E i \in Table : OwnerReapsChild(i)
    BY DEF AutoRespawn, OwnerReapsChild, Quiet, OpShape
  <2>6. ASSUME NEW pid \in Pids, ChildExits(pid)
        PROVE  Holder(k, q)' /\ k \in Table'
    BY <2>1, <2>6 DEF ChildExits, Table, BusyWith
  <2>7. ASSUME ~ \E name \in Names, pid \in Pids : Spawn(name, pid),
               ~ WaitReturns,
               ~ \E pid \in Pids : Respawn(pid),
               ~ \E pid \in Pids : ChildExits(pid)
        PROVE  Holder(k, q)' /\ k \in Table'
    <3>1. k \in Table'
      <4>1. Table' # Table => \E i \in Table : DeleteStopped(i)
        BY <2>7, TableChanges
      <4>2. ASSUME NEW i \in Table, DeleteStopped(i)
            PROVE  k # i /\ Table' = Table \ {i}
        BY <2>1, <4>2 DEF DeleteStopped, Restrict, MustStop, BusyWith, Table
      <4> QED
        BY <2>1, <4>1, <4>2
    <3>2. SameHandle(k)
      BY <2>5, <2>7, <3>1, EasySteps, Zenon
    <3>3. BusyWith(k) => BusyWith(k)'
      BY <2>7, StaysBusy
    <3>4. procs[k].state = "Running" => procs'[k].state = "Running" \/ BusyWith(k)'
      <4>1. ~CanRefuse(procs[k].pid) /\ Listed(procs[k].pid)
        BY <1>3, <2>1 DEF CanRefuse, Listed
      <4> QED
        BY <2>7, <3>1, <4>1, LeavesRunning
    <3> QED
      BY <2>1, <3>1, <3>2, <3>3, <3>4 DEF SameHandle
  <2> QED
    BY <2>2, <2>3, <2>4, <2>6, <2>7
<1> QED
  BY <1>1, <1>2, <1>3, OnlyStartsFork

-----------------------------------------------------------------------------
(* The rolling restart, and the theorems about the second half of IInv. *)

LEMMA RolledStep ==
    ASSUME Base, RolledStayRunning, [Next]_vars
    PROVE  RolledStayRunning'
<1> SUFFICES ASSUME op'.call = "restart", NEW j \in op'.done
             PROVE  j \in Table' /\ procs'[j].state = "Running"
  BY DEF RolledStayRunning
<1> USE DEF Base
<1> DEFINE Goal == j \in Table' /\ procs'[j].state = "Running"
<1>1. ASSUME op.call = "restart", j \in op.done
      PROVE  j \in Table /\ procs[j].state = "Running"
  BY <1>1 DEF RolledStayRunning
<1>2. CASE UNCHANGED vars
  BY <1>1, <1>2 DEF vars, Table
<1>3. ASSUME op = Idle /\ op' = op
      PROVE  FALSE
  BY <1>3, IdleFacts
<1>4. ASSUME NEW call, NEW targets, NEW force, Begin(call, targets, force)
      PROVE  Goal
  BY <1>4 DEF Begin, Idle
<1>5. ASSUME NEW i \in Table, Signal(i)
      PROVE  Goal
  <2>1. op'.done = op.done /\ op'.call = op.call /\ i \notin op.done
    BY <1>5 DEF Signal, OpShape, TypeOK, Operation
  <2>2. Table' = Table /\ \A k \in Table \ {i} : procs'[k] = procs[k]
    BY <1>5 DEF Signal, Table, TypeOK
  <2> QED
    BY <1>1, <2>1, <2>2
<1>6. ASSUME NEW i \in Table, SignalFails(i)
      PROVE  Goal
  <2>1. op.call # "restart" => op'.call # "restart"
    BY <1>6, ProceedFacts DEF SignalFails
  <2> QED
    BY <1>6, <2>1, IdleFacts DEF SignalFails
<1>7. ASSUME NEW i \in Table, DeleteStopped(i)
      PROVE  Goal
  BY <1>7, ProceedFacts DEF DeleteStopped, MustStop
<1>8. CASE WaitTimeout
  BY <1>1, <1>8 DEF WaitTimeout, Table, TypeOK, Operation
<1>9. CASE WaitReturns
  <2>1. op.call = "restart"
    BY <1>9, ProceedFacts DEF WaitReturns
  <2>2. op'.done = op.done /\ op.id \notin op.done
    BY <1>9, <2>1 DEF WaitReturns, OpShape, TypeOK, Operation
  <2>3. Table' = Table
    BY <1>9, <2>1 DEF WaitReturns, Table
  <2> QED
    BY <1>1, <1>9, <2>1, <2>2, <2>3, WaitReturnsFacts
<1>10. ASSUME NEW pid \in Pids, Respawn(pid)
       PROVE  Goal
  <2>1. op.id \in Table /\ op.id \notin op.done /\ Respawned(op.id, pid)
    BY <1>10 DEF Respawn, OpShape
  <2>2. op'.done = op.done \cup {op.id} /\ op'.call = op.call
    BY <1>10, IdleFacts DEF Respawn, TypeOK, Operation
  <2>3. Table' = Table
    BY <2>1, RespawnedFacts DEF Table
  <2> QED
    BY <1>1, <2>1, <2>2, <2>3, RespawnedFacts
<1>11. CASE RespawnFails
  BY <1>11, IdleFacts DEF RespawnFails
<1>12. CASE HealthCheck
  <2>1. op' = Proceed(op.todo) /\ procs' = procs
    BY <1>12, IdleFacts DEF HealthCheck
  <2> QED
    BY <1>1, <2>1, ProceedFacts DEF Table
<1>13. CASE SecondLock
  BY <1>13 DEF SecondLock, Idle
<1>14. ASSUME NEW k \in DOMAIN reports, TryAutoRestart(k)
       PROVE  FALSE
  BY <1>14, ProceedAutoFacts DEF TryAutoRestart, TypeOK, Operation
<1>15. ASSUME AutoRespawnFails \/ \E pid \in Pids : AutoRespawn(pid)
       PROVE  FALSE
  BY <1>15, ProceedAutoFacts DEF AutoRespawn, AutoRespawnFails, OpShape
<1>16. ASSUME NEW pid \in Pids, \/ ChildExits(pid) \/ OrphanReaped(pid)
                                \/ StrangerStarts(pid) \/ StrangerEnds(pid)
       PROVE  Goal
  BY <1>1, <1>16 DEF ChildExits, OrphanReaped, StrangerStarts, StrangerEnds, Table
<1>17. ASSUME NEW i \in Table, WindowSlides(i)
       PROVE  Goal
  BY <1>1, <1>17 DEF WindowSlides, Table, TypeOK, Entry
<1>18. ASSUME \/ \E name \in Names, pid \in Pids : Spawn(name, pid)
              \/ DetectCrashes
              \/ \E i \in Table : OwnerReapsChild(i)
       PROVE  FALSE
  BY <1>3, <1>18 DEF Spawn, DetectCrashes, OwnerReapsChild
<1> QED
  BY <1>2, <1>4, <1>5, <1>6, <1>7, <1>8, <1>9, <1>10, <1>11, <1>12, <1>13, <1>14,
     <1>15, <1>16, <1>17, <1>18, NextCases, Zenon

LEMMA IInvInvariant == Spec => []IInv
<1>1. Init => IInv
  <2> SUFFICES ASSUME Init PROVE IInv
    OBVIOUS
  <2>1. Table = {} /\ DOMAIN reports = {} /\ \A q \in Pids : os[q] # "running"
    BY DEF Init, Table
  <2>2. op.call = "none"
    BY IdleFacts DEF Init
  <2> QED
    BY <2>1, <2>2, BaseInit
       DEF Base, IInv, RunningIsHeld, Quiet, NoLeakedChild, RolledStayRunning
<1>2. IInv /\ [Next]_vars => IInv'
  BY BaseStep, HeldStep, QuietStep, LeakStep, RolledStep DEF IInv, Base
<1> QED
  BY <1>1, <1>2, PTL DEF Spec

\* Where only the manager reaps, a Running entry's pid is its own child's: the
\* first stop of it signals that child and nobody else.
THEOREM RunningPidsAreOurs == Spec => []RunningIsHeld
<1>1. IInv => RunningIsHeld
  BY DEF IInv
<1> QED
  BY <1>1, IInvInvariant, PTL

\* Where zombies are listed and only the manager reaps, no live child is ever
\* lost from the table, for any number of processes, pids and restarts.
THEOREM NoChildIsLost == Spec => []NoLeakedChild
<1>1. IInv => NoLeakedChild
  BY DEF IInv
<1> QED
  BY <1>1, IInvInvariant, PTL

\* A rolling restart leaves what it has restarted Running, whatever happens to
\* the instances that follow.
THEOREM RollingKeepsItsWork == Spec => []RolledStayRunning
<1>1. IInv => RolledStayRunning
  BY DEF IInv
<1> QED
  BY <1>1, IInvInvariant, PTL

-----------------------------------------------------------------------------
(***************************************************************************)
(* The table refines Lifecycle where zombies are listed and only the       *)
(* manager reaps.  Besides IInv this needs to know what an entry being     *)
(* stopped or respawned is shown as.                                       *)
(***************************************************************************)
Stage ==
    /\ op.step \in {"wait", "reap"} => procs[op.id].state = "Stopping"
    /\ op.step = "respawn" => procs[op.id].state = "Stopped"

LEMMA StageStep ==
    ASSUME Base, Stage, [Next]_vars
    PROVE  Stage'
<1> USE DEF Base, Table
<1> SUFFICES ASSUME op'.step \in {"wait", "reap", "respawn"}
             PROVE  Stage'
  BY DEF Stage
<1>1. CASE UNCHANGED vars
  BY <1>1 DEF Stage, vars
<1>2. ASSUME op' = Idle \/ op' = Proceed(op.todo)
      PROVE  FALSE
  BY <1>2, IdleFacts, ProceedFacts
<1>3. ASSUME NEW i \in Table, Signal(i)
      PROVE  Stage'
  <2>1. op'.step \in {"wait", "reap"} /\ op'.id = i
    BY <1>3 DEF Signal, TypeOK, Operation
  <2> QED
    BY <1>3, <2>1 DEF Signal, Stage, TypeOK, Entry
<1>4. CASE WaitTimeout
  BY <1>4 DEF WaitTimeout, Stage, TypeOK, Operation
<1>5. CASE WaitReturns
  <2>1. op' = [op EXCEPT !.step = "respawn"] /\ op.call = "restart"
    BY <1>2, <1>5 DEF WaitReturns
  <2>2. op'.step = "respawn" /\ op'.id = op.id
    BY <2>1 DEF TypeOK, Operation
  <2>3. op.id \in Table
    BY <1>5 DEF WaitReturns, OpShape
  <2> QED
    BY <1>5, <2>1, <2>2, <2>3, WaitReturnsFacts DEF Stage, WaitReturns
<1>6. ASSUME NEW i \in Table, WindowSlides(i) \/ OwnerReapsChild(i)
      PROVE  Stage'
  <2>1. op' = op /\ \A k \in Table : procs'[k].state = procs[k].state
    BY <1>6 DEF WindowSlides, OwnerReapsChild, TypeOK, Entry
  <2> QED
    BY <2>1 DEF Stage, OpShape
<1>7. ASSUME NEW pid \in Pids, \/ ChildExits(pid) \/ OrphanReaped(pid)
                               \/ StrangerStarts(pid) \/ StrangerEnds(pid)
      PROVE  Stage'
  BY <1>7 DEF ChildExits, OrphanReaped, StrangerStarts, StrangerEnds, Stage
<1>8. ASSUME NEW call, NEW targets, NEW force, Begin(call, targets, force)
      PROVE  FALSE
  BY <1>8 DEF Begin, Idle
<1>9. ASSUME \/ \E name \in Names, pid \in Pids : Spawn(name, pid)
             \/ DetectCrashes
      PROVE  FALSE
  BY <1>9, IdleFacts DEF Spawn, DetectCrashes
<1>10. ASSUME NEW i \in Table, SignalFails(i) \/ DeleteStopped(i)
       PROVE  FALSE
  BY <1>10, IdleFacts, ProceedFacts DEF SignalFails, DeleteStopped
<1>11. ASSUME NEW pid \in Pids, Respawn(pid)
       PROVE  FALSE
  BY <1>11, IdleFacts DEF Respawn, TypeOK, Operation
<1>12. ASSUME RespawnFails \/ HealthCheck
       PROVE  FALSE
  BY <1>12, IdleFacts, ProceedFacts DEF RespawnFails, HealthCheck
<1>13. ASSUME \/ SecondLock \/ AutoRespawnFails
              \/ \E j \in DOMAIN reports : TryAutoRestart(j)
              \/ \E pid \in Pids : AutoRespawn(pid)
       PROVE  FALSE
  <2>1. ~SecondLock
    BY DEF SecondLock, Idle
  <2> QED
    BY <1>13, <2>1, ProceedAutoFacts
       DEF AutoRespawnFails, TryAutoRestart, AutoRespawn, TypeOK, Operation
<1> QED
  BY <1>1, <1>3, <1>4, <1>5, <1>6, <1>7, <1>8, <1>9, <1>10, <1>11, <1>12, <1>13,
     NextCases, Zenon

\* No child of i is alive once it has exited.
LEMMA ExitedHasNoKid ==
    ASSUME TypeOK, NEW i \in Table, Exited(i)
    PROVE  Promise!KidsOf(i) = {}
BY DEF Promise!KidsOf, Kids, Live, Exited, TypeOK, Entry

\* A step that changes no handle changes whose children live only by deaths.
LEMMA KidsFrame ==
    ASSUME TypeOK, Table' = Table, \A i \in Table : SameHandle(i), Live' \subseteq Live
    PROVE  Kids' = {k \in Kids : k[2] \notin Live \ Live'}
BY DEF Kids, SameHandle

\* How an entry is shown depends on its state and on the entry being stopped.
LEMMA ShownFrame ==
    ASSUME NEW i, procs'[i].state = procs[i].state, BusyWith(i)' <=> BusyWith(i)
    PROVE  Shown(i)' = Shown(i)
BY DEF Shown

LEMMA StutterFrame ==
    ASSUME TypeOK, Table' = Table, \A i \in Table : SameHandle(i),
           \A i \in Table : Shown(i)' = Shown(i), Live' = Live, next_id' = next_id
    PROVE  UNCHANGED Promise!vars
<1>1. Kids' = Kids
  BY KidsFrame
<1>2. ShownTable' = ShownTable
  BY DEF ShownTable
<1> QED
  BY <1>1, <1>2 DEF Promise!vars

LEMMA DeathFrame ==
    ASSUME TypeOK, Table' = Table, \A i \in Table : SameHandle(i),
           \A i \in Table : Shown(i)' = Shown(i), next_id' = next_id,
           NEW pid \in Pids, Live' = Live \ {pid}
    PROVE  Promise!Next
<1>1. Kids' = {k \in Kids : k[2] \notin {pid}}
  BY KidsFrame DEF Kids
<1>2. ShownTable' = ShownTable
  BY DEF ShownTable
<1> QED
  BY <1>1, <1>2 DEF Promise!Next, Promise!Dies, Promise!Die

\* Showing entry i as `how' and leaving the others alone.
LEMMA ShowFrame ==
    ASSUME NEW i, NEW how, Table' = Table \cup {i}, Shown(i)' = how,
           \A j \in Table \ {i} : Shown(j)' = Shown(j)
    PROVE  Promise!Show(i, how)
BY DEF Promise!Show, Promise!Present, ShownTable

LEMMA PromiseStep ==
    ASSUME ZombieListed, ~OwnerReaps, IInv, Stage, [Next]_vars
    PROVE  [Promise!Next]_Promise!vars
<1> USE DEF IInv
<1> DEFINE Goal == Promise!Next \/ UNCHANGED Promise!vars
<1> SUFFICES Goal
  OBVIOUS
<1>1. CASE UNCHANGED vars
  BY <1>1 DEF vars, Promise!vars, ShownTable, Kids, Live, Table, Shown, BusyWith
<1>2. ASSUME NEW name \in Names, NEW pid \in Pids, Spawn(name, pid)
      PROVE  Goal
  <2> PICK n \in Nat : n = next_id
    BY DEF TypeOK
  <2>1. Table' = Table \cup {n} /\ n \notin Table /\ n \in Ids
    BY <1>2 DEF Spawn, Table, TypeOK
  <2>2. \A j \in Table : procs'[j] = procs[j] /\ Shown(j)' = Shown(j)
    BY <1>2, <2>1 DEF Spawn, Shown, BusyWith
  <2>3. procs'[n] = NewEntry(name, pid) /\ Shown(n)' = "up"
    BY <1>2, <2>1 DEF Spawn, Shown, NewEntry
  <2>4. Live' = Live \cup {pid} /\ pid \notin Live
    BY <1>2 DEF Spawn, Live, TypeOK
  <2>5. Kids' = Kids \cup {<<n, pid>>}
    <3>1. \A j \in Table : ~procs[j].reaped => procs[j].pid # pid
      BY <1>2 DEF Spawn, HandlesHoldPids
    <3> QED
      BY <2>1, <2>2, <2>3, <2>4, <3>1 DEF Kids, NewEntry
  <2>6. Promise!Show(n, "up")
    BY <2>1, <2>2, <2>3, ShowFrame
  <2> QED
    BY <1>2, <2>1, <2>4, <2>5, <2>6
       DEF Spawn, Promise!Next, Promise!Create, Promise!Born
<1>3. ASSUME NEW i \in Table, Signal(i)
      PROVE  Goal
  <2>1. Table' = Table /\ next_id' = next_id /\ \A j \in Table : SameHandle(j)
    BY <1>3, SameHandles DEF Signal, Table, States
  <2>2. BusyWith(i)' /\ procs'[i].state = "Stopping"
    BY <1>3 DEF Signal, BusyWith, TypeOK, Operation, Entry
  <2>3. \A j \in Table \ {i} : /\ procs'[j].state = procs[j].state
                               /\ BusyWith(j)' <=> BusyWith(j)
    BY <1>3 DEF Signal, BusyWith, TypeOK, Operation
  <2>4. Promise!Show(i, "ending")
    <3>1. Shown(i)' = "ending"
      BY <2>2 DEF Shown
    <3> QED
      BY <2>1, <2>3, <3>1, ShownFrame, ShowFrame
  <2>5. Live' \subseteq Live
    BY <1>3 DEF Signal, Live, Killed, TypeOK, Entry
  <2>6. Promise!Die(Live \ Live')
    BY <2>1, <2>5, KidsFrame DEF Promise!Die
  <2> QED
    BY <2>1, <2>4, <2>6
       DEF Promise!Next, Promise!BeginsToEnd, Promise!Present, ShownTable
<1>4. ASSUME NEW i \in Table, SignalFails(i)
      PROVE  Goal
  <2>1. Table' = Table /\ next_id' = next_id /\ \A j \in Table : SameHandle(j)
    BY <1>4, SameHandles DEF SignalFails, Table, States
  <2>2. op.step = "next" /\ op'.step \in {"idle", "next"}
    BY <1>4, IdleFacts, ProceedFacts DEF SignalFails
  <2>3. procs'[i].state = "Stopping"
    BY <1>4 DEF SignalFails, TypeOK, Entry
  <2>4. Promise!Show(i, "down")
    <3>1. Shown(i)' = "down"
      BY <2>2, <2>3 DEF Shown, BusyWith
    <3>2. \A j \in Table \ {i} : Shown(j)' = Shown(j)
      BY <1>4, <2>2 DEF SignalFails, Shown, BusyWith, TypeOK
    <3> QED
      BY <2>1, <3>1, <3>2, ShowFrame
  <2>5. Exited(i)
    BY <1>4 DEF SignalFails, CanRefuse, HandlesHoldPids, Exited
  <2>6. Live' = Live
    BY <1>4 DEF SignalFails, Live
  <2>7. Kids' = Kids
    BY <2>1, <2>6, KidsFrame
  <2> QED
    BY <2>1, <2>4, <2>5, <2>6, <2>7, ExitedHasNoKid
       DEF Promise!Next, Promise!GoesDown, Promise!Present, ShownTable
<1>5. ASSUME NEW i \in Table, next_id' = next_id, Live' = Live, Exited(i), Shown(i) # "up",
             procs' = Restrict(procs, Table \ {i}), \A j \in Table \ {i} : ~BusyWith(j),
             op'.step \in {"idle", "next"}
      PROVE  Promise!Leaves(i)
  <2>1. Table' = Table \ {i} /\ \A j \in Table' : procs'[j] = procs[j]
    BY <1>5 DEF Restrict, Table
  <2>2. ShownTable' = [j \in Table \ {i} |-> Shown(j)]
    <3>1. \A j \in Table' : Shown(j)' = Shown(j)
      BY <1>5, <2>1 DEF Shown, BusyWith
    <3> QED
      BY <2>1, <3>1 DEF ShownTable
  <2>3. Promise!KidsOf(i) = {}
    BY <1>5, ExitedHasNoKid
  <2>4. Kids' = Kids
    BY <1>5, <2>1, <2>3 DEF Kids, Promise!KidsOf
  <2> QED
    BY <1>5, <2>2, <2>3, <2>4 DEF Promise!Leaves, Promise!Present, ShownTable
<1>6. ASSUME NEW i \in Table, DeleteStopped(i)
      PROVE  Goal
  <2>1. procs[i].state = "Stopped" /\ op.step = "next"
    BY <1>6 DEF DeleteStopped, MustStop
  <2>2. Exited(i) /\ Shown(i) # "up" /\ \A j \in Table : ~BusyWith(j)
    BY <2>1 DEF DownIsDead, Shown, BusyWith
  <2>3. op'.step \in {"idle", "next"}
    BY <1>6, ProceedFacts DEF DeleteStopped
  <2>4. Promise!Leaves(i)
    BY <1>5, <1>6, <2>2, <2>3 DEF DeleteStopped, Live
  <2> QED
    BY <2>4 DEF Promise!Next, Promise!Present, ShownTable
<1>7. CASE WaitTimeout
  <2>1. op.id \in Table /\ procs[op.id].pid \in Pids
    BY <1>7 DEF WaitTimeout, OpShape, TypeOK, Entry
  <2>2. /\ Table' = Table /\ next_id' = next_id /\ \A j \in Table : SameHandle(j)
        /\ \A j \in Table : procs'[j].state = procs[j].state
    BY <1>7 DEF WaitTimeout, SameHandle, Table
  <2>3. \A j \in Table : BusyWith(j)' <=> BusyWith(j)
    BY <1>7 DEF WaitTimeout, BusyWith, TypeOK, Operation
  <2>4. Live' = Live \ {procs[op.id].pid}
    BY <1>7, <2>1 DEF WaitTimeout, Killed, Live, TypeOK
  <2> QED
    BY <2>1, <2>2, <2>3, <2>4, ShownFrame, DeathFrame
<1>8. CASE WaitReturns
  <2>1. op.id \in Table /\ Exited(op.id) /\ next_id' = next_id /\ BusyWith(op.id)
    BY <1>8 DEF WaitReturns, OpShape, BusyWith
  <2>2. Live' = Live
    BY <1>8, <2>1 DEF WaitReturns, Reap, Exited, Live, TypeOK, Entry
  <2>3. Shown(op.id) # "up" /\ \A j \in Table \ {op.id} : ~BusyWith(j)
    BY <1>8 DEF WaitReturns, Stage, Shown, BusyWith
  <2>4. op'.step \notin {"wait", "reap"}
    BY <1>8, ProceedFacts DEF WaitReturns, TypeOK, Operation
  <2>5. CASE op.call = "delete"
    <3>1. op'.step \in {"idle", "next"}
      BY <1>8, <2>5, ProceedFacts DEF WaitReturns
    <3>2. Promise!Leaves(op.id)
      BY <1>5, <1>8, <2>1, <2>2, <2>3, <2>5, <3>1 DEF WaitReturns
    <3> QED
      BY <2>1, <3>2 DEF Promise!Next, Promise!Present, ShownTable
  <2>6. CASE op.call # "delete"
    <3> PICK i \in Table : i = op.id
      BY <2>1
    <3>1. Table' = Table
      BY <1>8, <2>6 DEF WaitReturns, Table
    <3>2. \A j \in Table \ {i} : procs'[j] = procs[j] /\ Shown(j)' = Shown(j)
      BY <1>8, <2>3, <2>4, <3>1, WaitReturnsFacts DEF Shown, BusyWith
    <3>3. procs'[i].reaped /\ Shown(i)' = "down"
      BY <1>8, <2>1, <2>4, <3>1, WaitReturnsFacts DEF Shown, BusyWith
    <3>4. Promise!KidsOf(i) = {}
      BY <2>1, ExitedHasNoKid
    <3>5. Kids' = Kids
      BY <2>2, <3>1, <3>2, <3>3, <3>4 DEF Kids, Promise!KidsOf
    <3>6. Promise!Show(i, "down")
      BY <2>1, <3>1, <3>2, <3>3, ShowFrame
    <3> QED
      BY <2>1, <2>2, <3>4, <3>5, <3>6
         DEF Promise!Next, Promise!GoesDown, Promise!Present, ShownTable
  <2> QED
    BY <2>5, <2>6
<1>9. ASSUME NEW pid \in Pids, Respawn(pid)
      PROVE  Goal
  <2> PICK i \in Table : i = op.id
    BY <1>9 DEF Respawn, OpShape
  <2>1. i \in Table /\ Respawned(i, pid) /\ Exited(i) /\ next_id' = next_id
    BY <1>9 DEF Respawn, OpShape, Exited
  <2>2. Table' = Table /\ procs'[i].state = "Running" /\ procs'[i].pid = pid
        /\ procs'[i].reaped = FALSE /\ \A j \in Table \ {i} : procs'[j] = procs[j]
    BY <2>1, RespawnedFacts DEF Table
  <2>3. op.step = "respawn" /\ op'.step \notin {"wait", "reap"}
    BY <1>9, IdleFacts DEF Respawn, TypeOK, Operation
  <2>4. Shown(i) = "down" /\ Shown(i)' = "up"
    BY <2>2, <2>3 DEF Shown, Stage, BusyWith
  <2>5. \A j \in Table \ {i} : Shown(j)' = Shown(j)
    BY <2>2, <2>3 DEF Shown, BusyWith
  <2>6. Live' = Live \cup {pid} /\ pid \notin Live
    BY <2>1 DEF Respawned, Live, TypeOK
  <2>7. Promise!KidsOf(i) = {}
    BY <2>1, ExitedHasNoKid
  <2>8. Kids' = Kids \cup {<<i, pid>>}
    <3>1. \A j \in Table : ~procs[j].reaped => procs[j].pid # pid
      BY <2>1 DEF Respawned, HandlesHoldPids
    <3> QED
      BY <2>1, <2>2, <2>6, <2>7, <3>1 DEF Kids, Promise!KidsOf
  <2>9. Promise!Show(i, "up")
    BY <2>1, <2>2, <2>4, <2>5, ShowFrame
  <2>10. ShownTable[i] = "down"
    BY <2>1, <2>4 DEF ShownTable
  <2>11. Promise!ComesUp(i, pid)
    BY <2>1, <2>6, <2>7, <2>8, <2>9, <2>10 DEF Promise!ComesUp, Promise!Born
  <2> QED
    BY <2>1, <2>11 DEF Promise!Next, Promise!Present, ShownTable
<1>10. ASSUME NEW call, NEW targets, NEW force, Begin(call, targets, force)
       PROVE  Goal
  <2>1. op.step = "idle" /\ op'.step = "next"
    BY <1>10, IdleFacts DEF Begin, Idle
  <2>2. \A j \in Table : Shown(j)' = Shown(j) /\ SameHandle(j)
    BY <1>10, <2>1 DEF Begin, Shown, BusyWith, SameHandle
  <2> QED
    BY <1>10, <2>2, StutterFrame DEF Begin, Live, Table
<1>11. ASSUME RespawnFails \/ HealthCheck
       PROVE  Goal
  <2>1. op.step \in {"respawn", "health"} /\ op'.step \in {"idle", "next"}
    BY <1>11, IdleFacts, ProceedFacts DEF RespawnFails, HealthCheck
  <2>2. \A j \in Table : Shown(j)' = Shown(j) /\ SameHandle(j)
    BY <1>11, <2>1 DEF RespawnFails, HealthCheck, Shown, BusyWith, SameHandle
  <2> QED
    BY <1>11, <2>2, StutterFrame DEF RespawnFails, HealthCheck, Live, Table
<1>12. ASSUME NEW pid \in Pids, ChildExits(pid)
       PROVE  Goal
  <2>1. Live' = Live \ {pid}
    BY <1>12 DEF ChildExits, Live, TypeOK
  <2>2. \A j \in Table : Shown(j)' = Shown(j) /\ SameHandle(j)
    BY <1>12 DEF ChildExits, Shown, BusyWith, SameHandle
  <2> QED
    BY <1>12, <2>1, <2>2, DeathFrame DEF ChildExits, Table
<1>13. ASSUME NEW pid \in Pids, OrphanReaped(pid) \/ StrangerStarts(pid) \/ StrangerEnds(pid)
       PROVE  Goal
  <2>1. Live' = Live
    BY <1>13 DEF OrphanReaped, StrangerStarts, StrangerEnds, Live, TypeOK
  <2>2. \A j \in Table : Shown(j)' = Shown(j) /\ SameHandle(j)
    BY <1>13 DEF OrphanReaped, StrangerStarts, StrangerEnds, Shown, BusyWith, SameHandle
  <2> QED
    BY <1>13, <2>1, <2>2, StutterFrame
       DEF OrphanReaped, StrangerStarts, StrangerEnds, Table
<1>14. ASSUME NEW i \in Table, WindowSlides(i)
       PROVE  Goal
  <2>1. Table' = Table /\ \A j \in Table : SameHandle(j)
    BY <1>14, SameHandles DEF WindowSlides, Table
  <2>2. \A j \in Table : Shown(j)' = Shown(j)
    BY <1>14 DEF WindowSlides, Shown, BusyWith, TypeOK, Entry
  <2> QED
    BY <1>14, <2>1, <2>2, StutterFrame DEF WindowSlides, Live
<1>15. ~DetectCrashes
  <2>1. \A i \in Table : procs[i].state = "Running" => Listed(procs[i].pid)
    BY DEF RunningIsHeld, HandlesHoldPids, Listed
  <2> QED
    BY <2>1 DEF DetectCrashes, CrashedNow
<1>16. ~ \/ SecondLock \/ AutoRespawnFails
         \/ \E j \in DOMAIN reports : TryAutoRestart(j)
         \/ \E pid \in Pids : AutoRespawn(pid)
  BY DEF Quiet, SecondLock, TryAutoRestart, AutoRespawn, AutoRespawnFails, OpShape
<1>17. ~ \E i \in Table : OwnerReapsChild(i)
  BY DEF OwnerReapsChild
<1> QED
  BY <1>1, <1>2, <1>3, <1>4, <1>6, <1>7, <1>8, <1>9, <1>10, <1>11, <1>12, <1>13, <1>14,
     <1>15, <1>16, <1>17, NextCases, Zenon

LEMMA PromiseInit == Init => Promise!Init
<1> SUFFICES ASSUME Init PROVE Promise!Init
  OBVIOUS
<1>1. Table = {} /\ Live = {}
  BY DEF Init, Table, Live
<1> QED
  BY <1>1 DEF Init, Promise!Init, Kids, ShownTable

LEMMA StageInvariant == Spec => []Stage
<1>1. Init => Stage
  BY IdleFacts DEF Init, Stage
<1>2. Base /\ Stage /\ [Next]_vars => Stage'
  BY StageStep
<1> QED
  BY <1>1, <1>2, BaseInvariant, PTL DEF Spec

\* On Linux, with nobody else reaping, the table is an implementation of
\* Lifecycle for any names, pids, budget and number of entries: stop, restart,
\* rolling_restart and delete keep one child per entry and hide none.
THEOREM TableKeepsPromise ==
    ASSUME ZombieListed, ~OwnerReaps
    PROVE  Spec => KeepsPromise
<1>1. IInv /\ Stage /\ [Next]_vars => [Promise!Next]_Promise!vars
  BY PromiseStep
<1> QED
  BY <1>1, PromiseInit, IInvInvariant, StageInvariant, PTL
     DEF Spec, KeepsPromise, Promise!Spec

-----------------------------------------------------------------------------
(* What Lifecycle itself guarantees, whoever implements it. *)

\* Entries have the ids given out so far.
KidsInv ==
    /\ next_id \in Nat
    /\ \A i \in DOMAIN ShownTable : i \in Nat /\ i < next_id
    /\ Promise!KidsAreKept

\* A child is born to an entry that has none.
LEMMA BornKept ==
  ASSUME Promise!KidsAreKept, NEW i, NEW pid, Promise!Born(i, pid), Promise!Show(i, "up"),
         \A k \in Kids : k[1] # i
  PROVE  Promise!KidsAreKept'
<1>1. /\ Live' = Live \cup {pid} /\ pid \notin Live
      /\ Kids' = Kids \cup {<<i, pid>>}
      /\ ShownTable' = [j \in DOMAIN ShownTable \cup {i} |-> IF j = i THEN "up" ELSE ShownTable[j]]
  BY DEF Promise!Born, Promise!Show, Promise!Present
<1>2. /\ \A k \in Kids : \E j \in DOMAIN ShownTable, q \in Live : k = <<j, q>>
      /\ \A q \in Live : \E k \in Kids : k[2] = q
      /\ \A k, l \in Kids : k[1] = l[1] \/ k[2] = l[2] => k = l
      /\ \A k \in Kids : ShownTable[k[1]] # "down"
  BY DEF Promise!KidsAreKept, Promise!Present
<1>3. DOMAIN ShownTable' = DOMAIN ShownTable \cup {i}
  BY <1>1
<1>4. ASSUME NEW k \in Kids'
      PROVE  \E j \in DOMAIN ShownTable', q \in Live' : k = <<j, q>>
  <2>1. CASE k = <<i, pid>>
    BY <1>1, <1>3, <2>1
  <2>2. CASE k \in Kids
    <3>1. PICK j \in DOMAIN ShownTable, q \in Live : k = <<j, q>>
      BY <1>2, <2>2
    <3>2. j \in DOMAIN ShownTable' /\ q \in Live'
      BY <1>1, <1>3
    <3> QED  BY <3>1, <3>2
  <2> QED  BY <1>1, <2>1, <2>2
<1>5. ASSUME NEW q \in Live' PROVE \E k \in Kids' : k[2] = q
  <2>1. CASE q = pid
    <3>1. <<i, pid>>[2] = q /\ <<i, pid>> \in Kids'
      BY <1>1, <2>1
    <3> QED  BY <3>1
  <2>2. CASE q \in Live
    BY <1>1, <1>2, <2>2
  <2> QED  BY <1>1, <2>1, <2>2
<1>6. \A k \in Kids : k[2] # pid
  BY <1>1, <1>2
<1>7. \A k, l \in Kids' : k[1] = l[1] \/ k[2] = l[2] => k = l
  BY <1>1, <1>2, <1>6
<1>8. \A k \in Kids' : ShownTable'[k[1]] # "down"
  BY <1>1, <1>2
<1> QED  BY <1>4, <1>5, <1>7, <1>8 DEF Promise!KidsAreKept, Promise!Present

\* Children die, and an entry changes how it is shown or leaves.
LEMMA DieKept ==
  ASSUME Promise!KidsAreKept, NEW dead, Promise!Die(dead),
         \A k \in Kids' : k[1] \in DOMAIN ShownTable' /\ ShownTable'[k[1]] # "down"
  PROVE  Promise!KidsAreKept'
<1>1. Live' = Live \ dead /\ Kids' = {k \in Kids : k[2] \notin dead}
  BY DEF Promise!Die
<1>2. /\ \A k \in Kids : \E j \in DOMAIN ShownTable, q \in Live : k = <<j, q>>
      /\ \A q \in Live : \E k \in Kids : k[2] = q
      /\ \A k, l \in Kids : k[1] = l[1] \/ k[2] = l[2] => k = l
  BY DEF Promise!KidsAreKept, Promise!Present
<1>3. \A k \in Kids' : \E j \in DOMAIN ShownTable', q \in Live' : k = <<j, q>>
  BY <1>1, <1>2
<1>4. \A q \in Live' : \E k \in Kids' : k[2] = q
  BY <1>1, <1>2
<1>5. \A k, l \in Kids' : k[1] = l[1] \/ k[2] = l[2] => k = l
  BY <1>1, <1>2
<1> QED  BY <1>3, <1>4, <1>5 DEF Promise!KidsAreKept, Promise!Present

LEMMA KidsStep ==
  ASSUME KidsInv, [Promise!Next]_Promise!vars
  PROVE  KidsInv'
<1>a. /\ next_id \in Nat
      /\ \A i \in DOMAIN ShownTable : i \in Nat /\ i < next_id
      /\ Promise!KidsAreKept
      /\ \A k \in Kids : k[1] \in DOMAIN ShownTable /\ k[2] \in Live /\ k = <<k[1], k[2]>>
      /\ \A k \in Kids : ShownTable[k[1]] # "down"
  BY DEF KidsInv, Promise!KidsAreKept, Promise!Present
<1>b. ASSUME NEW i, Promise!KidsOf(i) = {}
      PROVE  \A k \in Kids : k[1] # i
  BY <1>a, <1>b DEF Promise!KidsOf
<1>1. CASE UNCHANGED Promise!vars
  BY <1>1, <1>a DEF Promise!vars, KidsInv, Promise!KidsAreKept, Promise!Present
<1>2. ASSUME NEW pid, Promise!Create(pid)
      PROVE  KidsInv'
  <2>1. /\ Promise!Show(next_id, "up") /\ Promise!Born(next_id, pid)
        /\ next_id' = next_id + 1
    BY <1>2 DEF Promise!Create
  <2>2. \A k \in Kids : k[1] # next_id
    BY <1>a
  <2>3. Promise!KidsAreKept'
    BY <1>a, <2>1, <2>2, BornKept
  <2>4. DOMAIN ShownTable' = DOMAIN ShownTable \cup {next_id}
    BY <2>1 DEF Promise!Show, Promise!Present
  <2> QED  BY <1>a, <2>1, <2>3, <2>4 DEF KidsInv
<1>3. ASSUME NEW pid, Promise!Dies(pid)
      PROVE  KidsInv'
  <2>1. Promise!Die({pid}) /\ next_id' = next_id /\ ShownTable' = ShownTable
    BY <1>3 DEF Promise!Dies
  <2>2. \A k \in Kids' : k \in Kids
    BY <2>1 DEF Promise!Die
  <2>3. Promise!KidsAreKept'
    BY <1>a, <2>1, <2>2, DieKept
  <2> QED  BY <1>a, <2>1, <2>3 DEF KidsInv
<1>4. ASSUME NEW i \in DOMAIN ShownTable,
             next_id' = next_id,
             DOMAIN ShownTable' \subseteq DOMAIN ShownTable,
             Promise!KidsAreKept'
      PROVE  KidsInv'
  BY <1>a, <1>4 DEF KidsInv
<1>5. ASSUME NEW i \in DOMAIN ShownTable, NEW how, Promise!Show(i, how)
      PROVE  /\ DOMAIN ShownTable' = DOMAIN ShownTable
             /\ \A j \in DOMAIN ShownTable : ShownTable'[j] = IF j = i THEN how ELSE ShownTable[j]
  BY <1>5 DEF Promise!Show, Promise!Present
<1>6. ASSUME UNCHANGED <<Kids, Live>> PROVE Promise!Die({})
  BY <1>6 DEF Promise!Die
<1>7. ASSUME NEW i \in DOMAIN ShownTable, Promise!BeginsToEnd(i)
      PROVE  KidsInv'
  <2>1. PICK dead : Promise!Die(dead)
    BY <1>7 DEF Promise!BeginsToEnd
  <2>2. \A k \in Kids' : k \in Kids
    BY <2>1 DEF Promise!Die
  <2>3. Promise!KidsAreKept'
    BY <1>7, <1>a, <1>5, <2>1, <2>2, DieKept DEF Promise!BeginsToEnd
  <2> QED  BY <1>7, <1>4, <1>5, <2>3 DEF Promise!BeginsToEnd
<1>8. ASSUME NEW i \in DOMAIN ShownTable, Promise!GoesDown(i)
      PROVE  KidsInv'
  <2>1. \A k \in Kids' : k \in Kids /\ k[1] # i
    BY <1>8, <1>b DEF Promise!GoesDown
  <2>2. Promise!Die({})
    BY <1>8, <1>6 DEF Promise!GoesDown
  <2>3. Promise!KidsAreKept'
    BY <1>8, <1>a, <1>5, <2>1, <2>2, DieKept DEF Promise!GoesDown
  <2> QED  BY <1>8, <1>4, <1>5, <2>3 DEF Promise!GoesDown
<1>9. ASSUME NEW i \in DOMAIN ShownTable, NEW pid, Promise!ComesUp(i, pid)
      PROVE  KidsInv'
  <2>1. Promise!KidsAreKept'
    BY <1>9, <1>a, <1>b, BornKept DEF Promise!ComesUp
  <2> QED  BY <1>9, <1>4, <1>5, <2>1 DEF Promise!ComesUp
<1>10. ASSUME NEW i \in DOMAIN ShownTable, Promise!Leaves(i)
       PROVE  KidsInv'
  <2>1. \A k \in Kids' : k \in Kids /\ k[1] # i
    BY <1>10, <1>b DEF Promise!Leaves
  <2>2. Promise!Die({})
    BY <1>10, <1>6 DEF Promise!Leaves
  <2>3. /\ DOMAIN ShownTable' = DOMAIN ShownTable \ {i}
        /\ \A j \in DOMAIN ShownTable \ {i} : ShownTable'[j] = ShownTable[j]
    BY <1>10 DEF Promise!Leaves, Promise!Present
  <2>4. Promise!KidsAreKept'
    BY <1>a, <2>1, <2>2, <2>3, DieKept
  <2> QED  BY <1>10, <1>4, <2>3, <2>4 DEF Promise!Leaves
<1> QED
  BY <1>1, <1>2, <1>3, <1>7, <1>8, <1>9, <1>10 DEF Promise!Next, Promise!Present

\* Whatever keeps Lifecycle's promise has children and entries go together one
\* to one, with none behind an entry that is shown as down.
THEOREM PromiseKeepsKids == KeepsPromise => []Promise!KidsAreKept
<1>1. Promise!Init => KidsInv
  BY DEF Promise!Init, KidsInv, Promise!KidsAreKept, Promise!Present
<1>2. KidsInv /\ [Promise!Next]_Promise!vars => KidsInv'
  BY KidsStep
<1>3. KidsInv => Promise!KidsAreKept
  BY DEF KidsInv
<1> QED
  BY <1>1, <1>2, <1>3, PTL DEF KeepsPromise, Promise!Spec

\* So no live child is leaked.
LEMMA KeptKidsAreNotLeaked == Promise!KidsAreKept => NoLeakedChild
<1> SUFFICES ASSUME Promise!KidsAreKept, NEW pid \in Live
             PROVE  \E i \in Table : /\ procs[i].pid = pid
                                     /\ ~procs[i].reaped
                                     /\ procs[i].state = "Running" \/ BusyWith(i)
  BY DEF NoLeakedChild, Live
<1>1. PICK k \in Kids : k[2] = pid /\ ShownTable[k[1]] # "down"
  BY DEF Promise!KidsAreKept
<1>2. k[1] \in Table /\ procs[k[1]].pid = pid /\ ~procs[k[1]].reaped
  BY <1>1 DEF Kids
<1>3. Shown(k[1]) # "down"
  BY <1>1, <1>2 DEF ShownTable
<1> QED
  BY <1>2, <1>3 DEF Shown

-----------------------------------------------------------------------------
(* The restart budget. *)

LEMMA SpentType == TypeOK => Spent \in [Ids -> Nat]
BY DEF TypeOK, Entry, Spent

LEMMA GrantedFacts ==
    /\ op.step = "backoff" => Granted = {op.id}
    /\ op.step # "backoff" => Granted = {}
    /\ op'.step = "backoff" => Granted' = {op'.id}
    /\ op'.step # "backoff" => Granted' = {}
BY DEF Granted

\* The same entries, with the same restarts.
LEMMA SpentFrame ==
    ASSUME Table' = Table, \A i \in Table : procs'[i].recent = procs[i].recent
    PROVE  Spent' = Spent
BY DEF Spent

LEMMA BudgetStutter ==
    ASSUME Spent' = Spent, op' = op \/ (op.step # "backoff" /\ op'.step # "backoff")
    PROVE  UNCHANGED Budget!vars
BY GrantedFacts DEF Budget!vars, Granted

\* Marking an entry as in whatever state leaves its restarts alone.
LEMMA MarksSpendNothing ==
    ASSUME TypeOK, NEW i \in Table, NEW s, NEW r,
           \/ procs' = [procs EXCEPT ![i].state = s]
           \/ procs' = [procs EXCEPT ![i].reaped = r]
           \/ procs' = [procs EXCEPT ![i].state = s, ![i].reaped = r]
    PROVE  Spent' = Spent
<1>1. Table' = Table /\ \A j \in Table : procs'[j].recent = procs[j].recent
  BY DEF TypeOK, Table, Entry
<1> QED
  BY <1>1, SpentFrame

\* An entry that leaves the table takes its restarts with it.
LEMMA LeavingSpendsNothing ==
    ASSUME TypeOK, NEW i, procs' = Restrict(procs, Table \ {i})
    PROVE  Spent' \in [Ids -> Nat] /\ \A e \in Ids : Spent'[e] <= Spent[e]
<1>1. Table' = Table \ {i} /\ \A j \in Table' : procs'[j] = procs[j]
  BY DEF Restrict, Table
<1>2. Spent' = [e \in Ids |-> IF e \in Table \ {i} THEN procs[e].recent ELSE 0]
  BY <1>1 DEF Spent
<1>3. \A j \in Table : procs[j].recent \in Nat
  BY DEF TypeOK, Entry
<1> HIDE DEF Table
<1>4. \A e \in Ids : Spent'[e] = IF e \in Table \ {i} THEN procs[e].recent ELSE 0
  BY <1>2
<1>5. \A e \in Ids : Spent[e] = IF e \in Table THEN procs[e].recent ELSE 0
  BY DEF Spent
<1>6. \A e \in Ids : Spent'[e] \in Nat /\ Spent'[e] <= Spent[e]
  BY <1>3, <1>4, <1>5
<1> QED
  BY <1>2, <1>6

LEMMA OneLess ==
    ASSUME NEW f \in [Ids -> Nat], NEW i \in Ids, f[i] > 0,
           NEW g, g = [f EXCEPT ![i] = @ - 1]
    PROVE  g \in [Ids -> Nat] /\ \A e \in Ids : g[e] <= f[e]
<1>1. \A e \in Ids : g[e] \in Nat /\ g[e] <= f[e]
  OBVIOUS
<1> QED
  BY <1>1

LEMMA RespawnSpends ==
    ASSUME TypeOK, NEW i \in Table, NEW pid \in Pids, Respawned(i, pid)
    PROVE  i \in Ids /\ Spent' = [Spent EXCEPT ![i] = @ + 1]
<1>1. Table' = Table /\ i \in Ids /\ Table \subseteq Ids
  BY DEF Respawned, Table, TypeOK
<1>2. /\ procs'[i].recent = procs[i].recent + 1
      /\ \A j \in Table \ {i} : procs'[j] = procs[j]
  BY DEF Respawned, TypeOK, Entry
<1> HIDE DEF Table
<1> QED
  BY <1>1, <1>2 DEF Spent

LEMMA BudgetStep ==
    ASSUME TypeOK, OpShape, [Next]_vars
    PROVE  [Budget!Next]_Budget!vars
<1> DEFINE Goal == Budget!Next \/ UNCHANGED Budget!vars
<1> SUFFICES Goal
  OBVIOUS
<1>1. CASE UNCHANGED vars
  <2>1. Spent' = Spent
    BY <1>1 DEF vars, Spent, Table
  <2> QED
    BY <1>1, <2>1, BudgetStutter DEF vars
<1>2. ASSUME NEW name \in Names, NEW pid \in Pids, Spawn(name, pid)
      PROVE  Goal
  <2>1. Spent' = Spent
    <3>1. Table' = Table \cup {next_id} /\ next_id \notin Table
      BY <1>2 DEF Spawn, Table, TypeOK
    <3>2. procs'[next_id].recent = 0 /\ \A i \in Table : procs'[i] = procs[i]
      BY <1>2, <3>1 DEF Spawn, NewEntry, Table
    <3> HIDE DEF Table
    <3> QED
      BY <3>1, <3>2 DEF Spent
  <2> QED
    BY <1>2, <2>1, BudgetStutter DEF Spawn
<1>3. ASSUME \/ \E call \in {"stop", "restart", "delete"}, targets \in SUBSET Table,
                  force \in BOOLEAN : Begin(call, targets, force)
             \/ WaitTimeout \/ RespawnFails \/ HealthCheck \/ SecondLock
      PROVE  Goal
  <2>1. Spent' = Spent
    BY <1>3 DEF Begin, WaitTimeout, RespawnFails, HealthCheck, SecondLock, Spent, Table
  <2>2. op.step # "backoff" /\ op'.step # "backoff"
    <3>1. ASSUME NEW call, NEW targets, NEW force, Begin(call, targets, force)
          PROVE  op.step = "idle" /\ op'.step = "next"
      BY <3>1, IdleFacts DEF Begin, Operation
    <3>2. CASE SecondLock
      BY <3>2, IdleFacts DEF SecondLock, Operation
    <3>3. CASE WaitTimeout
      BY <3>3 DEF WaitTimeout, Operation, TypeOK
    <3>4. CASE RespawnFails \/ HealthCheck
      BY <3>4, IdleFacts, ProceedFacts DEF RespawnFails, HealthCheck
    <3> QED
      BY <1>3, <3>1, <3>2, <3>3, <3>4
  <2> QED
    BY <2>1, <2>2, BudgetStutter
<1>4. ASSUME NEW i \in Table, Signal(i) \/ SignalFails(i)
      PROVE  Goal
  <2>1. Spent' = Spent
    BY <1>4, MarksSpendNothing DEF Signal, SignalFails
  <2>2. op.step # "backoff" /\ op'.step # "backoff"
    <3>1. CASE Signal(i)
      BY <3>1 DEF Signal, Operation, TypeOK
    <3>2. CASE SignalFails(i)
      <4>1. op' = Idle \/ op' = Proceed(op.todo \ {i})
        BY <3>2 DEF SignalFails
      <4> QED
        BY <3>2, <4>1, IdleFacts, ProceedFacts DEF SignalFails
    <3> QED
      BY <1>4, <3>1, <3>2
  <2> QED
    BY <2>1, <2>2, BudgetStutter
<1>5. ASSUME NEW i \in Table, DeleteStopped(i)
      PROVE  Goal
  <2>1. Granted = {} /\ Granted' = {}
    BY <1>5, ProceedFacts, GrantedFacts DEF DeleteStopped
  <2> QED
    BY <1>5, <2>1, LeavingSpendsNothing DEF DeleteStopped, Budget!Next, Budget!WindowSlides
<1>6. CASE WaitReturns
  <2>1. op.step # "backoff" /\ op'.step # "backoff"
    BY <1>6, ProceedFacts DEF WaitReturns, TypeOK, Operation
  <2>2. CASE op.call = "delete"
    BY <1>6, <2>1, <2>2, LeavingSpendsNothing, GrantedFacts
       DEF WaitReturns, Budget!Next, Budget!WindowSlides
  <2>3. CASE op.call # "delete"
    <3>1. Spent' = Spent
      BY <1>6, <2>3, MarksSpendNothing DEF WaitReturns, OpShape
    <3> QED
      BY <2>1, <3>1, BudgetStutter
  <2> QED
    BY <2>2, <2>3
<1>7. ASSUME NEW pid \in Pids, Respawn(pid)
      PROVE  Goal
  <2>1. op.id \in Table /\ Respawned(op.id, pid)
    BY <1>7 DEF Respawn, OpShape
  <2>2. op.id \in Ids /\ Spent' = [Spent EXCEPT ![op.id] = @ + 1]
    BY <2>1, RespawnSpends
  <2>3. Granted = {} /\ Granted' = {}
    BY <1>7, IdleFacts, GrantedFacts DEF Respawn, TypeOK, Operation
  <2>4. Budget!UserRestarts(op.id)
    BY <2>2, <2>3 DEF Budget!UserRestarts, Budget!RestartsOnce
  <2> QED
    BY <2>2, <2>4 DEF Budget!Next
<1>8. CASE DetectCrashes
  <2>1. Table' = Table /\ \A i \in Table : procs'[i].recent = procs[i].recent
    BY <1>8 DEF DetectCrashes, Table, TypeOK, Entry
  <2>2. Spent' = Spent
    BY <2>1, SpentFrame
  <2> QED
    BY <1>8, <2>2, BudgetStutter DEF DetectCrashes
<1>9. ASSUME NEW j \in DOMAIN reports, TryAutoRestart(j)
      PROVE  Goal
  <2>1. Spent' = Spent /\ op.step = "next"
    BY <1>9 DEF TryAutoRestart, Spent, Table
  <2>2. CASE reports[j] \in Table /\ ShouldRestart(reports[j])
    <3>1. op'.step = "backoff" /\ op'.id = reports[j]
      BY <1>9, <2>2 DEF TryAutoRestart, TypeOK, Operation
    <3>2. Granted' = Granted \cup {reports[j]}
      BY <2>1, <3>1, GrantedFacts
    <3>3. reports[j] \in Ids /\ Spent[reports[j]] < MaxRestarts
      BY <2>2 DEF TypeOK, ShouldRestart, Spent
    <3>4. Budget!Grant(reports[j])
      BY <2>1, <3>2, <3>3 DEF Budget!Grant
    <3> QED
      BY <3>3, <3>4 DEF Budget!Next
  <2>3. CASE ~(reports[j] \in Table /\ ShouldRestart(reports[j]))
    <3>1. op'.step # "backoff"
      BY <1>9, <2>3, ProceedAutoFacts DEF TryAutoRestart
    <3> QED
      BY <2>1, <3>1, BudgetStutter
  <2> QED
    BY <2>2, <2>3
<1>10. ASSUME NEW pid \in Pids, AutoRespawn(pid)
       PROVE  Goal
  <2>1. op.id \in Table /\ Respawned(op.id, pid)
    BY <1>10 DEF AutoRespawn, OpShape
  <2>2. op.id \in Ids /\ Spent' = [Spent EXCEPT ![op.id] = @ + 1]
    BY <2>1, RespawnSpends
  <2>3. Granted = {op.id} /\ Granted' = {}
    BY <1>10, ProceedAutoFacts, GrantedFacts DEF AutoRespawn
  <2>4. Budget!AutoRestarts(op.id)
    BY <2>2, <2>3 DEF Budget!AutoRestarts, Budget!RestartsOnce
  <2> QED
    BY <2>2, <2>4 DEF Budget!Next
<1>11. CASE AutoRespawnFails
  <2>1. Spent' = Spent /\ op.id \in Ids
    BY <1>11 DEF AutoRespawnFails, Spent, Table, OpShape, TypeOK
  <2>2. Granted = {op.id} /\ Granted' = {}
    BY <1>11, ProceedAutoFacts, GrantedFacts DEF AutoRespawnFails
  <2>3. Budget!GivesUp(op.id)
    BY <2>1, <2>2 DEF Budget!GivesUp
  <2> QED
    BY <2>1, <2>3 DEF Budget!Next
<1>12. ASSUME NEW pid \in Pids, \/ ChildExits(pid) \/ OrphanReaped(pid)
                                \/ StrangerStarts(pid) \/ StrangerEnds(pid)
       PROVE  Goal
  <2>1. Spent' = Spent /\ op' = op
    BY <1>12 DEF ChildExits, OrphanReaped, StrangerStarts, StrangerEnds, Spent, Table
  <2> QED
    BY <2>1, BudgetStutter
<1>13. ASSUME NEW i \in Table, OwnerReapsChild(i)
       PROVE  Goal
  <2>1. Spent' = Spent /\ op' = op
    BY <1>13, MarksSpendNothing DEF OwnerReapsChild
  <2> QED
    BY <2>1, BudgetStutter
<1>14. ASSUME NEW i \in Table, WindowSlides(i)
       PROVE  Goal
  <2>1. Table' = Table /\ i \in Ids /\ Table \subseteq Ids /\ op' = op
    BY <1>14 DEF WindowSlides, Table, TypeOK
  <2>2. /\ procs[i].recent \in Nat /\ procs[i].recent > 0
        /\ procs'[i].recent = procs[i].recent - 1
        /\ \A j \in Table \ {i} : procs'[j] = procs[j]
    BY <1>14 DEF WindowSlides, TypeOK, Entry
  <2>3. Spent \in [Ids -> Nat] /\ Spent' = [Spent EXCEPT ![i] = @ - 1] /\ Spent[i] > 0
    <3> HIDE DEF Table
    <3> QED
      BY <2>1, <2>2, SpentType DEF Spent
  <2>4. Spent' \in [Ids -> Nat] /\ \A e \in Ids : Spent'[e] <= Spent[e]
    BY <2>1, <2>3, OneLess
  <2>5. Granted' = Granted
    BY <2>1 DEF Granted
  <2> QED
    BY <2>4, <2>5 DEF Budget!Next, Budget!WindowSlides
<1> QED
  BY <1>1, <1>2, <1>3, <1>4, <1>5, <1>6, <1>7, <1>8, <1>9, <1>10, <1>11, <1>12, <1>13, <1>14,
     NextCases, Zenon

LEMMA BudgetInit == Init => Budget!Init
<1> SUFFICES ASSUME Init PROVE Budget!Init
  OBVIOUS
<1>1. Table = {} /\ Granted = {}
  BY GrantedFacts, IdleFacts DEF Init, Table
<1> QED
  BY <1>1 DEF Budget!Init, Spent

\* The table keeps the budget that RestartBudget promises, on every platform,
\* for any number of entries, reports and users: between a check of an entry's
\* budget and the restart that it grants, no other restart spends it.
THEOREM TableKeepsBudget == Spec => KeepsBudget
<1>1. Base /\ [Next]_vars => [Budget!Next]_Budget!vars
  BY BudgetStep DEF Base
<1> QED
  BY <1>1, BudgetInit, BaseInvariant, PTL DEF Spec, KeepsBudget, Budget!Spec

-----------------------------------------------------------------------------
(***************************************************************************)
(* Why operations end.  That they do, under the fairness of FairSpec, is   *)
(* OpsEnd, which TLC checks; what it rests on is safety: an operation can  *)
(* always go on, and every step it makes leaves it less to do.             *)
(***************************************************************************)

\* Some step of the operation that holds the lock has its guard.  The one wait
\* without a timeout is for a child that SIGKILL has ended.
CanGoOn ==
    op # Idle =>
        \/ /\ op.step = "next"
           /\ \E i \in op.todo :
                 MustStop(i) => CanSignal(procs[i].pid) \/ CanRefuse(procs[i].pid)
        \/ op.step = "next" /\ op.call = "auto" /\ DOMAIN reports # {}
        \/ op.step = "wait"
        \/ op.step = "reap" /\ Exited(op.id)
        \/ op.step \in {"respawn", "health", "backoff"}

\* How many steps an operation is from its next target.
StepsLeft ==
    [step \in {"idle", "next", "wait", "reap", "respawn", "health", "backoff"} |->
        CASE step = "wait" -> 4 [] step = "reap" -> 3 [] step = "respawn" -> 2
          [] step \in {"health", "backoff"} -> 1 [] OTHER -> 0]

\* The operation has fewer targets left, or is nearer to its next one.
Advances ==
    /\ op'.todo \subseteq op.todo
    /\ DOMAIN reports' \subseteq DOMAIN reports
    /\ \/ op'.todo # op.todo
       \/ DOMAIN reports' # DOMAIN reports
       \/ StepsLeft[op'.step] < StepsLeft[op.step]

\* Every step of an operation ends it or advances it, and nothing else touches it.
OpsAdvance ==
    [][op # Idle => \/ op' = Idle
                    \/ op'.call = op.call /\ Advances
                    \/ ~OpStep /\ UNCHANGED <<op, reports>>]_vars

\* What an operation that has begun is about.
Underway ==
    op # Idle =>
        /\ op.step # "idle"
        /\ op.step = "next" => \/ op.call # "auto" /\ op.todo # {}
                               \/ op.call = "auto" /\ DOMAIN reports # {}
        /\ op.step = "reap" => Exited(op.id)

LEMMA ProceedUnderway ==
    ASSUME NEW todo, Proceed(todo) # Idle
    PROVE  /\ todo # {} /\ Proceed(todo) = [op EXCEPT !.step = "next", !.id = NoId, !.todo = todo]
BY DEF Proceed

LEMMA ProceedAutoUnderway ==
    ASSUME NEW rest, ProceedAuto(rest) # Idle
    PROVE  DOMAIN rest # {} /\ ProceedAuto(rest) = [op EXCEPT !.step = "next", !.id = NoId]
BY DEF ProceedAuto

\* Who was killed is dead.
LEMMA KilledExited ==
    ASSUME TypeOK, HandlesHoldPids, NEW i \in Table, os' = Killed(procs[i].pid),
           i \in Table', procs'[i].pid = procs[i].pid, procs'[i].reaped = procs[i].reaped
    PROVE  Exited(i)'
<1>1. procs[i].pid \in Pids /\ os \in [Pids -> PidStates]
  BY OsFacts DEF TypeOK
<1>2. CASE procs[i].reaped
  BY <1>2 DEF Exited
<1>3. CASE ~procs[i].reaped
  <2>1. os[procs[i].pid] \in {"running", "zombie"}
    BY <1>3 DEF HandlesHoldPids
  <2>2. os'[procs[i].pid] = "zombie"
    BY <1>1, <2>1 DEF Killed
  <2> QED
    BY <2>2 DEF Exited
<1> QED
  BY <1>2, <1>3

\* A dead child stays dead while nobody but the environment acts.
LEMMA EnvironmentKeepsDead ==
    ASSUME TypeOK, OpShape, HandlesHoldPids, op # Idle, NEW i \in Table, Exited(i),
           Environment \/ UNCHANGED vars
    PROVE  i \in Table' /\ Exited(i)'
<1>1. procs[i].pid \in Pids /\ os \in [Pids -> PidStates]
  BY OsFacts DEF TypeOK
<1>2. ASSUME NEW pid \in Pids, ChildExits(pid)
      PROVE  i \in Table' /\ Exited(i)'
  BY <1>1, <1>2 DEF ChildExits, Exited, Table
<1>3. ASSUME NEW pid \in Pids, OrphanReaped(pid)
      PROVE  i \in Table' /\ Exited(i)'
  BY <1>1, <1>3 DEF OrphanReaped, Held, Exited, Table
<1>4. ASSUME NEW pid \in Pids, StrangerStarts(pid) \/ StrangerEnds(pid)
      PROVE  i \in Table' /\ Exited(i)'
  BY <1>1, <1>4 DEF StrangerStarts, StrangerEnds, Exited, Table
<1>5. ASSUME NEW k \in Table, WindowSlides(k)
      PROVE  i \in Table' /\ Exited(i)'
  BY <1>5 DEF WindowSlides, Exited, Table, TypeOK, Entry
<1>6. CASE UNCHANGED vars
  BY <1>6 DEF vars, Exited, Table
<1> QED
  BY <1>2, <1>3, <1>4, <1>5, <1>6 DEF Environment, OwnerReapsChild

\* What a step of an operation does to it.
LEMMA OpStepAdvances ==
    ASSUME TypeOK, OpShape, HandlesHoldPids, op # Idle, OpStep
    PROVE  /\ op' = Idle \/ (op'.call = op.call /\ Advances)
           /\ Underway'
<1> DEFINE Goal == /\ op' = Idle \/ (op'.call = op.call /\ Advances)
                   /\ Underway'
<1>0. op \in Operation /\ DOMAIN op = {"call", "step", "id", "force", "todo", "done"}
  BY DEF TypeOK, Operation
<1>i. op' = Idle => Goal
  BY DEF Underway
<1>n. ASSUME NEW todo \in SUBSET op.todo, op' = Proceed(todo), reports' = reports,
             op.call # "auto",
             todo # op.todo \/ op.step \in {"reap", "wait", "respawn", "health", "backoff"}
      PROVE  Goal
  <2> SUFFICES ASSUME op' # Idle PROVE Goal
    BY <1>i
  <2>1. todo # {} /\ op' = [op EXCEPT !.step = "next", !.id = NoId, !.todo = todo]
    BY <1>n, ProceedUnderway
  <2>2. op'.step = "next" /\ op'.todo = todo /\ op'.call = op.call
    BY <1>0, <2>1
  <2> QED
    BY <1>n, <2>1, <2>2 DEF Advances, StepsLeft, Underway
<1>1. ASSUME NEW i \in Table, Signal(i)
      PROVE  Goal
  <2>1. /\ op'.step \in {"wait", "reap"} /\ op'.id = i /\ op'.call = op.call
        /\ op'.todo = op.todo \ {i} /\ i \in op.todo /\ reports' = reports
        /\ op'.step = "reap" => op.force
    BY <1>0, <1>1 DEF Signal
  <2>2. i \in Table' /\ procs'[i].pid = procs[i].pid /\ procs'[i].reaped = procs[i].reaped
    BY <1>1 DEF Signal, TypeOK, Entry, Table
  <2>3. op'.step = "reap" => Exited(i)'
    BY <1>1, <2>1, <2>2, KilledExited DEF Signal
  <2> QED
    BY <2>1, <2>3 DEF Advances, Underway, Exited
<1>2. ASSUME NEW i \in Table, SignalFails(i)
      PROVE  Goal
  BY <1>2, <1>i, <1>n DEF SignalFails, OpShape
<1>3. ASSUME NEW i \in Table, DeleteStopped(i)
      PROVE  Goal
  BY <1>3, <1>n DEF DeleteStopped, OpShape
<1>4. CASE WaitTimeout
  <2>1. op.id \in Table /\ op.step = "wait"
    BY <1>4 DEF WaitTimeout, OpShape
  <2>2. /\ op'.step = "reap" /\ op'.id = op.id /\ op'.call = op.call /\ op'.todo = op.todo
        /\ reports' = reports
    BY <1>0, <1>4 DEF WaitTimeout
  <2>3. Exited(op.id)'
    BY <1>4, <2>1, KilledExited DEF WaitTimeout, Table
  <2>4. Exited(op.id)' <=> (procs'[op.id].reaped \/ os'[procs'[op.id].pid] = "zombie")
    BY <2>2 DEF Exited
  <2> QED
    BY <2>1, <2>2, <2>3, <2>4 DEF Advances, StepsLeft, Underway, Exited
<1>5. CASE WaitReturns
  <2>1. CASE op.call = "restart"
    <3>1. /\ op'.step = "respawn" /\ op'.call = op.call /\ op'.todo = op.todo
          /\ reports' = reports /\ op.step \in {"wait", "reap"}
      BY <1>0, <1>5, <2>1 DEF WaitReturns
    <3> QED
      BY <3>1 DEF Advances, StepsLeft, Underway
  <2>2. CASE op.call # "restart" /\ op.call # "auto"
    BY <1>5, <1>n, <2>2 DEF WaitReturns
  <2>3. CASE op.call = "auto"
    <3>1. op.todo = {}
      BY <2>3 DEF OpShape
    <3> QED
      BY <1>5, <1>i, <2>3, <3>1 DEF WaitReturns, Proceed
  <2> QED
    BY <2>1, <2>2, <2>3
<1>6. ASSUME NEW pid \in Pids, Respawn(pid)
      PROVE  Goal
  <2>1. CASE op.todo = {}
    BY <1>6, <1>i, <2>1 DEF Respawn
  <2>2. CASE op.todo # {}
    <3>1. /\ op'.step = "health" /\ op'.call = op.call /\ op'.todo = op.todo
          /\ reports' = reports /\ op.step = "respawn"
      BY <1>0, <1>6, <2>2 DEF Respawn
    <3> QED
      BY <3>1 DEF Advances, StepsLeft, Underway
  <2> QED
    BY <2>1, <2>2
<1>7. CASE RespawnFails
  BY <1>7, <1>i DEF RespawnFails
<1>8. CASE HealthCheck
  <2>1. CASE op' = Idle
    BY <1>i, <2>1
  <2>2. CASE op' # Idle
    <3>1. op' = Proceed(op.todo)
      BY <1>8, <2>2 DEF HealthCheck
    <3>2. op.todo # {}
      BY <2>2, <3>1, ProceedUnderway
    <3>3. op.call # "auto"
      BY <3>2 DEF OpShape
    <3> QED
      BY <1>8, <1>n, <3>1, <3>3 DEF HealthCheck
  <2> QED
    BY <2>1, <2>2
<1>a. ASSUME op' = ProceedAuto(reports'), op.call = "auto", DOMAIN reports' \subseteq DOMAIN reports,
             DOMAIN reports' # DOMAIN reports \/ op.step = "backoff"
      PROVE  Goal
  <2> SUFFICES ASSUME op' # Idle PROVE Goal
    BY <1>i
  <2>1. DOMAIN reports' # {} /\ op' = [op EXCEPT !.step = "next", !.id = NoId]
    BY <1>a, ProceedAutoUnderway
  <2>2. op'.step = "next" /\ op'.todo = op.todo /\ op'.call = op.call
    BY <1>0, <2>1
  <2> QED
    BY <1>a, <2>1, <2>2 DEF Advances, StepsLeft, Underway
<1>9. ASSUME NEW j \in DOMAIN reports, TryAutoRestart(j)
      PROVE  Goal
  <2>1. DOMAIN reports' = DOMAIN reports \ {j}
    BY <1>9 DEF TryAutoRestart, Restrict
  <2>2. CASE reports[j] \in Table /\ ShouldRestart(reports[j])
    <3>1. op'.step = "backoff" /\ op'.call = op.call /\ op'.todo = op.todo
      BY <1>0, <1>9, <2>2 DEF TryAutoRestart
    <3> QED
      BY <2>1, <3>1 DEF Advances, Underway
  <2>3. CASE ~(reports[j] \in Table /\ ShouldRestart(reports[j]))
    BY <1>9, <1>a, <2>1, <2>3 DEF TryAutoRestart
  <2> QED
    BY <2>2, <2>3
<1>10. ASSUME NEW pid \in Pids, AutoRespawn(pid)
       PROVE  Goal
  BY <1>10, <1>a DEF AutoRespawn, OpShape
<1>11. CASE AutoRespawnFails
  BY <1>11, <1>a DEF AutoRespawnFails, OpShape
<1> QED
  BY <1>1, <1>2, <1>3, <1>4, <1>5, <1>6, <1>7, <1>8, <1>9, <1>10, <1>11
     DEF OpStep, StopStep, RestartStep, AutoStep

\* The steps that are nobody's.
LEMMA OthersLeaveOp ==
    ASSUME [Next]_vars, ~OpStep, op # Idle
    PROVE  (Environment \/ UNCHANGED vars) /\ UNCHANGED <<op, reports>>
<1>1. ~Calls /\ ~DetectCrashes /\ ~SecondLock
  BY DEF Calls, Spawn, RollingRestart, DeleteByName, Stop, Restart, RollingRestartById, Delete,
         StopAll, BeginRestart, Begin, DetectCrashes, SecondLock
<1>2. Environment \/ UNCHANGED vars
  BY <1>1 DEF Next
<1>3. Environment => UNCHANGED <<op, reports>>
  BY DEF Environment, ChildExits, OrphanReaped, StrangerStarts, StrangerEnds, OwnerReapsChild,
         WindowSlides
<1> QED
  BY <1>2, <1>3 DEF vars

LEMMA UnderwayStep ==
    ASSUME TypeOK, OpShape, HandlesHoldPids, Underway, [Next]_vars
    PROVE  Underway'
<1>1. CASE op # Idle /\ OpStep
  BY <1>1, OpStepAdvances
<1>2. CASE op # Idle /\ ~OpStep
  <2>1. (Environment \/ UNCHANGED vars) /\ UNCHANGED <<op, reports>>
    BY <1>2, OthersLeaveOp
  <2>2. op.step = "reap" => Exited(op.id)'
    BY <1>2, <2>1, EnvironmentKeepsDead DEF Underway, OpShape
  <2> QED
    BY <1>2, <2>1, <2>2 DEF Underway, Exited
<1>3. CASE op = Idle
  <2>1. CASE op' = Idle
    BY <2>1 DEF Underway
  <2>2. ASSUME NEW call \in {"stop", "restart", "delete"}, NEW targets \in SUBSET Table,
               NEW force \in BOOLEAN, Begin(call, targets, force)
        PROVE  Underway'
    BY <2>2 DEF Begin, Underway, Idle
  <2>3. CASE SecondLock
    BY <2>3 DEF SecondLock, Underway, Idle
  <2>4. ~OpStep
    BY <1>3, IdleFacts
       DEF OpStep, StopStep, RestartStep, AutoStep, Signal, SignalFails, DeleteStopped,
           WaitTimeout, WaitReturns, Respawn, RespawnFails, HealthCheck, TryAutoRestart,
           AutoRespawn, AutoRespawnFails
  <2>5. \/ op' = op \/ SecondLock
        \/ \E call \in {"stop", "restart", "delete"}, targets \in SUBSET Table,
              force \in BOOLEAN : Begin(call, targets, force)
    <3>1. CASE UNCHANGED vars
      BY <3>1 DEF vars
    <3>2. CASE Next
      <4>1. \/ \E name \in Names, pid \in Pids : Spawn(name, pid)
            \/ \E call \in {"stop", "restart", "delete"}, targets \in SUBSET Table,
                 force \in BOOLEAN : Begin(call, targets, force)
            \/ DetectCrashes \/ SecondLock
            \/ \E pid \in Pids : \/ ChildExits(pid) \/ OrphanReaped(pid)
                                 \/ StrangerStarts(pid) \/ StrangerEnds(pid)
            \/ \E i \in Table : OwnerReapsChild(i) \/ WindowSlides(i)
        BY <2>4, <3>2, NextCases, Zenon DEF OpStep, StopStep, RestartStep, AutoStep
      <4> QED
        BY <4>1 DEF Spawn, DetectCrashes, ChildExits, OrphanReaped, StrangerStarts,
                    StrangerEnds, OwnerReapsChild, WindowSlides
    <3> QED
      BY <3>1, <3>2
  <2> QED
    BY <1>3, <2>1, <2>2, <2>3, <2>5
<1> QED
  BY <1>1, <1>2, <1>3

LEMMA UnderwayInvariant == Spec => []Underway
<1>1. Init => Underway
  BY DEF Init, Underway
<1>2. Base /\ Underway /\ [Next]_vars => Underway'
  BY UnderwayStep DEF Base
<1> QED
  BY <1>1, <1>2, BaseInvariant, PTL DEF Spec

LEMMA UnderwayGoesOn ==
    ASSUME TypeOK, OpShape, Underway
    PROVE  CanGoOn
<1> SUFFICES ASSUME op # Idle PROVE CanGoOn
  BY DEF CanGoOn
<1>1. op.step \in {"next", "wait", "reap", "respawn", "health", "backoff"}
  BY DEF TypeOK, Operation, Underway
<1>2. \A i \in op.todo : CanSignal(procs[i].pid) \/ CanRefuse(procs[i].pid)
  BY DEF CanSignal, CanRefuse
<1> QED
  BY <1>1, <1>2 DEF Underway, CanGoOn

\* Whoever holds the lock can go on: nothing it waits for needs the lock, and its
\* one unbounded wait, after SIGKILL, is for a child that is dead already.
THEOREM OpsCanGoOn == Spec => []CanGoOn
BY UnderwayGoesOn, BaseInvariant, UnderwayInvariant, PTL DEF Base

\* And each of its steps ends it or leaves it less to do, while nothing else can
\* add to what it has to do.
THEOREM OpsGetDone == Spec => OpsAdvance
<1>1. ASSUME Base, [Next]_vars, op # Idle
      PROVE  \/ op' = Idle
             \/ op'.call = op.call /\ Advances
             \/ ~OpStep /\ UNCHANGED <<op, reports>>
  <2>1. CASE OpStep
    BY <1>1, <2>1, OpStepAdvances DEF Base
  <2>2. CASE ~OpStep
    BY <1>1, <2>2, OthersLeaveOp
  <2> QED
    BY <2>1, <2>2
<1> QED
  BY <1>1, BaseInvariant, PTL DEF Spec, OpsAdvance

=============================================================================
