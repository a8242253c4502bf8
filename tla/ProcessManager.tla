--------------------------- MODULE ProcessManager ---------------------------
(***************************************************************************)
(* The process table of the adasa daemon (src/process/manager.rs) and the  *)
(* operating system beneath it.  The daemon keeps one ProcessManager       *)
(* behind a tokio RwLock and every operation takes the lock for writing,   *)
(* so operations never overlap; but an operation that stops a child waits  *)
(* for it with the lock held, and while it waits the children, the kernel  *)
(* and the supervisor's list of crashed entries go their own way.          *)
(*                                                                         *)
(* What is abstracted:                                                     *)
(*   - Time.  A timeout may fire at any moment its child is still alive,   *)
(*     and a restart may leave the 60 s budget window at any moment.       *)
(*     RestartPolicy has the clock.                                        *)
(*   - Command lines, signals' names, resource figures and log files.      *)
(*   - `Starting': a child is spawned and marked Running in one operation  *)
(*     that never yields, so nobody sees the state.                        *)
(*   - A child that another user owns.  Signals to one's own child do not  *)
(*     fail here; signals to a stranger's process may.                     *)
(***************************************************************************)
EXTENDS Naturals, Sequences, FiniteSets, Functions, SequencesExt

CONSTANTS
    Names,        \* process names, each the sequence of its "-"-separated parts
    Patterns,     \* what a caller gives instead of an id, split the same way
    AutoNames,    \* the names whose configuration has autorestart on
    Pids,         \* the process ids the kernel hands out
    MaxRestarts,  \* max_restarts, the budget of the restart window
    ZombieListed, \* the platform's process list includes unreaped dead children
    OwnerReaps,   \* the code that embeds the manager polls the Child handles
    MaxId,        \* bound: entries ever created
    RecentBound   \* bound: restarts of one entry inside the window

ASSUME NamesAssumption   ==
    Names \cup Patterns \subseteq Seq(STRING) /\ AutoNames \subseteq Names
ASSUME BudgetAssumption  == MaxRestarts \in Nat \ {0}
ASSUME BoundsAssumption  == MaxId \in Nat /\ RecentBound \in Nat
ASSUME PlatformAssumption == ZombieListed \in BOOLEAN /\ OwnerReaps \in BOOLEAN

VARIABLES
    procs,     \* processes: id -> entry, for the ids in the table
    next_id,   \* next_id
    os,        \* what each pid is: the daemon's child, a stranger's, or free
    reports,   \* crash reports the supervisor loop holds between its two locks
    op         \* the operation that holds the lock, and how far it got

vars == <<procs, next_id, os, reports, op>>

Ids  == 1 .. MaxId
NoId == 0

States == {"Running", "Stopping", "Stopped", "Errored"}

\* reaped: the Child handle has been waited for, and the kernel freed the pid.
\* recent: the entry's restarts inside the budget window.
Entry == [name : Names, state : States, pid : Pids, reaped : BOOLEAN, recent : Nat]

PidStates == {"free", "running", "zombie", "stranger"}

\* id is the entry being worked on, todo the targets still to come (the code's
\* iteration order is a HashMap's), done the ones a restart has finished.
Operation ==
    [call : {"none", "stop", "restart", "delete", "auto"},
     step : {"idle", "next", "wait", "reap", "respawn", "health", "backoff"},
     id : Ids \cup {NoId}, force : BOOLEAN, todo : SUBSET Ids, done : SUBSET Ids]

Idle == [call |-> "none", step |-> "idle", id |-> NoId, force |-> FALSE,
         todo |-> {}, done |-> {}]

-----------------------------------------------------------------------------
(* Helpers *)

Table == DOMAIN procs

\* find_all_by_name: the name itself and every name it starts, up to a dash.
Instances(name) == {i \in Table : IsPrefix(name, procs[i].name)}

\* Mutant: the list is not refreshed, and still has every pid it ever had.
ListedStale(pid) == os[pid] \in PidStates

\* sysinfo finds the pid in the process list.
Listed(pid) ==
    \/ os[pid] \in {"running", "stranger"}
    \/ os[pid] = "zombie" /\ ZombieListed

\* Mutant: one restart too many.
ShouldRestartOnce(i) ==
    /\ procs[i].name \in AutoNames
    /\ procs[i].recent <= MaxRestarts

ShouldRestart(i) ==
    /\ procs[i].name \in AutoNames
    /\ procs[i].recent < MaxRestarts

\* kill(2) reaches whatever has the pid; a stranger's process may refuse it.
CanSignal(pid) == os[pid] # "free"

CanRefuse(pid) == os[pid] \in {"free", "stranger"}

\* SIGKILL ends a child of ours at once; it stays a zombie until reaped.
Killed(pid) == IF os[pid] = "running" THEN [os EXCEPT ![pid] = "zombie"] ELSE os

\* child.wait() returns: at once if the handle has the exit status already.
Exited(i) == procs[i].reaped \/ os[procs[i].pid] = "zombie"

Reap(i) == IF procs[i].reaped THEN os ELSE [os EXCEPT ![procs[i].pid] = "free"]

\* The rest of a command that has todo left, and of the supervisor's loop.
Proceed(todo) ==
    IF todo = {} THEN Idle
    ELSE [op EXCEPT !.step = "next", !.id = NoId, !.todo = todo]

ProceedAuto(rest) ==
    IF DOMAIN rest = {} THEN Idle ELSE [op EXCEPT !.step = "next", !.id = NoId]

-----------------------------------------------------------------------------
Init ==
    /\ procs = <<>>
    /\ next_id = 1
    /\ os = [p \in Pids |-> "free"]
    /\ reports = <<>>
    /\ op = Idle

(***************************************************************************)
(* Calls.  A refused call (unknown id, no such name, name taken, spawn     *)
(* failure) changes nothing and is left to stuttering.                     *)
(***************************************************************************)

NewEntry(name, pid) ==
    [name |-> name, state |-> "Running", pid |-> pid, reaped |-> FALSE, recent |-> 0]

\* Mutant: ids are counted from the entries there are.
SpawnByCount(name, pid) ==
    LET id == Cardinality(Table) + 1 IN
    /\ op = Idle
    /\ next_id <= MaxId
    /\ \A i \in Table : procs[i].name # name
    /\ os[pid] = "free"
    /\ procs' = [i \in Table \cup {id} |-> IF i = id THEN NewEntry(name, pid) ELSE procs[i]]
    /\ next_id' = next_id + 1
    /\ os' = [os EXCEPT ![pid] = "running"]
    /\ UNCHANGED <<reports, op>>

\* A spawn that succeeds; the kernel gives the child a free pid.
Spawn(name, pid) ==
    /\ op = Idle
    /\ next_id <= MaxId
    /\ \A i \in Table : procs[i].name # name
    /\ os[pid] = "free"
    /\ procs' = [i \in Table \cup {next_id} |->
                    IF i = next_id THEN NewEntry(name, pid) ELSE procs[i]]
    /\ next_id' = next_id + 1
    /\ os' = [os EXCEPT ![pid] = "running"]
    /\ UNCHANGED <<reports, op>>

Begin(call, targets, force) ==
    /\ op = Idle
    /\ targets # {}
    /\ op' = [Idle EXCEPT !.call = call, !.step = "next", !.todo = targets,
                          !.force = force]
    /\ UNCHANGED <<procs, next_id, os, reports>>

Stop(i, force) == Begin("stop", {i}, force)

StopAll == Begin("stop", Table, FALSE)

\* RecentBound keeps manual restarts, which no budget limits, finite.
BeginRestart(targets) ==
    /\ \A i \in targets : procs[i].recent < RecentBound
    /\ Begin("restart", targets, FALSE)

Restart(i) == BeginRestart({i})

RollingRestart(name) == BeginRestart(Instances(name))

\* An id that was given is looked up, and its whole name becomes the base name.
RollingRestartById(i) == BeginRestart(Instances(procs[i].name))

Delete(i) == Begin("delete", {i}, TRUE)

DeleteByName(name) == Begin("delete", Instances(name), TRUE)

-----------------------------------------------------------------------------
(* Steps of stop, which restart and delete go through too. *)

\* A delete stops every target that is not already Stopped.
MustStop(i) == op.call = "delete" => procs[i].state # "Stopped"

\* mark_stopping, then a signal that something with this pid receives.
Signal(i) ==
    /\ op.step = "next"
    /\ i \in op.todo
    /\ MustStop(i)
    /\ CanSignal(procs[i].pid)
    /\ procs' = [procs EXCEPT ![i].state = "Stopping"]
    /\ os' = IF op.force THEN Killed(procs[i].pid) ELSE os
    /\ op' = [op EXCEPT !.step = IF op.force THEN "reap" ELSE "wait",
                        !.id = i, !.todo = @ \ {i}]
    /\ UNCHANGED <<next_id, reports>>

\* The signal fails after mark_stopping.  stop_all and delete go on with the
\* next target, a restart gives up.
SignalFails(i) ==
    /\ op.step = "next"
    /\ i \in op.todo
    /\ MustStop(i)
    /\ CanRefuse(procs[i].pid)
    /\ procs' = [procs EXCEPT ![i].state = "Stopping"]
    /\ op' = IF op.call = "restart" THEN Idle ELSE Proceed(op.todo \ {i})
    /\ UNCHANGED <<next_id, os, reports>>

\* Mutant: the fallback to SIGKILL is missing.
WaitTimeoutWaitsOn ==
    /\ op.step = "wait"
    /\ ~Exited(op.id)
    /\ op' = [op EXCEPT !.step = "reap"]
    /\ UNCHANGED <<procs, next_id, os, reports>>

\* Mutant: a timeout is taken for a stop.
WaitTimeoutGivesUp ==
    /\ op.step = "wait"
    /\ ~Exited(op.id)
    /\ procs' = [procs EXCEPT ![op.id].state = "Stopped"]
    /\ op' = Idle
    /\ UNCHANGED <<next_id, os, reports>>

\* The stop_timeout runs out with the child still alive.
WaitTimeout ==
    /\ op.step = "wait"
    /\ ~Exited(op.id)
    /\ os' = Killed(procs[op.id].pid)
    /\ op' = [op EXCEPT !.step = "reap"]
    /\ UNCHANGED <<procs, next_id, reports>>

\* The wait returns: the child is reaped and the entry Stopped, or deleted.
WaitReturns ==
    /\ op.step \in {"wait", "reap"}
    /\ Exited(op.id)
    /\ os' = Reap(op.id)
    /\ procs' = IF op.call = "delete"
                THEN Restrict(procs, Table \ {op.id})
                ELSE [procs EXCEPT ![op.id].state = "Stopped", ![op.id].reaped = TRUE]
    /\ op' = IF op.call = "restart" THEN [op EXCEPT !.step = "respawn"]
             ELSE Proceed(op.todo)
    /\ UNCHANGED <<next_id, reports>>

DeleteStopped(i) ==
    /\ op.step = "next"
    /\ i \in op.todo
    /\ ~MustStop(i)
    /\ procs' = Restrict(procs, Table \ {i})
    /\ op' = Proceed(op.todo \ {i})
    /\ UNCHANGED <<next_id, os, reports>>

-----------------------------------------------------------------------------
(* Steps of restart and rolling_restart. *)

\* Mutant: record_restart is forgotten, and with it the new pid.
RespawnedOldPid(i, pid) ==
    /\ os[pid] = "free"
    /\ os' = [os EXCEPT ![pid] = "running"]
    /\ procs' = [procs EXCEPT ![i].state = "Running", ![i].reaped = FALSE]

\* A new child takes the entry over; the handle it replaces is dropped.
Respawned(i, pid) ==
    /\ os[pid] = "free"
    /\ os' = [os EXCEPT ![pid] = "running"]
    /\ procs' = [procs EXCEPT ![i].state = "Running", ![i].pid = pid,
                              ![i].reaped = FALSE, ![i].recent = @ + 1]

Respawn(pid) ==
    /\ op.step = "respawn"
    /\ Respawned(op.id, pid)
    /\ op' = IF op.todo = {} THEN Idle
             ELSE [op EXCEPT !.step = "health", !.done = @ \cup {op.id}]
    /\ UNCHANGED <<next_id, reports>>

\* Mutant: the rollout goes on with the next instance.
RespawnFailsGoesOn ==
    /\ op.step = "respawn"
    /\ op' = IF op.todo = {} THEN Idle
             ELSE [op EXCEPT !.step = "next", !.done = @ \cup {op.id}]
    /\ UNCHANGED <<procs, next_id, os, reports>>

RespawnFails ==
    /\ op.step = "respawn"
    /\ op' = Idle
    /\ UNCHANGED <<procs, next_id, os, reports>>

\* is_alive after the health check delay, for every instance but the last.
HealthCheck ==
    /\ op.step = "health"
    /\ op' = IF Listed(procs[op.id].pid) THEN Proceed(op.todo) ELSE Idle
    /\ UNCHANGED <<procs, next_id, os, reports>>

-----------------------------------------------------------------------------
(***************************************************************************)
(* The supervisor loop.  Under its first lock it marks every Running entry *)
(* whose pid is not listed as Errored, and turns each such pid back into   *)
(* an id through a map from pids to ids in which, when entries share a     *)
(* pid, one of them wins.  Under its second lock it tries the ids in turn. *)
(***************************************************************************)
\* Mutant: only entries that may be restarted are scanned.
CrashedInBudget ==
    {i \in Table : procs[i].state = "Running" /\ ~Listed(procs[i].pid) /\ ShouldRestart(i)}

CrashedNow == {i \in Table : procs[i].state = "Running" /\ ~Listed(procs[i].pid)}

DetectCrashes ==
    /\ op = Idle
    /\ DOMAIN reports = {}
    /\ CrashedNow # {}
    /\ \E pid_to_id \in [{procs[i].pid : i \in CrashedNow} -> Table] :
          /\ \A p \in DOMAIN pid_to_id : procs[pid_to_id[p]].pid = p
          /\ reports' = [i \in CrashedNow |-> pid_to_id[procs[i].pid]]
    /\ procs' = [i \in Table |->
                    IF i \in CrashedNow THEN [procs[i] EXCEPT !.state = "Errored"]
                    ELSE procs[i]]
    /\ UNCHANGED <<next_id, os, op>>

\* Mutant: the loop gives up on its reports when one of the ids is gone.
SecondLockAllThere ==
    /\ op = Idle
    /\ DOMAIN reports # {}
    /\ \A j \in DOMAIN reports : reports[j] \in Table
    /\ op' = [Idle EXCEPT !.call = "auto", !.step = "next"]
    /\ UNCHANGED <<procs, next_id, os, reports>>

SecondLock ==
    /\ op = Idle
    /\ DOMAIN reports # {}
    /\ op' = [Idle EXCEPT !.call = "auto", !.step = "next"]
    /\ UNCHANGED <<procs, next_id, os, reports>>

\* try_auto_restart up to its sleep: skipped for an entry that is gone or out
\* of budget.
TryAutoRestart(j) ==
    /\ op.call = "auto"
    /\ op.step = "next"
    /\ j \in DOMAIN reports
    /\ reports' = Restrict(reports, DOMAIN reports \ {j})
    /\ op' = IF reports[j] \in Table /\ ShouldRestart(reports[j])
             THEN [op EXCEPT !.step = "backoff", !.id = reports[j]]
             ELSE ProceedAuto(reports')
    /\ UNCHANGED <<procs, next_id, os>>

AutoRespawn(pid) ==
    /\ op.step = "backoff"
    /\ Respawned(op.id, pid)
    /\ op' = ProceedAuto(reports)
    /\ UNCHANGED <<next_id, reports>>

AutoRespawnFails ==
    /\ op.step = "backoff"
    /\ op' = ProceedAuto(reports)
    /\ UNCHANGED <<procs, next_id, os, reports>>

-----------------------------------------------------------------------------
(* The environment. *)

\* A child exits, crashes or obeys a signal.
ChildExits(pid) ==
    /\ os[pid] = "running"
    /\ os' = [os EXCEPT ![pid] = "zombie"]
    /\ UNCHANGED <<procs, next_id, reports, op>>

Held(pid) == \E i \in Table : procs[i].pid = pid /\ ~procs[i].reaped

\* The runtime reaps a child whose handle was dropped.
OrphanReaped(pid) ==
    /\ os[pid] = "zombie"
    /\ ~Held(pid)
    /\ os' = [os EXCEPT ![pid] = "free"]
    /\ UNCHANGED <<procs, next_id, reports, op>>

\* Somebody else's process is given a free pid, and ends.
StrangerStarts(pid) ==
    /\ os[pid] = "free"
    /\ os' = [os EXCEPT ![pid] = "stranger"]
    /\ UNCHANGED <<procs, next_id, reports, op>>

StrangerEnds(pid) ==
    /\ os[pid] = "stranger"
    /\ os' = [os EXCEPT ![pid] = "free"]
    /\ UNCHANGED <<procs, next_id, reports, op>>

\* The embedding code waits for a dead child through get_mut, between calls.
OwnerReapsChild(i) ==
    /\ OwnerReaps
    /\ op = Idle
    /\ ~procs[i].reaped
    /\ os[procs[i].pid] = "zombie"
    /\ procs' = [procs EXCEPT ![i].reaped = TRUE]
    /\ os' = [os EXCEPT ![procs[i].pid] = "free"]
    /\ UNCHANGED <<next_id, reports, op>>

\* A restart becomes older than the budget window.
WindowSlides(i) ==
    /\ procs[i].recent > 0
    /\ procs' = [procs EXCEPT ![i].recent = @ - 1]
    /\ UNCHANGED <<next_id, os, reports, op>>

-----------------------------------------------------------------------------
Calls ==
    \/ \E name \in Names, pid \in Pids : Spawn(name, pid)
    \/ \E name \in Patterns : RollingRestart(name) \/ DeleteByName(name)
    \/ \E i \in Table : \/ \E force \in BOOLEAN : Stop(i, force)
                        \/ Restart(i)
                        \/ RollingRestartById(i)
                        \/ Delete(i)
    \/ StopAll

\* The steps of a call that has begun.
StopStep ==
    \/ \E i \in Table : Signal(i) \/ SignalFails(i) \/ DeleteStopped(i)
    \/ WaitTimeout
    \/ WaitReturns

RestartStep == (\E pid \in Pids : Respawn(pid)) \/ RespawnFails \/ HealthCheck

AutoStep ==
    \/ \E j \in DOMAIN reports : TryAutoRestart(j)
    \/ \E pid \in Pids : AutoRespawn(pid)
    \/ AutoRespawnFails

OpStep == StopStep \/ RestartStep \/ AutoStep

Environment ==
    \/ \E pid \in Pids : \/ ChildExits(pid)
                         \/ OrphanReaped(pid)
                         \/ StrangerStarts(pid)
                         \/ StrangerEnds(pid)
    \/ \E i \in Table : OwnerReapsChild(i) \/ WindowSlides(i)

Next == Calls \/ OpStep \/ DetectCrashes \/ SecondLock \/ Environment

Spec == Init /\ [][Next]_vars

\* The runtime keeps polling the task that holds the lock, and the lock queues
\* its waiters first come, first served, so the supervisor loop, which asks for
\* it every 500 ms, gets it again and again between other operations.
Fairness ==
    /\ WF_vars(OpStep)
    /\ SF_vars(DetectCrashes)
    /\ SF_vars(SecondLock)

FairSpec == Spec /\ Fairness

(***************************************************************************)
(* Properties.                                                             *)
(***************************************************************************)

\* Every variable keeps its shape; ids are handed out below next_id.
TypeOK ==
    /\ next_id \in 1 .. MaxId + 1
    /\ Table \subseteq Ids \cap 1 .. next_id - 1
    /\ procs \in [Table -> Entry]
    /\ os \in [Pids -> PidStates]
    /\ DOMAIN reports \subseteq Ids
    /\ reports \in [DOMAIN reports -> Ids]
    /\ op \in Operation

\* The entry a command has signalled and not yet reaped.
BusyWith(i) == op.step \in {"wait", "reap"} /\ op.id = i

\* The table never hides a live child: an entry that is shown as anything but
\* Running, and that no command is working on, has a child that is dead, even
\* when stopping it failed, when the crash report went to another entry or
\* when the pid has been given to somebody else since.  stop's error paths
\* (mark_stopping comes before kill) and detect_crashes are what could break it.
DownIsDead == \A i \in Table : procs[i].state # "Running" /\ ~BusyWith(i) => Exited(i)

\* A child that has not been waited for keeps its pid, so no two such entries
\* share one and nobody else has it: the guarantee kill(2) by number rests on.
HandlesHoldPids ==
    \A i \in Table : ~procs[i].reaped =>
        /\ os[procs[i].pid] \in {"running", "zombie"}
        /\ \A j \in Table \ {i} : ~procs[j].reaped => procs[j].pid # procs[i].pid

\* When nobody but the manager waits for children, a Running entry's pid is
\* still its own child's: the first stop of it cannot hit a stranger or fail.
RunningIsHeld ==
    ~OwnerReaps => \A i \in Table : procs[i].state = "Running" => ~procs[i].reaped

\* When the process list shows zombies and nobody else reaps them, every live
\* child is some entry's child, Running or being stopped: stop, restart and
\* delete lose none, and neither does a failing step of theirs.
NoLeakedChild ==
    ZombieListed /\ ~OwnerReaps =>
        \A pid \in Pids : os[pid] = "running" =>
            \E i \in Table : /\ procs[i].pid = pid
                             /\ ~procs[i].reaped
                             /\ procs[i].state = "Running" \/ BusyWith(i)

\* During a rolling restart the instances already restarted stay Running while
\* a later one is stopped, respawned or fails.
RolledStayRunning ==
    op.call = "restart" => \A i \in op.done : i \in Table /\ procs[i].state = "Running"

\* An entry leaves the table only when its child is dead: delete never forgets
\* a live child, whatever state the entry was in and whoever owns its pid now.
DeletesOnlyDead == [][\A i \in Table : i \in DOMAIN procs' \/ Exited(i)]_vars

\* What a client may rely on of an entry: an operation is bringing it to an end
\* only while the operation waits for its child.
Shown(i) ==
    IF procs[i].state = "Running" THEN "up"
    ELSE IF BusyWith(i) THEN "ending" ELSE "down"

ShownTable == [i \in Table |-> Shown(i)]

Live == {pid \in Pids : os[pid] = "running"}

Kids == {k \in Table \X Live : procs[k[1]].pid = k[2] /\ ~procs[k[1]].reaped}

Promise == INSTANCE Lifecycle
    WITH next <- next_id, shown <- ShownTable, kids <- Kids, live <- Live

\* Where zombies are listed and only the manager reaps, the table keeps the
\* promise of Lifecycle: at most one live child per entry, none without an entry
\* and none behind an entry that is down or deleted, over every interleaving of
\* the steps of stop, restart, rolling_restart and delete with dying children.
KeepsPromise == Promise!Spec

\* The restarts that are counted against each entry; one that is gone has none.
Spent == [i \in Ids |-> IF i \in Table THEN procs[i].recent ELSE 0]

\* The entry whose automatic restart is slept for.
Granted == {i \in {op.id} : op.step = "backoff"}

Budget == INSTANCE RestartBudget
    WITH Entries <- Ids, Limit <- MaxRestarts,
         recent <- Spent, granted <- Granted, trusted <- TRUE

\* Between the check of the budget and the restart lies the backoff, and an
\* entry may have several crash reports and users who restart it: nobody
\* restarts it meanwhile, and no check is good for two restarts.
KeepsBudget == Budget!Spec

\* Every operation ends and gives the lock back, however long a child ignores
\* its stop signal, whoever dies meanwhile and whatever fails.
OpsEnd == op # Idle ~> op = Idle

\* The child of an entry that is shown as Running is dead and not reaped.
Crashed(i) ==
    /\ i \in Table
    /\ procs[i].state = "Running"
    /\ ~procs[i].reaped
    /\ os[procs[i].pid] = "zombie"

\* A crash does not stay unnoticed: an entry whose child is dead stops being
\* shown as Running, or gets a new child.
CrashNoticed == \A i \in Ids : Crashed(i) ~> ~Crashed(i)

\* Every crash report is tried, and the supervisor gets back to looking.
ReportsTried == DOMAIN reports # {} ~> DOMAIN reports = {}

=============================================================================
