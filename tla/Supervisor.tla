----------------------------- MODULE Supervisor -----------------------------
(***************************************************************************)
(* ProcessSupervisor (src/process/supervisor.rs) over a process table.     *)
(* The library exports it for programs that embed the manager; the daemon  *)
(* has a loop of its own, which ProcessManager models.  A check borrows    *)
(* the table exclusively from its first step to its last, over every sleep *)
(* and wait in between, so calls happen only between checks, while         *)
(* children, strangers and the kernel go on.  Its phases: look for crashes *)
(* and try each in turn, then act on the entries over their limits, then   *)
(* drop the marks of the restarts that are done.                           *)
(*                                                                         *)
(* Usage is a set of entries over their limit: figures and the two kinds   *)
(* of limit are abstracted.  update_stats of the manager reads usage into  *)
(* a cache that nothing reads, so a check cannot change `over' by itself;  *)
(* only the embedding program can, with a monitor of its own.              *)
(***************************************************************************)
EXTENDS ProcessManager

CONSTANT OnLimit    \* limit_action of each name

ASSUME LimitAssumption == OnLimit \in [Names -> {"Log", "Restart", "Stop"}]

VARIABLES
    check,       \* what a check is at, and the entries it has still to limit
    restarting,  \* ProcessSupervisor.restarting
    over,        \* the entries whose recorded usage exceeds their limit
    owed         \* history: crashes of this check that a restart is due for

supVars == <<check, restarting, over, owed>>
allVars == <<vars, supVars>>

NoCheck == [step |-> "idle", todo |-> {}]

SupInit == Init /\ check = NoCheck /\ restarting = {} /\ over = {} /\ owed = {}

-----------------------------------------------------------------------------
(* The embedding program, between checks. *)

EmbedderCalls ==
    /\ check = NoCheck
    /\ Calls
    /\ UNCHANGED supVars

EmbedderReaps(i) == check = NoCheck /\ OwnerReapsChild(i) /\ UNCHANGED supVars

\* update_process_stats on an entry of get_mut.  RecentBound keeps the restarts
\* that limits cause finite.
UsageRead(i) ==
    /\ check = NoCheck
    /\ op = Idle
    /\ procs[i].recent < RecentBound
    /\ over' \in {over \cup {i}, over \ {i}}
    /\ UNCHANGED <<vars, check, restarting, owed>>

\* A monitor that refreshed for another pid a moment ago, or never saw this
\* one, does not find it, and takes the child for dead.
UsageMissing(i) ==
    /\ check = NoCheck
    /\ op = Idle
    /\ procs' = [procs EXCEPT ![i].state = "Errored"]
    /\ UNCHANGED <<next_id, os, reports, op, supVars>>

-----------------------------------------------------------------------------
(* check_health: crashes. *)

\* The crashes whose pid no other entry recorded and that the policy lets start
\* again: the ones the report cannot mistake.
Due == {i \in CrashedNow : ShouldRestart(i) /\
                           \A j \in Table \ {i} : procs[j].pid # procs[i].pid}

CheckBegins ==
    /\ check = NoCheck
    /\ DetectCrashes \/ (op = Idle /\ CrashedNow = {} /\ UNCHANGED vars)
    /\ check' = [check EXCEPT !.step = "crashes"]
    /\ owed' = Due
    /\ UNCHANGED <<restarting, over>>

HandlesCrashes ==
    /\ check.step = "crashes"
    /\ SecondLock
    /\ UNCHANGED supVars

\* Mutant: no mark stops a second restart of the same entry.
HandleCrashAgain(j) ==
    /\ TryAutoRestart(j)
    /\ restarting' = IF op'.step = "backoff" THEN restarting \cup {op'.id} ELSE restarting
    /\ UNCHANGED <<check, over, owed>>

\* handle_crash: an id that is marked already is skipped.
HandleCrash(j) ==
    /\ IF j \in DOMAIN reports /\ reports[j] \in restarting
       THEN /\ op.call = "auto" /\ op.step = "next"
            /\ reports' = Restrict(reports, DOMAIN reports \ {j})
            /\ op' = ProceedAuto(reports')
            /\ UNCHANGED <<procs, next_id, os>>
       ELSE TryAutoRestart(j)
    /\ restarting' = IF op'.step = "backoff" THEN restarting \cup {op'.id} ELSE restarting
    /\ UNCHANGED <<check, over, owed>>

CrashRestarted(pid) ==
    /\ AutoRespawn(pid)
    /\ over' = over \ {op.id}
    /\ UNCHANGED <<check, restarting, owed>>

\* Mutant: the first restart that fails ends the check's handling of crashes.
CrashRestartFailsAll ==
    /\ op.step = "backoff"
    /\ op' = Idle
    /\ reports' = <<>>
    /\ restarting' = restarting \ {op.id}
    /\ owed' = owed \ {op.id}
    /\ UNCHANGED <<procs, next_id, os, check, over>>

\* Mutant: the mark of a restart that failed is left behind.
CrashRestartFailsMarked ==
    /\ AutoRespawnFails
    /\ owed' = owed \ {op.id}
    /\ UNCHANGED <<check, restarting, over>>

CrashRestartFails ==
    /\ AutoRespawnFails
    /\ restarting' = restarting \ {op.id}
    /\ owed' = owed \ {op.id}
    /\ UNCHANGED <<check, over>>

-----------------------------------------------------------------------------
(* check_health: limits, and the end. *)

CrashesHandled == check.step = "crashes" /\ op = Idle /\ DOMAIN reports = {}

\* check_resource_limits collects first, whatever state an entry is in.  A limit
\* that is only logged has nothing left to do.
LimitsBegin ==
    /\ CrashesHandled
    /\ check' = [step |-> "limits", todo |-> {i \in over : OnLimit[procs[i].name] # "Log"}]
    /\ owed' = {}
    /\ UNCHANGED <<vars, restarting, over>>

LimitAction(i) ==
    /\ check.step = "limits"
    /\ op = Idle
    /\ i \in check.todo
    /\ check' = [check EXCEPT !.todo = @ \ {i}]
    /\ \/ OnLimit[procs[i].name] = "Restart" /\ Begin("restart", {i}, FALSE)
       \/ OnLimit[procs[i].name] = "Stop" /\ Begin("stop", {i}, FALSE)
    /\ UNCHANGED <<restarting, over, owed>>

\* A call's steps, and those of a limit's restart or stop.
CallSteps ==
    /\ StopStep \/ RestartStep
    /\ over' = {i \in over : i \in DOMAIN procs' /\ procs'[i].recent <= procs[i].recent}
    /\ UNCHANGED <<check, restarting, owed>>

\* cleanup_restarting keeps the marks of entries that are there and not Running.
CheckEnds ==
    /\ check.step = "limits"
    /\ op = Idle
    /\ check.todo = {}
    /\ check' = NoCheck
    /\ restarting' = {i \in restarting \cap Table : procs[i].state # "Running"}
    /\ UNCHANGED <<vars, over, owed>>

-----------------------------------------------------------------------------
World ==
    /\ \/ \E pid \in Pids : \/ ChildExits(pid)
                            \/ OrphanReaped(pid)
                            \/ StrangerStarts(pid)
                            \/ StrangerEnds(pid)
       \/ \E i \in Table : WindowSlides(i)
    /\ UNCHANGED supVars

CheckStep ==
    \/ HandlesCrashes
    \/ \E j \in DOMAIN reports : HandleCrash(j)
    \/ \E pid \in Pids : CrashRestarted(pid)
    \/ CrashRestartFails
    \/ LimitsBegin
    \/ \E i \in check.todo : LimitAction(i)
    \/ CallSteps
    \/ CheckEnds

SupNext ==
    \/ EmbedderCalls
    \/ \E i \in Table : EmbedderReaps(i) \/ UsageRead(i) \/ UsageMissing(i)
    \/ CheckBegins
    \/ CheckStep
    \/ World

\* Whoever awaits a check keeps polling it.  When it is called is the embedding
\* program's choice.
SupSpec == SupInit /\ [][SupNext]_allVars /\ WF_allVars(CheckStep)

-----------------------------------------------------------------------------
SupTypeOK ==
    /\ TypeOK
    /\ check \in [step : {"idle", "crashes", "limits"}, todo : SUBSET Ids]
    /\ restarting \subseteq Ids
    /\ over \subseteq Table
    /\ owed \subseteq Table

\* A restart never replaces the handle of a live child, although reports can
\* name one entry twice where pids are reused: the mark that the first restart
\* of a check leaves makes handle_crash skip the second.
NoChildReplaced ==
    [][\A i \in Table \cap DOMAIN procs' :
          procs'[i].recent > procs[i].recent => Exited(i)]_allVars

\* Every live child is some entry's, whatever the platform lists and whoever
\* reaps, even while entries are wrongly shown as Errored: no restart, limit,
\* deletion or failed step drops the handle of a child that is alive.
NoChildLost == \A pid \in Pids : os[pid] = "running" => Held(pid)

\* A check leaves no mark behind, so no later crash is skipped on account of a
\* restart that is over, whether it worked, failed or was not allowed.
NoMarkLeft == check = NoCheck => restarting = {}

\* Once its crashes are handled, a check has started again every entry it found
\* crashed, that nothing confuses with another and that has budget left, unless
\* the spawn of that very entry failed: no other entry's failure gets in the way.
DueAreRestarted == CrashesHandled => \A i \in owed : procs[i].state = "Running"

\* Where dead children are not listed, a rollout goes on to the next instance
\* only over a child that lives: is_alive asks the process list for the pid, and
\* the pid cannot have gone to anybody else while the rollout has the table.
RolloutStopsAtCrash ==
    [][~ZombieListed /\ op.step = "health" /\ op'.step = "next" =>
          os[procs[op.id].pid] = "running"]_allVars

\* Every check ends, whoever ignores its stop signal and whatever fails, and the
\* embedding program has its table back.
ChecksEnd == check # NoCheck ~> check = NoCheck

=============================================================================
