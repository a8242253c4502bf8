-------------------------- MODULE SupervisorProofs --------------------------
(***************************************************************************)
(* Proofs about Supervisor, for every value of its constants.  Most steps  *)
(* of a check are steps of ProcessManager, whose lemmas about the table    *)
(* are used here.  What is added is how far a check has got: crash reports *)
(* and marks exist only inside a check (Phases), a mark is on an entry     *)
(* that waits for its restart or has had it (Marks), and a report is on an *)
(* entry whose child is dead unless a mark says that it was replaced       *)
(* (Crashes).  The three are inductive only together.                      *)
(***************************************************************************)
EXTENDS Supervisor, ProcessManagerProofs

\* How far a check has got, and what is there at each point.
Phases ==
    /\ check.step = "idle" => check = NoCheck /\ restarting = {}
    /\ check.step # "crashes" => DOMAIN reports = {} /\ owed = {} /\ op.call # "auto"
    /\ check.step = "crashes" => check.todo = {} /\ op.call \in {"none", "auto"}
    /\ check.step = "limits" => op.call # "delete"
    /\ op.call = "none" => op = Idle
    /\ op.call = "auto" => op.step \in {"next", "backoff"}
    /\ check.todo \subseteq Table

\* A marked entry waits for its restart or runs, and no limit is acted on for it.
Marks ==
    \A i \in restarting :
        /\ i \in Table
        /\ i \notin op.todo \cup check.todo
        /\ op.step \in {"wait", "reap", "respawn"} => op.id # i
        /\ \/ op.step = "backoff" /\ op.id = i
           \/ procs[i].state = "Running" /\ i \notin over

\* Whom the reports are about, and what has become of the restarts that are due.
Crashes ==
    /\ \A j \in DOMAIN reports :
          reports[j] \in Table /\ (Exited(reports[j]) \/ reports[j] \in restarting)
    /\ op.step = "backoff" => op.id \in restarting /\ Exited(op.id)
    /\ \A i \in owed :
          \/ procs[i].state = "Running"
          \/ op.step = "backoff" /\ op.id = i
          \/ ShouldRestart(i) /\ \E j \in DOMAIN reports : reports[j] = i

\* A rollout checks an instance that it has just started.
Health == op.step = "health" => ~procs[op.id].reaped

SupInvariant ==
    /\ SupTypeOK
    /\ OpShape
    /\ HandlesHoldPids
    /\ Phases
    /\ Marks
    /\ Crashes
    /\ Health

-----------------------------------------------------------------------------
(* The table. *)

\* handle_crash skips a report.
Skips ==
    /\ op.call = "auto" /\ op.step = "next"
    /\ \E j \in DOMAIN reports : /\ reports[j] \in restarting
                                 /\ reports' = Restrict(reports, DOMAIN reports \ {j})
                                 /\ op' = ProceedAuto(reports')
    /\ UNCHANGED <<procs, next_id, os>>

\* The steps of a check and of its surroundings, as steps of the table.
LEMMA TableSteps ==
    ASSUME [SupNext]_allVars
    PROVE  \/ [Next]_vars
           \/ \E i \in Table : UsageMissing(i)
           \/ \E i \in check.todo : LimitAction(i)
           \/ Skips
<1>1. CASE UNCHANGED allVars
  BY <1>1 DEF allVars
<1>2. CASE EmbedderCalls \/ CheckBegins
  BY <1>2 DEF EmbedderCalls, CheckBegins, Next
<1>3. ASSUME NEW i \in Table, EmbedderReaps(i) \/ UsageRead(i)
      PROVE  [Next]_vars
  BY <1>3 DEF EmbedderReaps, UsageRead, Next, Environment
<1>4. CASE World
  BY <1>4 DEF World, Next, Environment
<1>5. ASSUME NEW j \in DOMAIN reports, HandleCrash(j)
      PROVE  [Next]_vars \/ Skips
  BY <1>5 DEF HandleCrash, Skips, Next, OpStep, AutoStep
<1>6. CASE HandlesCrashes \/ CrashRestartFails \/ CallSteps \/ LimitsBegin \/ CheckEnds
  BY <1>6 DEF HandlesCrashes, CrashRestartFails, CallSteps, LimitsBegin, CheckEnds, Next,
              OpStep, AutoStep
<1>7. ASSUME NEW pid \in Pids, CrashRestarted(pid)
      PROVE  Next
  BY <1>7 DEF CrashRestarted, Next, OpStep, AutoStep
<1> QED
  BY <1>1, <1>2, <1>3, <1>4, <1>5, <1>6, <1>7, Zenon DEF SupNext, CheckStep

LEMMA UsageMissingFacts ==
    ASSUME TypeOK, NEW i \in Table, UsageMissing(i)
    PROVE  /\ Table' = Table /\ procs' \in [Table -> Entry]
           /\ op = Idle /\ op' = op /\ reports' = reports /\ os' = os /\ next_id' = next_id
           /\ check = NoCheck /\ UNCHANGED supVars
           /\ \A j \in Table : procs'[j].pid = procs[j].pid /\ procs'[j].reaped = procs[j].reaped
<1>1. "Errored" \in States
  BY DEF States
<1>2. procs' = [procs EXCEPT ![i].state = "Errored"] /\ procs \in [Table -> Entry]
  BY DEF UsageMissing, TypeOK
<1>3. Table' = Table
  BY <1>2 DEF Table
<1>4. procs' \in [Table -> Entry]
  BY <1>1, <1>2, MarkFacts
<1>5. \A j \in Table : procs'[j].pid = procs[j].pid /\ procs'[j].reaped = procs[j].reaped
  BY <1>2 DEF Entry
<1> QED
  BY <1>3, <1>4, <1>5 DEF UsageMissing

LEMMA LimitActionFacts ==
    ASSUME TypeOK, Phases, NEW i \in check.todo, LimitAction(i)
    PROVE  /\ op'.call \in {"stop", "restart"} /\ op'.step = "next" /\ op'.todo = {i}
           /\ op'.done = {} /\ op' \in Operation /\ i \in Table
           /\ UNCHANGED <<procs, next_id, os, reports, restarting, over, owed>>
           /\ check.step = "limits" /\ op = Idle
           /\ check' = [check EXCEPT !.todo = @ \ {i}]
<1>1. i \in Table /\ i \in Ids
  BY DEF Phases, TypeOK
<1>2. ASSUME NEW call \in {"stop", "restart"}, Begin(call, {i}, FALSE)
      PROVE  /\ op' \in Operation /\ op'.call = call /\ op'.step = "next" /\ op'.todo = {i}
             /\ op'.done = {} /\ op = Idle
             /\ UNCHANGED <<procs, next_id, os, reports>>
  BY <1>1, <1>2 DEF Begin, Idle, Operation
<1> QED
  BY <1>1, <1>2 DEF LimitAction

LEMMA TableStep ==
    ASSUME TypeOK, OpShape, HandlesHoldPids, Phases, [SupNext]_allVars
    PROVE  (TypeOK /\ OpShape /\ HandlesHoldPids)'
<1>1. CASE [Next]_vars
  BY <1>1, TypeStep, OpShapeStep, HandlesStep
<1>2. ASSUME NEW i \in Table, UsageMissing(i)
      PROVE  (TypeOK /\ OpShape /\ HandlesHoldPids)'
  <2>1. TypeOK'
    BY <1>2, UsageMissingFacts DEF TypeOK
  <2>2. OpShape'
    BY <1>2, UsageMissingFacts DEF OpShape
  <2>3. HandlesHoldPids'
    BY <1>2, UsageMissingFacts DEF HandlesHoldPids
  <2> QED
    BY <2>1, <2>2, <2>3
<1>3. ASSUME NEW i \in check.todo, LimitAction(i)
      PROVE  (TypeOK /\ OpShape /\ HandlesHoldPids)'
  <2>1. Table' = Table
    BY <1>3, LimitActionFacts DEF Table
  <2> QED
    BY <1>3, <2>1, LimitActionFacts DEF TypeOK, OpShape, HandlesHoldPids
<1>4. CASE Skips
  <2>1. PICK j \in DOMAIN reports : /\ reports' = Restrict(reports, DOMAIN reports \ {j})
                                    /\ op' = ProceedAuto(reports')
    BY <1>4 DEF Skips
  <2>2. reports' \in [DOMAIN reports' -> Ids] /\ DOMAIN reports' \subseteq DOMAIN reports
    BY <2>1 DEF Restrict, TypeOK
  <2>3. /\ op' \in Operation /\ op'.step \in {"idle", "next"}
        /\ op'.todo \subseteq op.todo /\ op'.done \subseteq op.done
        /\ op'.call \in {"none", op.call}
    BY <2>1, ProceedAutoFacts
  <2>4. UNCHANGED <<procs, next_id, os>> /\ Table' = Table
    BY <1>4 DEF Skips, Table
  <2>5. TypeOK'
    BY <2>2, <2>3, <2>4 DEF TypeOK
  <2>6. OpShape'
    BY <2>3, <2>4 DEF OpShape
  <2>7. HandlesHoldPids'
    BY <2>4 DEF HandlesHoldPids
  <2> QED
    BY <2>5, <2>6, <2>7
<1> QED
  BY <1>1, <1>2, <1>3, <1>4, TableSteps

-----------------------------------------------------------------------------
(* The steps, by what they change. *)

\* A call of the embedding program that begins, or a spawn.
LEMMA CallFacts ==
    ASSUME TypeOK, Calls
    PROVE  /\ op = Idle /\ reports' = reports
           /\ \/ /\ op' = op /\ Table \subseteq Table'
              \/ /\ op'.call \in {"stop", "restart", "delete"} /\ op'.step = "next"
                 /\ procs' = procs
<1>1. ASSUME NEW name, NEW pid, Spawn(name, pid)
      PROVE  op = Idle /\ reports' = reports /\ op' = op /\ Table \subseteq Table'
  BY <1>1 DEF Spawn, Table
<1>2. ASSUME NEW call \in {"stop", "restart", "delete"}, NEW targets, NEW force,
             Begin(call, targets, force)
      PROVE  /\ op = Idle /\ reports' = reports /\ procs' = procs
             /\ op'.call = call /\ op'.step = "next"
  BY <1>2 DEF Begin, Idle
<1>3. CASE \E i \in Table : (\E force \in BOOLEAN : Stop(i, force)) \/ Restart(i)
                            \/ RollingRestartById(i) \/ Delete(i)
  BY <1>2, <1>3 DEF Stop, Restart, RollingRestartById, Delete, BeginRestart
<1>4. CASE StopAll \/ \E name \in Patterns : RollingRestart(name) \/ DeleteByName(name)
  BY <1>2, <1>4 DEF StopAll, RollingRestart, DeleteByName, BeginRestart
<1> QED
  BY <1>1, <1>3, <1>4 DEF Calls

LEMMA GoesOn ==
    ASSUME TypeOK, op.call # "none", NEW todo \in SUBSET op.todo
    PROVE  /\ Proceed(todo).call = "none" => Proceed(todo) = Idle
           /\ Proceed(todo) = Idle \/ Proceed(todo).call = op.call
<1>1. CASE todo = {}
  BY <1>1 DEF Proceed
<1>2. CASE todo # {}
  BY <1>2 DEF Proceed, TypeOK, Operation
<1> QED
  BY <1>1, <1>2

\* What a step of a stop, a restart or a delete does to its operation and to the
\* entries.
LEMMA CallStepFacts ==
    ASSUME TypeOK, OpShape, Phases, CallSteps
    PROVE  /\ op.call \notin {"none", "auto"} /\ check.step # "crashes"
           /\ op' = Idle \/ op'.call = op.call
           /\ op'.call = "none" => op' = Idle
           /\ op'.todo \subseteq op.todo /\ op'.step # "backoff"
           /\ op'.step \in {"wait", "reap", "respawn"} =>
                 \/ op'.id \in op.todo
                 \/ op.step \in {"wait", "reap"} /\ op'.id = op.id
           /\ op'.step = "health" => op.step = "respawn" /\ ~procs'[op'.id].reaped
           /\ reports' = reports /\ Table' \subseteq Table
           /\ op.call # "delete" => Table' = Table
           /\ \A i \in Table' : \/ procs'[i] = procs[i]
                                \/ i \in op.todo
                                \/ op.step \in {"wait", "reap", "respawn"} /\ op.id = i
<1>0. op \in Operation /\ procs \in [Table -> Entry]
  BY DEF TypeOK
<1>1. StopStep \/ RestartStep
  BY DEF CallSteps
<1>2. op.call \notin {"none", "auto"} /\ check.step # "crashes"
  <2>1. \/ op.step \in {"wait", "reap", "respawn", "health"}
        \/ op.step = "next" /\ op.todo # {}
    BY <1>1 DEF StopStep, RestartStep, Signal, SignalFails, DeleteStopped, WaitTimeout,
                WaitReturns, Respawn, RespawnFails, HealthCheck
  <2>2. op.call # "auto"
    BY <2>1 DEF Phases, OpShape
  <2>3. op.call # "none"
    BY <2>1, IdleFacts DEF Phases
  <2> QED
    BY <2>2, <2>3 DEF Phases
<1>3. ASSUME NEW i \in Table, Signal(i)
      PROVE  /\ op'.call = op.call /\ op'.step \in {"wait", "reap"} /\ op'.id = i
             /\ op'.todo = op.todo \ {i} /\ i \in op.todo /\ reports' = reports
             /\ Table' = Table /\ \A j \in Table \ {i} : procs'[j] = procs[j]
  BY <1>0, <1>3 DEF Signal, Operation, Table
<1>4. ASSUME NEW i \in Table, SignalFails(i)
      PROVE  /\ op' = Idle \/ op' = Proceed(op.todo \ {i})
             /\ i \in op.todo /\ reports' = reports
             /\ Table' = Table /\ \A j \in Table \ {i} : procs'[j] = procs[j]
  BY <1>0, <1>4 DEF SignalFails, Table
<1>5. ASSUME NEW i \in Table, DeleteStopped(i)
      PROVE  /\ op' = Proceed(op.todo \ {i}) /\ reports' = reports /\ op.call = "delete"
             /\ Table' = Table \ {i} /\ \A j \in Table \ {i} : procs'[j] = procs[j]
  BY <1>5 DEF DeleteStopped, MustStop, Table, Restrict
<1>6. CASE WaitTimeout
  BY <1>0, <1>2, <1>6 DEF WaitTimeout, Operation, Table
<1>7. ASSUME WaitReturns
      PROVE  /\ op' = Proceed(op.todo)
                \/ (op'.call = op.call /\ op'.step = "respawn" /\ op'.id = op.id
                    /\ op'.todo = op.todo)
             /\ op.step \in {"wait", "reap"} /\ reports' = reports /\ Table' \subseteq Table
             /\ op.call # "delete" => Table' = Table
             /\ \A j \in Table' \ {op.id} : procs'[j] = procs[j]
  <2>1. CASE op.call = "delete"
    <3>1. procs' = [j \in Table \ {op.id} |-> procs[j]]
      BY <1>7, <2>1 DEF WaitReturns, Restrict
    <3> QED
      BY <1>7, <2>1, <3>1 DEF WaitReturns, Table
  <2>2. CASE op.call # "delete"
    BY <1>0, <1>7, <2>2 DEF WaitReturns, Operation, Table
  <2> QED
    BY <2>1, <2>2
<1>8. ASSUME NEW pid \in Pids, Respawn(pid)
      PROVE  /\ op' = Idle \/ (op'.call = op.call /\ op'.step = "health"
                               /\ op'.id = op.id /\ op'.todo = op.todo)
             /\ op.step = "respawn" /\ reports' = reports /\ Table' = Table
             /\ ~procs'[op.id].reaped /\ \A j \in Table \ {op.id} : procs'[j] = procs[j]
  <2>1. op.step = "respawn" /\ Respawned(op.id, pid) /\ op.id \in Table
    BY <1>8 DEF Respawn, OpShape
  <2>2. Table' = Table
    BY <2>1, RespawnedFacts DEF Table
  <2> QED
    BY <1>0, <1>8, <2>1, <2>2, RespawnedFacts DEF Respawn, Operation
<1>9. CASE RespawnFails
  BY <1>9, <1>2, IdleFacts DEF RespawnFails, Table
<1>10. ASSUME HealthCheck
       PROVE  /\ op' = Idle \/ op' = Proceed(op.todo)
              /\ op.step = "health" /\ UNCHANGED <<procs, reports>> /\ Table' = Table
  BY <1>10 DEF HealthCheck, Table
<1>11. CASE \E i \in Table : Signal(i)
  BY <1>2, <1>3, <1>11
<1>12. CASE \E i \in Table : SignalFails(i)
  <2>1. PICK i \in Table : SignalFails(i)
    BY <1>12
  <2>2. PICK todo \in SUBSET op.todo : op' = Idle \/ op' = Proceed(todo)
    <3>1. op.todo \ {i} \in SUBSET op.todo
      OBVIOUS
    <3>2. op' = Idle \/ op' = Proceed(op.todo \ {i})
      BY <1>4, <2>1
    <3> QED
      BY <3>1, <3>2
  <2>3. /\ op' = Idle \/ op'.call = op.call
        /\ op'.call = "none" => op' = Idle
        /\ op'.todo \subseteq op.todo /\ op'.step \in {"idle", "next"}
    BY <1>2, <2>2, ProceedFacts, GoesOn, IdleFacts
  <2> QED
    BY <1>2, <1>4, <2>1, <2>3
<1>13. CASE \E i \in Table : DeleteStopped(i)
  <2>1. PICK i \in Table : DeleteStopped(i)
    BY <1>13
  <2>2. PICK todo \in SUBSET op.todo : op' = Idle \/ op' = Proceed(todo)
    <3>1. op.todo \ {i} \in SUBSET op.todo
      OBVIOUS
    <3>2. op' = Idle \/ op' = Proceed(op.todo \ {i})
      BY <1>5, <2>1
    <3> QED
      BY <3>1, <3>2
  <2>3. /\ op' = Idle \/ op'.call = op.call
        /\ op'.call = "none" => op' = Idle
        /\ op'.todo \subseteq op.todo /\ op'.step \in {"idle", "next"}
    BY <1>2, <2>2, ProceedFacts, GoesOn, IdleFacts
  <2> QED
    BY <1>2, <1>5, <2>1, <2>3
<1>14. CASE WaitReturns
  BY <1>2, <1>7, <1>14, ProceedFacts, GoesOn
<1>15. CASE \E pid \in Pids : Respawn(pid)
  BY <1>2, <1>8, <1>15, IdleFacts
<1>16. CASE HealthCheck
  BY <1>2, <1>10, <1>16, ProceedFacts, GoesOn, IdleFacts
<1> QED
  BY <1>1, <1>6, <1>9, <1>11, <1>12, <1>13, <1>14, <1>15, <1>16 DEF StopStep, RestartStep

\* A step of the loop over the reports.
LEMMA AutoFacts ==
    ASSUME TypeOK, OpShape, Phases,
           \/ \E j \in DOMAIN reports : HandleCrash(j)
           \/ \E pid \in Pids : CrashRestarted(pid)
           \/ CrashRestartFails
    PROVE  /\ op.call = "auto" /\ check.step = "crashes" /\ Table' = Table
           /\ op' = Idle \/ (op'.call = "auto" /\ op'.step \in {"next", "backoff"})
           /\ op'.todo = {}
           /\ UNCHANGED check
<1>0. op \in Operation /\ (op.call = "auto" => op.todo = {})
  BY DEF TypeOK, OpShape
<1>1. ASSUME op.call = "auto", NEW rest
      PROVE  /\ ProceedAuto(rest) = Idle
                \/ (ProceedAuto(rest).call = "auto" /\ ProceedAuto(rest).step = "next")
             /\ ProceedAuto(rest).todo = {}
  BY <1>0, <1>1, IdleFacts DEF ProceedAuto, Operation
<1>2. ASSUME NEW j \in DOMAIN reports, HandleCrash(j)
      PROVE  /\ op.call = "auto" /\ procs' = procs /\ UNCHANGED check
             /\ \/ op' = ProceedAuto(reports')
                \/ op' = [op EXCEPT !.step = "backoff", !.id = reports[j]]
  BY <1>2 DEF HandleCrash, TryAutoRestart
<1>3. ASSUME NEW pid \in Pids, CrashRestarted(pid)
      PROVE  /\ op.call = "auto" /\ Table' = Table /\ UNCHANGED check
             /\ op' = ProceedAuto(reports)
  <2>1. op.step = "backoff" /\ Respawned(op.id, pid) /\ op.id \in Table /\ op.call = "auto"
    BY <1>3 DEF CrashRestarted, AutoRespawn, OpShape
  <2> QED
    BY <1>3, <2>1, RespawnedFacts DEF CrashRestarted, AutoRespawn, Table
<1>4. ASSUME CrashRestartFails
      PROVE  /\ op.call = "auto" /\ procs' = procs /\ UNCHANGED check
             /\ op' = ProceedAuto(reports)
  BY <1>4 DEF CrashRestartFails, AutoRespawnFails, OpShape
<1>5. op.call = "auto" => check.step = "crashes"
  BY DEF Phases
<1>6. ASSUME NEW j \in DOMAIN reports, op.call = "auto",
             op' = [op EXCEPT !.step = "backoff", !.id = reports[j]]
      PROVE  op'.call = "auto" /\ op'.step = "backoff" /\ op'.todo = {}
  BY <1>0, <1>6 DEF Operation
<1>7. procs' = procs => Table' = Table
  BY DEF Table
<1> QED
  BY <1>1, <1>2, <1>3, <1>4, <1>5, <1>6, <1>7

\* The steps that are none of a call's or a check's.
LEMMA WorldFacts ==
    ASSUME TypeOK,
           \/ World
           \/ \E i \in Table : EmbedderReaps(i) \/ UsageRead(i) \/ UsageMissing(i)
    PROVE  /\ UNCHANGED <<op, reports, check, restarting, owed>> /\ Table' = Table
           /\ \A i \in Table : ShouldRestart(i) => ShouldRestart(i)'
           /\ check # NoCheck =>
                 /\ over' = over
                 /\ \A i \in Table : procs'[i].state = procs[i].state
           /\ op # Idle => \A i \in Table : procs'[i].reaped = procs[i].reaped
<1>0. procs \in [Table -> Entry]
  BY DEF TypeOK
<1>1. ASSUME NEW i \in Table, WindowSlides(i)
      PROVE  /\ Table' = Table /\ \A j \in Table : ShouldRestart(j) => ShouldRestart(j)'
             /\ \A j \in Table : procs'[j].state = procs[j].state /\ procs'[j].reaped = procs[j].reaped
             /\ UNCHANGED <<op, reports>>
  <2>1. procs' = [procs EXCEPT ![i] = [procs[i] EXCEPT !.recent = @ - 1]]
    BY <1>1 DEF WindowSlides
  <2>2. Table' = Table
    BY <2>1 DEF Table
  <2>3. \A j \in Table : /\ procs'[j].state = procs[j].state /\ procs'[j].reaped = procs[j].reaped
                         /\ procs'[j].name = procs[j].name
    BY <1>0, <2>1 DEF Entry
  <2>4. \A j \in Table : procs'[j].recent = procs[j].recent \/ procs'[j].recent = procs[j].recent - 1
    BY <1>0, <2>1 DEF Entry
  <2>5. \A j \in Table : procs[j].recent \in Nat
    BY <1>0 DEF Entry
  <2>6. ASSUME NEW j \in Table, ShouldRestart(j) PROVE ShouldRestart(j)'
    <3>1. procs[j].recent \in Nat /\ procs'[j].recent < MaxRestarts
      BY <2>4, <2>5, <2>6, BudgetAssumption DEF ShouldRestart
    <3> QED
      BY <2>3, <2>6, <3>1 DEF ShouldRestart
  <2> QED
    BY <1>1, <2>2, <2>3, <2>6 DEF WindowSlides
<1>2. ASSUME NEW i \in Table, OwnerReapsChild(i)
      PROVE  /\ Table' = Table /\ \A j \in Table : ShouldRestart(j) => ShouldRestart(j)'
             /\ UNCHANGED <<op, reports>> /\ op = Idle
  <2>1. procs' = [procs EXCEPT ![i].reaped = TRUE]
    BY <1>2 DEF OwnerReapsChild
  <2>2. Table' = Table /\ \A j \in Table : /\ procs'[j].recent = procs[j].recent
                                           /\ procs'[j].name = procs[j].name
    BY <1>0, <2>1 DEF Entry, Table
  <2> QED
    BY <1>2, <2>2 DEF ShouldRestart, OwnerReapsChild
<1>3. ASSUME NEW i \in Table, UsageMissing(i)
      PROVE  /\ Table' = Table /\ \A j \in Table : ShouldRestart(j) => ShouldRestart(j)'
             /\ UNCHANGED <<op, reports>> /\ op = Idle
  <2>1. procs' = [procs EXCEPT ![i].state = "Errored"]
    BY <1>3 DEF UsageMissing
  <2>2. Table' = Table /\ \A j \in Table : /\ procs'[j].recent = procs[j].recent
                                           /\ procs'[j].name = procs[j].name
    BY <1>0, <2>1 DEF Entry, Table
  <2> QED
    BY <1>3, <2>2 DEF ShouldRestart, UsageMissing
<1>4. ASSUME NEW pid \in Pids, ChildExits(pid) \/ OrphanReaped(pid)
                               \/ StrangerStarts(pid) \/ StrangerEnds(pid)
      PROVE  UNCHANGED <<procs, op, reports>>
  BY <1>4 DEF ChildExits, OrphanReaped, StrangerStarts, StrangerEnds
<1>5. procs' = procs => /\ Table' = Table /\ \A j \in Table : ShouldRestart(j) => ShouldRestart(j)'
  BY DEF Table, ShouldRestart
<1>6. CASE World
  BY <1>1, <1>4, <1>5, <1>6 DEF World, supVars
<1>7. ASSUME NEW i \in Table, EmbedderReaps(i)
      PROVE  UNCHANGED supVars /\ check = NoCheck /\ OwnerReapsChild(i)
  BY <1>7 DEF EmbedderReaps
<1>8. ASSUME NEW i \in Table, UsageRead(i)
      PROVE  UNCHANGED <<procs, op, reports, check, restarting, owed>> /\ check = NoCheck
             /\ op = Idle
  BY <1>8 DEF UsageRead, vars
<1>9. ASSUME NEW i \in Table, UsageMissing(i)
      PROVE  UNCHANGED supVars /\ check = NoCheck
  BY <1>9 DEF UsageMissing
<1> QED
  BY <1>2, <1>3, <1>5, <1>6, <1>7, <1>8, <1>9 DEF supVars

\* A check that begins finds entries whose child is dead, and has a report for
\* each that is due.
LEMMA CheckBeginsFacts ==
    ASSUME TypeOK, HandlesHoldPids, Phases, CheckBegins
    PROVE  /\ op = Idle /\ op' = op /\ Table' = Table
           /\ check' = [check EXCEPT !.step = "crashes"] /\ check = NoCheck
           /\ restarting = {} /\ restarting' = {} /\ over' = over /\ owed' \subseteq Table
           /\ \A j \in DOMAIN reports' : reports'[j] \in Table' /\ Exited(reports[j])'
           /\ \A i \in owed' : ShouldRestart(i)' /\ \E j \in DOMAIN reports' : reports'[j] = i
           /\ \A i \in Table : procs'[i].reaped = procs[i].reaped
<1>1. /\ check = NoCheck /\ check' = [check EXCEPT !.step = "crashes"]
      /\ owed' = Due /\ UNCHANGED <<restarting, over>> /\ restarting = {}
      /\ DOMAIN reports = {}
  BY DEF CheckBegins, Phases, NoCheck
<1>2. CASE op = Idle /\ CrashedNow = {} /\ UNCHANGED vars
  <2>1. Due = {} /\ DOMAIN reports' = {} /\ Table' = Table
    BY <1>1, <1>2 DEF Due, vars, Table
  <2> QED
    BY <1>1, <1>2, <2>1 DEF vars
<1>3. CASE DetectCrashes
  <2>1. PICK pid_to_id \in [{procs[i].pid : i \in CrashedNow} -> Table] :
            /\ \A p \in DOMAIN pid_to_id : procs[pid_to_id[p]].pid = p
            /\ reports' = [i \in CrashedNow |-> pid_to_id[procs[i].pid]]
    BY <1>3 DEF DetectCrashes
  <2>2. /\ op = Idle /\ op' = op /\ os' = os
        /\ procs' = [i \in Table |->
                        IF i \in CrashedNow THEN [procs[i] EXCEPT !.state = "Errored"]
                        ELSE procs[i]]
    BY <1>3 DEF DetectCrashes
  <2>3. /\ Table' = Table
        /\ \A i \in Table : /\ procs'[i].pid = procs[i].pid /\ procs'[i].name = procs[i].name
                            /\ procs'[i].reaped = procs[i].reaped
                            /\ procs'[i].recent = procs[i].recent
    BY <2>2 DEF TypeOK, Entry, Table
  <2>4. CrashedNow \subseteq Table /\ DOMAIN reports' = CrashedNow
        /\ \A i \in CrashedNow : reports'[i] = pid_to_id[procs[i].pid]
    BY <2>1 DEF CrashedNow
  <2>5. ASSUME NEW i \in CrashedNow
        PROVE  /\ reports'[i] \in Table /\ procs[reports'[i]].pid = procs[i].pid
               /\ Exited(reports[i])'
    <3>1. reports'[i] \in Table /\ procs[reports'[i]].pid = procs[i].pid
      BY <2>1, <2>4
    <3>2. os[procs[i].pid] \notin {"running", "stranger"}
      BY DEF CrashedNow, Listed
    <3>3. PICK k \in Table : k = reports'[i]
      BY <3>1
    <3>4. Exited(k)'
      BY <2>2, <2>3, <3>1, <3>2, <3>3 DEF HandlesHoldPids, Exited
    <3>5. Exited(reports[i])'
      BY <2>2, <2>3, <3>3, <3>4 DEF Exited
    <3> QED
      BY <3>1, <3>5
  <2>6. ASSUME NEW i \in Due
        PROVE  ShouldRestart(i)' /\ i \in Table /\ i \in DOMAIN reports' /\ reports'[i] = i
    <3>1. /\ i \in CrashedNow /\ ShouldRestart(i)
          /\ \A j \in Table \ {i} : procs[j].pid # procs[i].pid
      BY DEF Due
    <3> QED
      BY <2>3, <2>4, <2>5, <3>1 DEF ShouldRestart
  <2> QED
    BY <1>1, <2>2, <2>3, <2>4, <2>5, <2>6
<1> QED
  BY <1>2, <1>3 DEF CheckBegins

LEMMA SupCases ==
    ASSUME [SupNext]_allVars
    PROVE  \/ UNCHANGED allVars
           \/ EmbedderCalls
           \/ World \/ \E i \in Table : EmbedderReaps(i) \/ UsageRead(i) \/ UsageMissing(i)
           \/ CheckBegins
           \/ HandlesCrashes
           \/ \/ \E j \in DOMAIN reports : HandleCrash(j)
              \/ \E pid \in Pids : CrashRestarted(pid)
              \/ CrashRestartFails
           \/ LimitsBegin
           \/ \E i \in check.todo : LimitAction(i)
           \/ CallSteps
           \/ CheckEnds
BY Zenon DEF SupNext, CheckStep

LEMMA PhasesStep ==
    ASSUME SupTypeOK, OpShape, HandlesHoldPids, Phases, Marks, [SupNext]_allVars
    PROVE  Phases'
<1>0. TypeOK /\ over \subseteq Table /\ check \in [step : {"idle", "crashes", "limits"}, todo : SUBSET Ids]
  BY DEF SupTypeOK
<1>1. CASE UNCHANGED allVars
  BY <1>1 DEF Phases, allVars, vars, supVars, Table
<1>2. CASE EmbedderCalls
  <2>1. Calls /\ UNCHANGED supVars /\ check = NoCheck
    BY <1>2 DEF EmbedderCalls
  <2>2. NoCheck.step = "idle" /\ NoCheck.todo = {}
    BY DEF NoCheck
  <2>3. op'.call # "auto" /\ (op'.call = "none" => op' = Idle) /\ reports' = reports
    BY <1>0, <2>1, CallFacts, IdleFacts
  <2> QED
    BY <2>1, <2>2, <2>3 DEF Phases, supVars
<1>3. CASE World \/ \E i \in Table : EmbedderReaps(i) \/ UsageRead(i) \/ UsageMissing(i)
  BY <1>0, <1>3, WorldFacts DEF Phases
<1>4. CASE CheckBegins
  <2>1. /\ op' = Idle /\ check'.step = "crashes" /\ check'.todo = {}
    BY <1>0, <1>4, CheckBeginsFacts DEF NoCheck
  <2> QED
    BY <2>1, IdleFacts DEF Phases
<1>5. CASE HandlesCrashes
  <2>1. /\ check.step = "crashes" /\ UNCHANGED supVars /\ SecondLock
    BY <1>5 DEF HandlesCrashes
  <2>2. op'.call = "auto" /\ op'.step = "next" /\ Table' = Table
    BY <2>1 DEF SecondLock, Idle, Table
  <2> QED
    BY <2>1, <2>2 DEF Phases, supVars
<1>6. CASE \/ \E j \in DOMAIN reports : HandleCrash(j)
           \/ \E pid \in Pids : CrashRestarted(pid)
           \/ CrashRestartFails
  <2>1. /\ check.step = "crashes" /\ Table' = Table /\ check' = check
        /\ op' = Idle \/ (op'.call = "auto" /\ op'.step \in {"next", "backoff"})
    BY <1>0, <1>6, AutoFacts
  <2> QED
    BY <2>1, IdleFacts DEF Phases
<1>7. CASE LimitsBegin
  <2>1. /\ op = Idle /\ op' = op /\ DOMAIN reports' = {} /\ owed' = {} /\ Table' = Table
        /\ check'.step = "limits" /\ check'.todo \subseteq over
    BY <1>7 DEF LimitsBegin, CrashesHandled, vars, Table
  <2> QED
    BY <1>0, <2>1, IdleFacts DEF Phases
<1>8. ASSUME NEW i \in check.todo, LimitAction(i)
      PROVE  Phases'
  <2>1. /\ op'.call \in {"stop", "restart"}
        /\ UNCHANGED <<procs, reports, owed>> /\ check.step = "limits"
        /\ check' = [check EXCEPT !.todo = @ \ {i}]
    BY <1>0, <1>8, LimitActionFacts
  <2>2. check'.step = "limits" /\ check'.todo \subseteq check.todo
    BY <1>0, <2>1
  <2> QED
    BY <2>1, <2>2 DEF Phases, Table
<1>9. CASE CallSteps
  <2>1. /\ op.call \notin {"none", "auto"} /\ check.step # "crashes"
        /\ op' = Idle \/ op'.call = op.call
        /\ op'.call = "none" => op' = Idle
        /\ reports' = reports
        /\ op.call # "delete" => Table' = Table
    BY <1>0, <1>9, CallStepFacts
  <2>2. UNCHANGED <<check, restarting, owed>>
    BY <1>9 DEF CallSteps
  <2>3. check'.todo \subseteq Table'
    <3>1. CASE check.step = "idle"
      BY <2>2, <3>1 DEF Phases, NoCheck
    <3>2. CASE check.step = "limits"
      BY <2>1, <2>2, <3>2 DEF Phases
    <3> QED
      BY <1>0, <2>1, <3>1, <3>2
  <2> QED
    BY <2>1, <2>2, <2>3, IdleFacts DEF Phases
<1>10. CASE CheckEnds
  <2>1. /\ check.step = "limits" /\ op = Idle /\ op' = op /\ check' = NoCheck
        /\ restarting' = {i \in restarting \cap Table : procs[i].state # "Running"}
        /\ owed' = owed /\ reports' = reports
    BY <1>10 DEF CheckEnds, vars
  <2>2. restarting' = {}
    BY <2>1, IdleFacts DEF Marks
  <2> QED
    BY <2>1, <2>2, IdleFacts DEF Phases, NoCheck
<1> QED
  BY <1>1, <1>2, <1>3, <1>4, <1>5, <1>6, <1>7, <1>8, <1>9, <1>10, SupCases

\* Unless a restart is under way, a marked entry runs and is under its limits.
LEMMA MarkedRun ==
    ASSUME Marks, op.step # "backoff"
    PROVE  \A i \in restarting : procs[i].state = "Running" /\ i \notin over
BY DEF Marks

LEMMA HandleCrashFacts ==
    ASSUME TypeOK, NEW j \in DOMAIN reports, HandleCrash(j)
    PROVE  /\ op.call = "auto" /\ op.step = "next"
           /\ reports' = Restrict(reports, DOMAIN reports \ {j})
           /\ UNCHANGED <<procs, os, check, over, owed>>
           /\ \/ /\ op'.step # "backoff" /\ restarting' = restarting
                 /\ \/ reports[j] \in restarting
                    \/ reports[j] \notin Table
                    \/ ~ShouldRestart(reports[j])
              \/ /\ op'.step = "backoff" /\ op'.id = reports[j] /\ op'.todo = op.todo
                 /\ reports[j] \in Table \ restarting
                 /\ restarting' = restarting \cup {reports[j]}
<1>0. op \in Operation
  BY DEF TypeOK
<1>1. /\ op.call = "auto" /\ op.step = "next" /\ UNCHANGED <<procs, os, check, over, owed>>
      /\ reports' = Restrict(reports, DOMAIN reports \ {j})
  BY DEF HandleCrash, TryAutoRestart
<1>2. ProceedAuto(reports').step # "backoff"
  BY ProceedAutoFacts
<1>3. \/ /\ op' = ProceedAuto(reports')
         /\ reports[j] \in restarting \/ reports[j] \notin Table \/ ~ShouldRestart(reports[j])
      \/ /\ op' = [op EXCEPT !.step = "backoff", !.id = reports[j]]
         /\ reports[j] \in Table \ restarting
  BY DEF HandleCrash, TryAutoRestart
<1>4. op' = [op EXCEPT !.step = "backoff", !.id = reports[j]]
          => op'.step = "backoff" /\ op'.id = reports[j] /\ op'.todo = op.todo
  BY <1>0 DEF Operation
<1>5. restarting' = IF op'.step = "backoff" THEN restarting \cup {op'.id} ELSE restarting
  BY DEF HandleCrash
<1> QED
  BY <1>1, <1>2, <1>3, <1>4, <1>5

LEMMA CrashRestartedFacts ==
    ASSUME TypeOK, OpShape, NEW pid \in Pids, CrashRestarted(pid)
    PROVE  /\ op.step = "backoff" /\ op.id \in Table /\ op'.step \in {"idle", "next"}
           /\ op'.todo \subseteq op.todo
           /\ Respawned(op.id, pid) /\ Table' = Table
           /\ procs'[op.id].state = "Running"
           /\ \A i \in Table \ {op.id} : procs'[i] = procs[i]
           /\ over' = over \ {op.id} /\ UNCHANGED <<check, restarting, owed, reports>>
<1>1. /\ op.step = "backoff" /\ op.id \in Table /\ Respawned(op.id, pid)
      /\ op' = ProceedAuto(reports) /\ reports' = reports
      /\ over' = over \ {op.id} /\ UNCHANGED <<check, restarting, owed>>
  BY DEF CrashRestarted, AutoRespawn, OpShape
<1>2. op'.step \in {"idle", "next"} /\ op'.todo \subseteq op.todo
  BY <1>1, ProceedAutoFacts
<1>3. /\ Table' = Table /\ procs'[op.id].state = "Running"
      /\ \A i \in Table \ {op.id} : procs'[i] = procs[i]
  BY <1>1, RespawnedFacts DEF Table
<1> QED
  BY <1>1, <1>2, <1>3

LEMMA MarksStep ==
    ASSUME SupTypeOK, OpShape, HandlesHoldPids, Phases, Phases', Marks, [SupNext]_allVars
    PROVE  Marks'
<1>0. TypeOK /\ check \in [step : {"idle", "crashes", "limits"}, todo : SUBSET Ids]
  BY DEF SupTypeOK
<1>1. restarting' = {} => Marks'
  BY DEF Marks
<1>2. check = NoCheck => restarting = {}
  BY DEF Phases, NoCheck
<1>3. CASE UNCHANGED allVars
  BY <1>3 DEF Marks, allVars, vars, supVars, Table
<1>4. CASE EmbedderCalls
  BY <1>1, <1>2, <1>4 DEF EmbedderCalls, supVars
<1>5. CASE World \/ \E i \in Table : EmbedderReaps(i) \/ UsageRead(i) \/ UsageMissing(i)
  <2>1. /\ UNCHANGED <<op, restarting, check>> /\ Table' = Table
        /\ check # NoCheck => /\ over' = over
                              /\ \A i \in Table : procs'[i].state = procs[i].state
    BY <1>0, <1>5, WorldFacts
  <2> QED
    BY <1>1, <1>2, <2>1 DEF Marks
<1>6. CASE CheckBegins
  BY <1>0, <1>1, <1>6, CheckBeginsFacts
<1>7. CASE HandlesCrashes
  <2>1. /\ op = Idle /\ op'.step = "next" /\ op'.todo = {} /\ procs' = procs /\ Table' = Table
        /\ UNCHANGED supVars
    BY <1>7 DEF HandlesCrashes, SecondLock, Idle, Table
  <2>2. \A i \in restarting : procs[i].state = "Running" /\ i \notin over
    BY <2>1, MarkedRun, IdleFacts
  <2> QED
    BY <2>1, <2>2 DEF Marks, supVars
<1>8. ASSUME NEW j \in DOMAIN reports, HandleCrash(j)
      PROVE  Marks'
  <2>1. /\ op.step = "next" /\ UNCHANGED <<procs, check, over>> /\ Table' = Table
        /\ \/ op'.step # "backoff" /\ restarting' = restarting
           \/ /\ op'.step = "backoff" /\ op'.id \in Table
              /\ restarting' = restarting \cup {op'.id}
    BY <1>0, <1>8, HandleCrashFacts DEF Table
  <2>2. /\ op'.todo = {} /\ check.todo = {} /\ check.step = "crashes"
        /\ op'.step \notin {"wait", "reap", "respawn"}
    BY <1>0, <1>8, AutoFacts, IdleFacts DEF Phases
  <2>3. \A i \in restarting : procs[i].state = "Running" /\ i \notin over /\ i \in Table
    BY <2>1, MarkedRun DEF Marks
  <2> QED
    BY <2>1, <2>2, <2>3 DEF Marks
<1>9. ASSUME NEW pid \in Pids, CrashRestarted(pid)
      PROVE  Marks'
  <2>1. op'.todo = {} /\ check.todo = {} /\ op'.step \in {"idle", "next"}
    <3>1. op'.todo = {} /\ check.step = "crashes"
      BY <1>0, <1>9, AutoFacts
    <3> QED
      BY <1>0, <1>9, <3>1, CrashRestartedFacts DEF Phases
  <2>2. /\ procs'[op.id].state = "Running" /\ over' = over \ {op.id}
        /\ \A i \in Table \ {op.id} : procs'[i] = procs[i]
        /\ UNCHANGED <<check, restarting>> /\ Table' = Table
    BY <1>0, <1>9, CrashRestartedFacts
  <2>3. \A i \in restarting \ {op.id} : procs[i].state = "Running" /\ i \notin over /\ i \in Table
    BY DEF Marks
  <2>4. \A i \in restarting : i \in Table /\ procs'[i].state = "Running" /\ i \notin over'
    BY <2>2, <2>3 DEF Marks
  <2> QED
    BY <2>1, <2>2, <2>4 DEF Marks
<1>10. CASE CrashRestartFails
  <2>1. /\ op'.todo = {} /\ check.todo = {} /\ op'.step \notin {"wait", "reap", "respawn"}
        /\ Table' = Table
    BY <1>0, <1>10, AutoFacts, IdleFacts DEF Phases
  <2>2. /\ restarting' = restarting \ {op.id} /\ UNCHANGED <<procs, check, over>>
    BY <1>10 DEF CrashRestartFails, AutoRespawnFails
  <2>3. \A i \in restarting \ {op.id} : procs[i].state = "Running" /\ i \notin over /\ i \in Table
    BY DEF Marks
  <2> QED
    BY <2>1, <2>2, <2>3 DEF Marks
<1>11. CASE LimitsBegin
  <2>1. /\ op = Idle /\ op' = op /\ UNCHANGED <<procs, restarting, over>> /\ Table' = Table
        /\ check'.todo \subseteq over
    BY <1>11 DEF LimitsBegin, CrashesHandled, vars, Table
  <2>2. \A i \in restarting : procs[i].state = "Running" /\ i \notin over /\ i \in Table
    BY <2>1, MarkedRun, IdleFacts DEF Marks
  <2> QED
    BY <2>1, <2>2, IdleFacts DEF Marks
<1>12. ASSUME NEW i \in check.todo, LimitAction(i)
       PROVE  Marks'
  <2>1. /\ op'.step = "next" /\ op'.todo = {i} /\ op = Idle
        /\ UNCHANGED <<procs, restarting, over>> /\ Table' = Table
        /\ check' = [check EXCEPT !.todo = @ \ {i}]
    BY <1>0, <1>12, LimitActionFacts DEF Table
  <2>2. check'.todo \subseteq check.todo
    BY <1>0, <2>1
  <2>3. \A k \in restarting : /\ procs[k].state = "Running" /\ k \notin over /\ k \in Table
                              /\ k \notin check.todo
    BY <2>1, MarkedRun, IdleFacts DEF Marks
  <2> QED
    BY <2>1, <2>2, <2>3 DEF Marks
<1>13. CASE CallSteps
  <2>1. /\ op.call \notin {"none", "auto"} /\ check.step # "crashes"
        /\ op'.todo \subseteq op.todo /\ op'.step # "backoff"
        /\ op'.step \in {"wait", "reap", "respawn"} =>
              \/ op'.id \in op.todo
              \/ op.step \in {"wait", "reap"} /\ op'.id = op.id
        /\ op.call # "delete" => Table' = Table
        /\ \A k \in Table' : \/ procs'[k] = procs[k]
                             \/ k \in op.todo
                             \/ op.step \in {"wait", "reap", "respawn"} /\ op.id = k
    BY <1>0, <1>13, CallStepFacts
  <2>2. UNCHANGED <<check, restarting>> /\ over' \subseteq over
    BY <1>13 DEF CallSteps
  <2>3. op.step # "backoff"
    BY <2>1 DEF OpShape
  <2>4. CASE check.step = "idle"
    BY <1>1, <2>2, <2>4 DEF Phases
  <2>5. CASE check.step = "limits"
    <3>1. Table' = Table
      BY <2>1, <2>5 DEF Phases
    <3>2. ASSUME NEW k \in restarting
          PROVE  /\ k \in Table' /\ k \notin op'.todo \cup check'.todo
                 /\ op'.step \in {"wait", "reap", "respawn"} => op'.id # k
                 /\ procs'[k].state = "Running" /\ k \notin over'
      <4>1. /\ k \in Table /\ k \notin op.todo \cup check.todo
            /\ op.step \in {"wait", "reap", "respawn"} => op.id # k
            /\ procs[k].state = "Running" /\ k \notin over
        BY <2>3 DEF Marks
      <4> QED
        BY <2>1, <2>2, <3>1, <4>1
    <3> QED
      BY <2>2, <3>2 DEF Marks
  <2> QED
    BY <1>0, <2>1, <2>4, <2>5
<1>14. CASE CheckEnds
  <2>1. check' = NoCheck
    BY <1>14 DEF CheckEnds
  <2>2. restarting' = {}
    BY <2>1 DEF Phases, NoCheck
  <2> QED
    BY <1>1, <2>2
<1> QED
  BY <1>3, <1>4, <1>5, <1>6, <1>7, <1>8, <1>9, <1>10, <1>11, <1>12, <1>13, <1>14, SupCases

\* A dead child stays dead while a check sleeps.
LEMMA ExitedStays ==
    ASSUME TypeOK, World, NEW i \in Table, Exited(i)
    PROVE  Exited(i)'
<1>0. procs \in [Table -> Entry] /\ os \in [Pids -> PidStates] /\ procs[i].pid \in Pids
  BY OsFacts DEF TypeOK
<1>1. ASSUME NEW k \in Table, WindowSlides(k)
      PROVE  Exited(i)'
  <2>1. procs'[i].pid = procs[i].pid /\ procs'[i].reaped = procs[i].reaped /\ os' = os
    BY <1>0, <1>1 DEF WindowSlides, Entry
  <2> QED
    BY <2>1 DEF Exited
<1>2. ASSUME NEW pid \in Pids, ChildExits(pid) \/ OrphanReaped(pid)
                               \/ StrangerStarts(pid) \/ StrangerEnds(pid)
      PROVE  Exited(i)'
  <2>1. procs' = procs
    BY <1>2 DEF ChildExits, OrphanReaped, StrangerStarts, StrangerEnds
  <2>2. CASE procs[i].reaped
    BY <2>1, <2>2 DEF Exited
  <2>3. CASE ~procs[i].reaped
    <3>1. os[procs[i].pid] = "zombie" /\ Held(procs[i].pid)
      BY <2>3 DEF Exited, Held
    <3>2. os'[procs[i].pid] = "zombie"
      BY <1>0, <1>2, <3>1 DEF ChildExits, OrphanReaped, StrangerStarts, StrangerEnds
    <3> QED
      BY <2>1, <3>2 DEF Exited
  <2> QED
    BY <2>2, <2>3
<1> QED
  BY <1>1, <1>2 DEF World

LEMMA CrashesStep ==
    ASSUME SupTypeOK, OpShape, OpShape', HandlesHoldPids, Phases, Phases', Marks, Crashes,
           [SupNext]_allVars
    PROVE  Crashes'
<1>0. TypeOK /\ owed \subseteq Table
  BY DEF SupTypeOK
<1>1. check'.step # "crashes" => Crashes'
  BY DEF Phases, OpShape, Crashes
<1>2. CASE UNCHANGED allVars
  BY <1>2 DEF Crashes, allVars, vars, supVars, Table, Exited, ShouldRestart
<1>3. check = NoCheck => check.step # "crashes"
  BY DEF NoCheck
<1>4. CASE World
  <2>1. /\ UNCHANGED <<op, reports, check, restarting, owed>> /\ Table' = Table
        /\ \A i \in Table : ShouldRestart(i) => ShouldRestart(i)'
        /\ check # NoCheck => \A i \in Table : procs'[i].state = procs[i].state
    BY <1>0, <1>4, WorldFacts
  <2>2. \A i \in Table : Exited(i) => Exited(i)'
    BY <1>0, <1>4, ExitedStays
  <2>3. CASE check.step = "crashes"
    <3>1. \A j \in DOMAIN reports' : reports'[j] \in Table /\ (Exited(reports[j])' \/ reports'[j] \in restarting')
      <4> SUFFICES ASSUME NEW j \in DOMAIN reports
                   PROVE  reports'[j] \in Table /\ (Exited(reports[j])' \/ reports'[j] \in restarting')
        BY <2>1
      <4>1. PICK k \in Table : k = reports[j] /\ (Exited(k) \/ k \in restarting)
        BY DEF Crashes
      <4>2. k = reports'[j] /\ (Exited(k)' \/ k \in restarting')
        BY <2>1, <2>2, <4>1
      <4> QED
        BY <4>2 DEF Exited
    <3>2. op'.step = "backoff" => op'.id \in restarting' /\ Exited(op.id)'
      <4> SUFFICES ASSUME op.step = "backoff"
                   PROVE  op'.id \in restarting' /\ Exited(op.id)'
        BY <2>1
      <4>1. PICK k \in Table : k = op.id /\ Exited(k) /\ k \in restarting
        BY DEF Crashes, OpShape
      <4>2. k = op'.id /\ Exited(k)' /\ k \in restarting'
        BY <2>1, <2>2, <4>1
      <4> QED
        BY <4>2 DEF Exited
    <3>3. \A i \in owed : \/ procs'[i].state = "Running"
                          \/ op'.step = "backoff" /\ op'.id = i
                          \/ ShouldRestart(i)' /\ \E j \in DOMAIN reports' : reports'[j] = i
      BY <1>0, <1>3, <2>1, <2>3 DEF Crashes
    <3> QED
      BY <2>1, <3>1, <3>2, <3>3 DEF Crashes
  <2> QED
    BY <1>1, <2>1, <2>3
<1>5. CASE \E i \in Table : EmbedderReaps(i) \/ UsageRead(i) \/ UsageMissing(i)
  <2>1. check' = check /\ check = NoCheck
    BY <1>5 DEF EmbedderReaps, UsageRead, UsageMissing, supVars
  <2> QED
    BY <1>1, <1>3, <2>1
<1>6. CASE CheckBegins
  <2>1. /\ op' = Idle /\ owed' \subseteq Table
        /\ \A j \in DOMAIN reports' : reports'[j] \in Table' /\ Exited(reports[j])'
        /\ \A i \in owed' : ShouldRestart(i)' /\ \E j \in DOMAIN reports' : reports'[j] = i
    BY <1>0, <1>6, CheckBeginsFacts
  <2> QED
    BY <2>1, IdleFacts DEF Crashes
<1>7. CASE HandlesCrashes
  <2>1. /\ op = Idle /\ op'.step = "next" /\ UNCHANGED <<procs, os, reports>> /\ Table' = Table
        /\ UNCHANGED supVars
    BY <1>7 DEF HandlesCrashes, SecondLock, Idle, Table
  <2> QED
    BY <2>1, IdleFacts DEF Crashes, supVars, Exited, ShouldRestart
<1>8. ASSUME NEW j \in DOMAIN reports, HandleCrash(j)
      PROVE  Crashes'
  <2>1. /\ op.call = "auto" /\ op.step = "next"
        /\ reports' = Restrict(reports, DOMAIN reports \ {j})
        /\ UNCHANGED <<procs, os, owed>> /\ Table' = Table
        /\ \/ /\ op'.step # "backoff" /\ restarting' = restarting
              /\ \/ reports[j] \in restarting
                 \/ reports[j] \notin Table
                 \/ ~ShouldRestart(reports[j])
           \/ /\ op'.step = "backoff" /\ op'.id = reports[j]
              /\ reports[j] \in Table \ restarting
              /\ restarting' = restarting \cup {reports[j]}
    BY <1>0, <1>8, HandleCrashFacts DEF Table
  <2>2. /\ DOMAIN reports' = DOMAIN reports \ {j}
        /\ \A k \in DOMAIN reports \ {j} : reports'[k] = reports[k]
    BY <2>1 DEF Restrict
  <2>3. \A i : (Exited(i)' <=> Exited(i)) /\ (ShouldRestart(i)' <=> ShouldRestart(i))
    BY <2>1 DEF Exited, ShouldRestart
  <2>4. \A i \in restarting : procs[i].state = "Running" /\ i \in restarting'
    BY <2>1, MarkedRun
  <2>5. ASSUME NEW k \in DOMAIN reports \ {j}
        PROVE  reports'[k] \in Table /\ (Exited(reports[k])' \/ reports'[k] \in restarting')
    <3>1. PICK i \in Table : i = reports[k] /\ (Exited(i) \/ i \in restarting)
      BY DEF Crashes
    <3>2. i = reports'[k] /\ (Exited(i)' \/ i \in restarting')
      BY <2>2, <2>3, <2>4, <3>1
    <3> QED
      BY <3>2 DEF Exited
  <2>6. op'.step = "backoff" => op'.id \in restarting' /\ Exited(op.id)'
    <3> SUFFICES ASSUME op'.step = "backoff"
                 PROVE  op'.id \in restarting' /\ Exited(op.id)'
      OBVIOUS
    <3>1. PICK i \in Table : i = reports[j] /\ Exited(i) /\ i = op'.id /\ i \in restarting'
      BY <2>1 DEF Crashes
    <3>2. Exited(i)'
      BY <2>3, <3>1
    <3> QED
      BY <3>1, <3>2 DEF Exited
  <2>7. ASSUME NEW i \in owed
        PROVE  \/ procs'[i].state = "Running"
               \/ op'.step = "backoff" /\ op'.id = i
               \/ ShouldRestart(i)' /\ \E k \in DOMAIN reports' : reports'[k] = i
    <3>1. i \in Table /\ procs' = procs
      BY <1>0, <2>1
    <3>2. CASE procs[i].state = "Running"
      BY <3>1, <3>2
    <3>3. CASE ShouldRestart(i) /\ reports[j] = i
      BY <2>1, <2>4, <3>1, <3>3
    <3>4. CASE ShouldRestart(i) /\ \E k \in DOMAIN reports \ {j} : reports[k] = i
      BY <2>2, <2>3, <3>4
    <3> QED
      BY <2>1, <3>2, <3>3, <3>4 DEF Crashes
  <2> QED
    BY <2>1, <2>2, <2>5, <2>6, <2>7 DEF Crashes
<1>9. ASSUME NEW pid \in Pids, CrashRestarted(pid)
      PROVE  Crashes'
  <2>1. /\ op.step = "backoff" /\ op.id \in Table /\ op'.step \in {"idle", "next"}
        /\ Respawned(op.id, pid) /\ Table' = Table
        /\ procs'[op.id].state = "Running"
        /\ \A i \in Table \ {op.id} : procs'[i] = procs[i]
        /\ UNCHANGED <<restarting, owed, reports>>
    BY <1>0, <1>9, CrashRestartedFacts
  <2>2. os[pid] = "free" /\ os' = [os EXCEPT ![pid] = "running"] /\ os \in [Pids -> PidStates]
    BY <1>0, <2>1 DEF Respawned, TypeOK
  <2>3. ASSUME NEW i \in Table \ {op.id}
        PROVE  (Exited(i) => Exited(i)') /\ (ShouldRestart(i) => ShouldRestart(i)')
    <3>1. procs[i].pid \in Pids /\ procs'[i] = procs[i]
      BY <1>0, <2>1, OsFacts
    <3> QED
      BY <2>2, <3>1 DEF Exited, ShouldRestart
  <2>4. ASSUME NEW j \in DOMAIN reports
        PROVE  reports'[j] \in Table /\ (Exited(reports[j])' \/ reports'[j] \in restarting')
    <3>1. PICK i \in Table : i = reports[j] /\ (Exited(i) \/ i \in restarting)
      BY DEF Crashes
    <3>2. i = reports'[j] /\ (Exited(i)' \/ i \in restarting')
      BY <2>1, <2>3, <3>1 DEF Crashes
    <3> QED
      BY <3>2 DEF Exited
  <2>5. ASSUME NEW i \in owed
        PROVE  \/ procs'[i].state = "Running"
               \/ ShouldRestart(i)' /\ \E k \in DOMAIN reports' : reports'[k] = i
    BY <1>0, <2>1, <2>3 DEF Crashes
  <2> QED
    BY <2>1, <2>4, <2>5 DEF Crashes
<1>10. CASE CrashRestartFails
  <2>1. /\ op.step = "backoff" /\ restarting' = restarting \ {op.id} /\ owed' = owed \ {op.id}
        /\ UNCHANGED <<procs, os, reports>> /\ op' = ProceedAuto(reports) /\ Table' = Table
    BY <1>10 DEF CrashRestartFails, AutoRespawnFails, Table
  <2>2. op'.step # "backoff"
    BY <1>0, <2>1, ProceedAutoFacts
  <2>3. \A i : (Exited(i)' <=> Exited(i)) /\ (ShouldRestart(i)' <=> ShouldRestart(i))
    BY <2>1 DEF Exited, ShouldRestart
  <2>4. ASSUME NEW j \in DOMAIN reports
        PROVE  reports'[j] \in Table /\ (Exited(reports[j])' \/ reports'[j] \in restarting')
    <3>1. PICK i \in Table : i = reports[j] /\ (Exited(i) \/ i \in restarting)
      BY DEF Crashes
    <3>2. i = reports'[j] /\ (Exited(i)' \/ i \in restarting')
      BY <2>1, <2>3, <3>1 DEF Crashes
    <3> QED
      BY <3>2 DEF Exited
  <2>5. ASSUME NEW i \in owed'
        PROVE  \/ procs'[i].state = "Running"
               \/ ShouldRestart(i)' /\ \E k \in DOMAIN reports' : reports'[k] = i
    BY <2>1, <2>3 DEF Crashes
  <2> QED
    BY <2>1, <2>2, <2>4, <2>5 DEF Crashes
<1>11. CASE EmbedderCalls
  BY <1>1, <1>3, <1>11 DEF EmbedderCalls, supVars
<1>12. CASE LimitsBegin \/ CheckEnds
  <2>1. check'.step # "crashes"
    BY <1>12 DEF LimitsBegin, CheckEnds, NoCheck
  <2> QED
    BY <1>1, <2>1
<1>13. ASSUME NEW i \in check.todo, LimitAction(i)
       PROVE  Crashes'
  <2>1. check.step = "limits" /\ check' = [check EXCEPT !.todo = @ \ {i}]
    BY <1>13 DEF LimitAction
  <2>2. check'.step # "crashes"
    BY <2>1 DEF SupTypeOK
  <2> QED
    BY <1>1, <2>2
<1>14. CASE CallSteps
  <2>1. check.step # "crashes" /\ check' = check
    BY <1>0, <1>14, CallStepFacts DEF CallSteps
  <2> QED
    BY <1>1, <2>1
<1> QED
  BY <1>2, <1>4, <1>5, <1>6, <1>7, <1>8, <1>9, <1>10, <1>11, <1>12, <1>13, <1>14, SupCases

LEMMA HealthStep ==
    ASSUME SupTypeOK, OpShape, HandlesHoldPids, Phases, Health, [SupNext]_allVars
    PROVE  Health'
<1>0. TypeOK
  BY DEF SupTypeOK
<1>1. op'.step # "health" => Health'
  BY DEF Health
<1>2. CASE UNCHANGED allVars
  BY <1>2 DEF Health, allVars, vars
<1>3. CASE EmbedderCalls
  <2>1. op' = Idle \/ op'.step = "next"
    BY <1>0, <1>3, CallFacts DEF EmbedderCalls
  <2> QED
    BY <1>1, <2>1, IdleFacts
<1>4. CASE World \/ \E i \in Table : EmbedderReaps(i) \/ UsageRead(i) \/ UsageMissing(i)
  <2>1. /\ op' = op /\ (op # Idle => \A i \in Table : procs'[i].reaped = procs[i].reaped)
    BY <1>0, <1>4, WorldFacts
  <2>2. op.step = "health" => op # Idle /\ op.id \in Table
    BY IdleFacts DEF OpShape
  <2> QED
    BY <2>1, <2>2 DEF Health
<1>5. CASE CheckBegins
  BY <1>0, <1>1, <1>5, CheckBeginsFacts, IdleFacts
<1>6. CASE HandlesCrashes
  BY <1>1, <1>6 DEF HandlesCrashes, SecondLock, Idle
<1>7. CASE \/ \E j \in DOMAIN reports : HandleCrash(j)
           \/ \E pid \in Pids : CrashRestarted(pid)
           \/ CrashRestartFails
  BY <1>0, <1>1, <1>7, AutoFacts, IdleFacts
<1>8. CASE LimitsBegin \/ CheckEnds
  <2>1. op = Idle /\ op' = op
    BY <1>8 DEF LimitsBegin, CheckEnds, CrashesHandled, vars
  <2> QED
    BY <1>1, <2>1, IdleFacts
<1>9. ASSUME NEW i \in check.todo, LimitAction(i)
      PROVE  Health'
  BY <1>0, <1>1, <1>9, LimitActionFacts
<1>10. CASE CallSteps
  BY <1>0, <1>10, CallStepFacts DEF Health
<1> QED
  BY <1>2, <1>3, <1>4, <1>5, <1>6, <1>7, <1>8, <1>9, <1>10, SupCases

LEMMA SupTypeStep ==
    ASSUME SupTypeOK, OpShape, HandlesHoldPids, Phases, TypeOK', Phases', Marks',
           [SupNext]_allVars
    PROVE  SupTypeOK'
<1>0. /\ TypeOK /\ check \in [step : {"idle", "crashes", "limits"}, todo : SUBSET Ids]
      /\ over \subseteq Table /\ owed \subseteq Table /\ Table \subseteq Ids
  BY DEF SupTypeOK, TypeOK
<1>1. restarting' \subseteq Ids
  BY DEF Marks, TypeOK
<1>2. ASSUME check'.step # "crashes"
      PROVE  owed' \subseteq Table'
  BY <1>2 DEF Phases
<1>a. ASSUME procs' = procs
      PROVE  Table' = Table
  BY <1>a DEF Table
<1> DEFINE Typed == /\ check' \in [step : {"idle", "crashes", "limits"}, todo : SUBSET Ids]
                    /\ over' \subseteq Table'
                    /\ owed' \subseteq Table'
<1>3. ASSUME UNCHANGED allVars
      PROVE  Typed
  BY <1>0, <1>3 DEF allVars, vars, supVars, Table
<1>4. ASSUME EmbedderCalls
      PROVE  Typed
  <2>1. Table \subseteq Table' /\ UNCHANGED supVars
    BY <1>0, <1>4, CallFacts DEF EmbedderCalls, Table
  <2> QED
    BY <1>0, <2>1 DEF supVars
<1>5. ASSUME World \/ \E i \in Table : EmbedderReaps(i) \/ UsageRead(i) \/ UsageMissing(i)
      PROVE  Typed
  <2>1. UNCHANGED <<check, owed>> /\ Table' = Table
    BY <1>0, <1>5, WorldFacts
  <2>2. over' = over \/ \E i \in Table : over' \in {over \cup {i}, over \ {i}}
    BY <1>5 DEF World, EmbedderReaps, UsageRead, UsageMissing, supVars
  <2> QED
    BY <1>0, <2>1, <2>2
<1>6. ASSUME CheckBegins
      PROVE  Typed
  <2>1. /\ check' = [check EXCEPT !.step = "crashes"] /\ over' = over /\ owed' \subseteq Table
        /\ Table' = Table
    BY <1>0, <1>6, CheckBeginsFacts
  <2> QED
    BY <1>0, <2>1
<1>7. ASSUME HandlesCrashes
      PROVE  Typed
  <2>1. UNCHANGED <<check, over, owed>> /\ procs' = procs
    BY <1>7 DEF HandlesCrashes, SecondLock, supVars
  <2> QED
    BY <1>0, <1>a, <2>1
<1>8. ASSUME \/ \E j \in DOMAIN reports : HandleCrash(j)
             \/ \E pid \in Pids : CrashRestarted(pid)
             \/ CrashRestartFails
      PROVE  Typed
  <2>1. Table' = Table /\ check' = check
    BY <1>0, <1>8, AutoFacts
  <2>2. over' \subseteq over /\ owed' \subseteq owed
    BY <1>8 DEF HandleCrash, CrashRestarted, CrashRestartFails
  <2> QED
    BY <1>0, <2>1, <2>2
<1>9. ASSUME LimitsBegin
      PROVE  Typed
  <2>1. /\ check'.step = "limits" /\ check'.todo \subseteq over /\ over' = over /\ owed' = {}
        /\ procs' = procs
        /\ check' = [step |-> "limits", todo |-> check'.todo]
    BY <1>9 DEF LimitsBegin, vars
  <2> QED
    BY <1>0, <1>a, <2>1
<1>10. ASSUME NEW i \in check.todo, LimitAction(i)
       PROVE  Typed
  <2>1. UNCHANGED <<procs, over, owed>> /\ check' = [check EXCEPT !.todo = @ \ {i}]
    BY <1>0, <1>10, LimitActionFacts
  <2> QED
    BY <1>0, <1>a, <2>1
<1>11. ASSUME CallSteps
       PROVE  Typed
  <2>1. UNCHANGED <<check, owed>> /\ over' \subseteq DOMAIN procs' /\ check.step # "crashes"
    BY <1>0, <1>11, CallStepFacts DEF CallSteps
  <2>2. over' \subseteq Table'
    BY <2>1 DEF Table
  <2> QED
    BY <1>0, <1>2, <2>1, <2>2
<1>12. ASSUME CheckEnds
       PROVE  Typed
  <2>1. check' = NoCheck /\ UNCHANGED <<procs, over, owed>>
    BY <1>12 DEF CheckEnds, vars
  <2> QED
    BY <1>0, <1>a, <2>1 DEF NoCheck
<1>13. Typed
  BY <1>3, <1>4, <1>5, <1>6, <1>7, <1>8, <1>9, <1>10, <1>11, <1>12, SupCases
<1> QED
  BY <1>1, <1>13 DEF SupTypeOK

LEMMA SupInitHolds == SupInit => SupInvariant
<1> SUFFICES ASSUME SupInit PROVE SupInvariant
  OBVIOUS
<1>1. /\ Init /\ check = NoCheck /\ restarting = {} /\ over = {} /\ owed = {}
  BY DEF SupInit
<1>2. TypeOK /\ op = Idle /\ Table = {} /\ DOMAIN reports = {}
  BY <1>1, TypeInit DEF Init, Table
<1>3. SupTypeOK
  BY <1>1, <1>2 DEF SupTypeOK, NoCheck
<1>4. OpShape /\ HandlesHoldPids /\ Marks /\ Crashes /\ Health
  BY <1>1, <1>2, IdleFacts DEF OpShape, HandlesHoldPids, Marks, Crashes, Health
<1>5. Phases
  BY <1>1, <1>2, IdleFacts DEF Phases, NoCheck
<1> QED
  BY <1>3, <1>4, <1>5 DEF SupInvariant

LEMMA SupStepHolds == SupInvariant /\ [SupNext]_allVars => SupInvariant'
<1> SUFFICES ASSUME SupInvariant, [SupNext]_allVars PROVE SupInvariant'
  OBVIOUS
<1>1. /\ SupTypeOK /\ TypeOK /\ OpShape /\ HandlesHoldPids
      /\ Phases /\ Marks /\ Crashes /\ Health
  BY DEF SupInvariant, SupTypeOK
<1>2. TypeOK' /\ OpShape' /\ HandlesHoldPids'
  BY <1>1, TableStep
<1>3. Phases'
  BY <1>1, PhasesStep
<1>4. Marks'
  BY <1>1, <1>3, MarksStep
<1>5. Crashes' /\ Health'
  BY <1>1, <1>2, <1>3, CrashesStep, HealthStep
<1>6. SupTypeOK'
  BY <1>1, <1>2, <1>3, <1>4, SupTypeStep
<1> QED
  BY <1>2, <1>3, <1>4, <1>5, <1>6 DEF SupInvariant

LEMMA SupHolds == SupSpec => []SupInvariant
BY SupInitHolds, SupStepHolds, PTL DEF SupSpec

-----------------------------------------------------------------------------
(* What a step does to a restart count, and to a rollout. *)

\* Only a respawn adds a restart to an entry.
LEMMA RecentGrows ==
    ASSUME TypeOK, OpShape, [Next]_vars, NEW i \in Table, i \in DOMAIN procs',
           procs'[i].recent > procs[i].recent
    PROVE  op.id = i /\ op.step \in {"respawn", "backoff"}
<1>0. procs \in [Table -> Entry] /\ procs[i].recent \in Nat
  BY DEF TypeOK, Entry
<1>1. procs'[i].recent # procs[i].recent /\ procs'[i] # procs[i] /\ procs' # procs
  BY <1>0
<1>2. ASSUME NEW k \in Table, NEW s, procs' = [procs EXCEPT ![k].state = s]
      PROVE  FALSE
  BY <1>0, <1>1, <1>2 DEF Entry
<1>3. ASSUME NEW k, procs' = Restrict(procs, Table \ {k})
      PROVE  FALSE
  BY <1>1, <1>3 DEF Restrict
<1>4. ASSUME NEW k \in Table, NEW pid, Respawned(k, pid)
      PROVE  k = i
  BY <1>0, <1>1, <1>4 DEF Respawned
<1>5. CASE UNCHANGED vars
  BY <1>1, <1>5 DEF vars
<1>6. ASSUME NEW name, NEW pid, Spawn(name, pid)
      PROVE  FALSE
  BY <1>1, <1>6 DEF Spawn, TypeOK
<1>7. ASSUME NEW call, NEW targets, NEW force, Begin(call, targets, force)
      PROVE  FALSE
  BY <1>1, <1>7 DEF Begin
<1>8. ASSUME NEW k \in Table, Signal(k) \/ SignalFails(k) \/ DeleteStopped(k)
      PROVE  FALSE
  BY <1>2, <1>3, <1>8 DEF Signal, SignalFails, DeleteStopped
<1>9. CASE WaitReturns
  <2>1. op.id \in Table
    BY <1>9 DEF WaitReturns, OpShape
  <2>2. CASE op.call = "delete"
    BY <1>3, <1>9, <2>2 DEF WaitReturns
  <2>3. CASE op.call # "delete"
    <3>1. procs' = [procs EXCEPT ![op.id].state = "Stopped", ![op.id].reaped = TRUE]
      BY <1>9, <2>3 DEF WaitReturns
    <3>2. procs'[i].recent = procs[i].recent
      BY <1>0, <2>1, <3>1 DEF Entry
    <3> QED
      BY <1>1, <3>2
  <2> QED
    BY <2>2, <2>3
<1>10. CASE WaitTimeout \/ RespawnFails \/ HealthCheck \/ SecondLock \/ AutoRespawnFails
            \/ \E j \in DOMAIN reports : TryAutoRestart(j)
  BY <1>1, <1>10 DEF WaitTimeout, RespawnFails, HealthCheck, SecondLock, AutoRespawnFails,
                     TryAutoRestart
<1>11. ASSUME NEW pid \in Pids, Respawn(pid) \/ AutoRespawn(pid)
       PROVE  op.id = i /\ op.step \in {"respawn", "backoff"}
  BY <1>4, <1>11 DEF Respawn, AutoRespawn, OpShape
<1>12. CASE DetectCrashes
  <2>1. procs'[i] = IF i \in CrashedNow THEN [procs[i] EXCEPT !.state = "Errored"] ELSE procs[i]
    BY <1>12 DEF DetectCrashes
  <2>2. procs'[i].recent = procs[i].recent
    BY <1>0, <2>1 DEF Entry
  <2> QED
    BY <1>1, <2>2
<1>13. ASSUME NEW pid \in Pids, ChildExits(pid) \/ OrphanReaped(pid)
                                \/ StrangerStarts(pid) \/ StrangerEnds(pid)
       PROVE  FALSE
  BY <1>1, <1>13 DEF ChildExits, OrphanReaped, StrangerStarts, StrangerEnds
<1>14. ASSUME NEW k \in Table, OwnerReapsChild(k)
       PROVE  FALSE
  <2>1. procs' = [procs EXCEPT ![k].reaped = TRUE]
    BY <1>14 DEF OwnerReapsChild
  <2>2. procs'[i].recent = procs[i].recent
    BY <1>0, <2>1 DEF Entry
  <2> QED
    BY <1>1, <2>2
<1>15. ASSUME NEW k \in Table, WindowSlides(k)
       PROVE  FALSE
  <2>1. procs' = [procs EXCEPT ![k] = [procs[k] EXCEPT !.recent = @ - 1]]
    BY <1>15 DEF WindowSlides
  <2>2. procs'[i].recent = procs[i].recent \/ procs'[i].recent = procs[i].recent - 1
    BY <1>0, <2>1 DEF Entry
  <2> QED
    BY <1>0, <2>2
<1> QED
  BY <1>5, <1>6, <1>7, <1>8, <1>9, <1>10, <1>11, <1>12, <1>13, <1>14, <1>15, NextCases, Zenon

\* A rollout goes on only by its health check.
LEMMA HealthStepIs ==
    ASSUME TypeOK, [SupNext]_allVars, op.step = "health", op'.step = "next"
    PROVE  HealthCheck
<1>0. op # Idle /\ op.step # op'.step /\ op' # op
  BY IdleFacts
<1>1. CASE [Next]_vars
  <2>1. Next
    BY <1>0, <1>1 DEF vars
  <2>2. ASSUME NEW name, NEW pid, Spawn(name, pid) PROVE FALSE
    BY <1>0, <2>2 DEF Spawn
  <2>3. ASSUME NEW call, NEW targets, NEW force, Begin(call, targets, force) PROVE FALSE
    BY <1>0, <2>3 DEF Begin
  <2>4. ASSUME NEW i, Signal(i) \/ SignalFails(i) \/ DeleteStopped(i) PROVE FALSE
    BY <2>4 DEF Signal, SignalFails, DeleteStopped
  <2>5. ASSUME WaitTimeout \/ WaitReturns \/ RespawnFails \/ DetectCrashes \/ SecondLock
               \/ AutoRespawnFails
        PROVE  FALSE
    BY <1>0, <2>5 DEF WaitTimeout, WaitReturns, RespawnFails, DetectCrashes, SecondLock,
                      AutoRespawnFails
  <2>6. ASSUME NEW pid, \/ Respawn(pid) \/ AutoRespawn(pid) \/ ChildExits(pid)
                        \/ OrphanReaped(pid) \/ StrangerStarts(pid) \/ StrangerEnds(pid)
        PROVE  FALSE
    BY <1>0, <2>6 DEF Respawn, AutoRespawn, ChildExits, OrphanReaped, StrangerStarts,
                      StrangerEnds
  <2>7. ASSUME NEW i, TryAutoRestart(i) \/ OwnerReapsChild(i) \/ WindowSlides(i) PROVE FALSE
    BY <1>0, <2>7 DEF TryAutoRestart, OwnerReapsChild, WindowSlides
  <2> QED
    BY <2>1, <2>2, <2>3, <2>4, <2>5, <2>6, <2>7, NextCases, Zenon
<1>2. ASSUME NEW i, UsageMissing(i) PROVE FALSE
  BY <1>0, <1>2 DEF UsageMissing
<1>3. ASSUME NEW i, LimitAction(i) PROVE FALSE
  BY <1>0, <1>3 DEF LimitAction
<1>4. CASE Skips
  BY <1>4 DEF Skips
<1> QED
  BY <1>1, <1>2, <1>3, <1>4, TableSteps, Zenon

-----------------------------------------------------------------------------
(* Theorems. *)

\* The supervisor's variables and the table keep their shapes: marks, limits and
\* debts are about entries that exist, although a check's steps lie far apart.
THEOREM SupTypeCorrectness == SupSpec => []SupTypeOK
<1>1. SupInvariant => SupTypeOK
  BY DEF SupInvariant
<1> QED
  BY <1>1, SupHolds, PTL

\* Also under this supervisor a child that has not been waited for keeps its pid,
\* so that a kill by number reaches the child it is meant for.
THEOREM SupHandlesKeepPids == SupSpec => []HandlesHoldPids
<1>1. SupInvariant => HandlesHoldPids
  BY DEF SupInvariant
<1> QED
  BY <1>1, SupHolds, PTL

\* cleanup_restarting and the failure path together leave no mark after a check.
THEOREM ChecksLeaveNoMark == SupSpec => []NoMarkLeft
<1>1. SupInvariant => NoMarkLeft
  BY DEF SupInvariant, Phases, NoMarkLeft, NoCheck
<1> QED
  BY <1>1, SupHolds, PTL

\* A check starts every entry again for which a restart was due, unless its own
\* spawn failed.
THEOREM ChecksRestartTheDue == SupSpec => []DueAreRestarted
<1>1. SupInvariant => DueAreRestarted
  BY IdleFacts DEF SupInvariant, Crashes, DueAreRestarted, CrashesHandled
<1> QED
  BY <1>1, SupHolds, PTL

\* No restart replaces the handle of a child that lives, whichever way it came
\* about: a restart call, a rollout, a limit or a crash report.
THEOREM RestartsReplaceOnlyTheDead == SupSpec => NoChildReplaced
<1>1. ASSUME SupInvariant, [SupNext]_allVars, NEW i \in Table \cap DOMAIN procs',
             procs'[i].recent > procs[i].recent
      PROVE  Exited(i)
  <2>1. TypeOK /\ OpShape /\ Phases /\ Crashes
    BY <1>1 DEF SupInvariant, SupTypeOK
  <2>2. CASE [Next]_vars
    <3>1. op.id = i /\ op.step \in {"respawn", "backoff"}
      BY <1>1, <2>1, <2>2, RecentGrows
    <3> QED
      BY <2>1, <3>1 DEF OpShape, Crashes, Exited
  <2>3. procs[i].recent \in Nat
    BY <2>1 DEF TypeOK, Entry
  <2>4. ASSUME NEW k \in Table, UsageMissing(k)
        PROVE  FALSE
    <3>1. procs' = [procs EXCEPT ![k].state = "Errored"]
      BY <2>4 DEF UsageMissing
    <3>2. procs'[i].recent = procs[i].recent
      BY <2>1, <3>1 DEF TypeOK, Entry
    <3> QED
      BY <1>1, <2>3, <3>2
  <2>5. ASSUME procs' = procs PROVE FALSE
    BY <1>1, <2>3, <2>5
  <2>6. ASSUME NEW k \in check.todo, LimitAction(k)
        PROVE  FALSE
    BY <2>1, <2>5, <2>6, LimitActionFacts
  <2>7. CASE Skips
    BY <2>5, <2>7 DEF Skips
  <2> QED
    BY <1>1, <2>2, <2>4, <2>6, <2>7, TableSteps
<1>2. SupInvariant /\ [SupNext]_allVars =>
          [\A i \in Table \cap DOMAIN procs' :
              procs'[i].recent > procs[i].recent => Exited(i)]_allVars
  BY <1>1
<1> QED
  BY <1>2, SupHolds, PTL DEF SupSpec, NoChildReplaced

\* A rollout goes on to the next instance only over a child that lives.
THEOREM RolloutsStopAtCrashes == SupSpec => RolloutStopsAtCrash
<1>1. ASSUME SupInvariant, [SupNext]_allVars, ~ZombieListed, op.step = "health",
             op'.step = "next"
      PROVE  os[procs[op.id].pid] = "running"
  <2>1. TypeOK /\ OpShape /\ HandlesHoldPids /\ Health
    BY <1>1 DEF SupInvariant, SupTypeOK
  <2>2. HealthCheck
    BY <1>1, <2>1, HealthStepIs
  <2>3. Listed(procs[op.id].pid)
    BY <1>1, <2>2, IdleFacts DEF HealthCheck
  <2>4. op.id \in Table /\ ~procs[op.id].reaped
    BY <1>1, <2>1 DEF OpShape, Health
  <2> QED
    BY <1>1, <2>1, <2>3, <2>4 DEF Listed, HandlesHoldPids
<1>2. SupInvariant /\ [SupNext]_allVars =>
          [~ZombieListed /\ op.step = "health" /\ op'.step = "next" =>
              os[procs[op.id].pid] = "running"]_allVars
  BY <1>1
<1> QED
  BY <1>2, SupHolds, PTL DEF SupSpec, RolloutStopsAtCrash

-----------------------------------------------------------------------------
(* No child is lost. *)

\* A deletion that finds an entry Stopped drops a handle that is not needed.
StoppedAreReaped == \A i \in Table : procs[i].state = "Stopped" => procs[i].reaped

LEMMA StoppedStep ==
    ASSUME TypeOK, OpShape, HandlesHoldPids, StoppedAreReaped, [Next]_vars
    PROVE  StoppedAreReaped'
<1> SUFFICES ASSUME NEW j \in Table', procs'[j].state = "Stopped"
             PROVE  procs'[j].reaped
  BY DEF StoppedAreReaped
<1>1. ASSUME j \in Table, \/ procs'[j] = procs[j]
                          \/ /\ procs'[j].state = procs[j].state
                             /\ procs'[j].reaped = procs[j].reaped
      PROVE  procs'[j].reaped
  BY <1>1 DEF StoppedAreReaped
<1>2. CASE procs' = procs
  BY <1>1, <1>2 DEF Table
<1>3. ASSUME NEW name \in Names, NEW pid \in Pids, Spawn(name, pid)
      PROVE  procs'[j].reaped
  <2>1. CASE j = next_id
    BY <1>3, <2>1 DEF Spawn, NewEntry
  <2>2. CASE j # next_id
    BY <1>1, <1>3, <2>2 DEF Spawn, Table
  <2> QED
    BY <2>1, <2>2
<1>4. ASSUME NEW i \in Table, Signal(i) \/ SignalFails(i)
      PROVE  procs'[j].reaped
  <2>1. procs' = [procs EXCEPT ![i].state = "Stopping"]
    BY <1>4 DEF Signal, SignalFails
  <2>2. j \in Table /\ (j = i => procs'[j].state = "Stopping")
    BY <2>1 DEF Table, TypeOK, Entry
  <2>3. j # i => procs'[j] = procs[j]
    BY <2>1, <2>2 DEF Table
  <2> QED
    BY <1>1, <2>2, <2>3
<1>5. ASSUME NEW i \in Table, DeleteStopped(i)
      PROVE  procs'[j].reaped
  BY <1>1, <1>5 DEF DeleteStopped, Restrict, Table
<1>6. CASE WaitReturns
  <2>1. j = op.id => procs'[j].reaped
    BY <1>6, WaitReturnsFacts
  <2>2. j # op.id => j \in Table /\ procs'[j] = procs[j]
    BY <1>6, WaitReturnsFacts
  <2> QED
    BY <1>1, <2>1, <2>2
<1>7. ASSUME NEW pid \in Pids, Respawn(pid) \/ AutoRespawn(pid)
      PROVE  procs'[j].reaped
  <2>1. op.id \in Table /\ Respawned(op.id, pid)
    BY <1>7 DEF Respawn, AutoRespawn, OpShape
  <2>2. Table' = Table
    BY <2>1, RespawnedFacts DEF Table
  <2>3. j # op.id /\ procs'[j] = procs[j]
    BY <2>1, <2>2, RespawnedFacts
  <2> QED
    BY <1>1, <2>2, <2>3
<1>8. CASE DetectCrashes
  <2>1. j \in Table /\ procs'[j] = IF j \in CrashedNow THEN [procs[j] EXCEPT !.state = "Errored"]
                                   ELSE procs[j]
    BY <1>8 DEF DetectCrashes, Table
  <2>2. j \notin CrashedNow
    BY <2>1 DEF TypeOK, Entry
  <2> QED
    BY <1>1, <2>1, <2>2
<1>9. ASSUME NEW i \in Table, OwnerReapsChild(i)
      PROVE  procs'[j].reaped
  <2>1. procs' = [procs EXCEPT ![i].reaped = TRUE] /\ j \in Table
    BY <1>9 DEF OwnerReapsChild, Table
  <2>2. j = i => procs'[j].reaped
    BY <2>1 DEF Table, TypeOK, Entry
  <2>3. j # i => procs'[j] = procs[j]
    BY <2>1 DEF Table
  <2> QED
    BY <1>1, <2>1, <2>2, <2>3
<1>10. ASSUME NEW i \in Table, WindowSlides(i)
       PROVE  procs'[j].reaped
  BY <1>1, <1>10 DEF WindowSlides, Table, TypeOK, Entry
<1> QED
  BY <1>2, <1>3, <1>4, <1>5, <1>6, <1>7, <1>8, <1>9, <1>10, NextCases
     DEF Begin, WaitTimeout, RespawnFails, HealthCheck, SecondLock, TryAutoRestart,
         AutoRespawnFails, ChildExits, OrphanReaped, StrangerStarts, StrangerEnds, vars

\* A step of the table keeps a holder of every running child: what it takes
\* from the table or spawns over has been found dead.
LEMMA HoldersStay ==
    ASSUME TypeOK, OpShape, HandlesHoldPids, Crashes, StoppedAreReaped, NoChildLost,
           [Next]_vars
    PROVE  NoChildLost'
<1> SUFFICES ASSUME NEW q \in Pids, os'[q] = "running"
             PROVE  \E i \in Table' : procs'[i].pid = q /\ ~procs'[i].reaped
  BY DEF NoChildLost, Held
<1>1. ASSUME NEW name \in Names, Spawn(name, q)
      PROVE  \E i \in Table' : procs'[i].pid = q /\ ~procs'[i].reaped
  <2>1. next_id \in Table' /\ procs'[next_id].pid = q /\ procs'[next_id].reaped = FALSE
    BY <1>1 DEF Spawn, NewEntry, Table
  <2> QED
    BY <2>1
<1>2. CASE Respawn(q) \/ AutoRespawn(q)
  <2>1. op.id \in Table /\ Respawned(op.id, q)
    BY <1>2 DEF Respawn, AutoRespawn, OpShape
  <2>2. Table' = Table
    BY <2>1, RespawnedFacts DEF Table
  <2> QED
    BY <2>1, <2>2, RespawnedFacts
<1>3. CASE os[q] = "running"
  <2>1. PICK k \in Table : procs[k].pid = q /\ ~procs[k].reaped
    BY <1>3 DEF NoChildLost, Held
  <2>2. ~Exited(k)
    BY <1>3, <2>1 DEF Exited
  <2>3. ASSUME k \in Table', procs'[k] = procs[k] \/ SameHandle(k)
        PROVE  \E i \in Table' : procs'[i].pid = q /\ ~procs'[i].reaped
    BY <2>1, <2>3 DEF SameHandle
  <2>4. ASSUME NEW name \in Names, NEW pid \in Pids, Spawn(name, pid)
        PROVE  k \in Table' /\ procs'[k] = procs[k]
    BY <2>1, <2>4 DEF Spawn, Table, TypeOK
  <2>5. ASSUME WaitReturns
        PROVE  k \in Table' /\ procs'[k] = procs[k]
    <3>1. k # op.id
      BY <2>2, <2>5 DEF WaitReturns
    <3>2. k \in Table'
      BY <2>1, <2>5, <3>1 DEF WaitReturns, Restrict, Table
    <3> QED
      BY <2>5, <3>1, <3>2, WaitReturnsFacts
  <2>6. ASSUME NEW pid \in Pids, Respawn(pid) \/ AutoRespawn(pid)
        PROVE  k \in Table' /\ procs'[k] = procs[k]
    <3>1. op.id \in Table /\ Respawned(op.id, pid) /\ Exited(op.id)
      BY <2>6 DEF Respawn, AutoRespawn, OpShape, Crashes, Exited
    <3>2. k # op.id /\ Table' = Table
      BY <2>2, <3>1, RespawnedFacts DEF Table
    <3> QED
      BY <3>1, <3>2, RespawnedFacts
  <2>7. ASSUME NEW i \in Table, OwnerReapsChild(i)
        PROVE  k \in Table' /\ procs'[k] = procs[k]
    <3>1. k # i
      BY <2>2, <2>7 DEF OwnerReapsChild, Exited
    <3> QED
      BY <2>7, <3>1 DEF OwnerReapsChild, Table
  <2>8. ASSUME NEW pid \in Pids, ChildExits(pid)
        PROVE  k \in Table' /\ procs'[k] = procs[k]
    BY <2>8 DEF ChildExits, Table
  <2>9. ASSUME ~ \E name \in Names, pid \in Pids : Spawn(name, pid),
               ~ WaitReturns,
               ~ \E pid \in Pids : Respawn(pid),
               ~ \E pid \in Pids : AutoRespawn(pid),
               ~ \E i \in Table : OwnerReapsChild(i),
               ~ \E pid \in Pids : ChildExits(pid)
        PROVE  k \in Table' /\ SameHandle(k)
    <3>1. Table' # Table => \E i \in Table : DeleteStopped(i)
      BY <2>9, TableChanges
    <3>2. ASSUME NEW i \in Table, DeleteStopped(i)
          PROVE  k # i /\ Table' = Table \ {i}
      <4>1. procs[i].state = "Stopped" /\ procs[i].reaped
        BY <3>2 DEF DeleteStopped, MustStop, StoppedAreReaped
      <4> QED
        BY <2>1, <3>2, <4>1 DEF DeleteStopped, Restrict, Table
    <3>3. k \in Table'
      BY <2>1, <3>1, <3>2
    <3> QED
      BY <2>9, <3>3, EasySteps, Zenon
  <2> QED
    BY <2>3, <2>4, <2>5, <2>6, <2>7, <2>8, <2>9
<1> QED
  BY <1>1, <1>2, <1>3, OnlyStartsFork

LEMMA LostStep ==
    ASSUME SupInvariant, StoppedAreReaped, NoChildLost, [SupNext]_allVars
    PROVE  StoppedAreReaped' /\ NoChildLost'
<1>0. TypeOK /\ OpShape /\ HandlesHoldPids /\ Phases /\ Crashes
  BY DEF SupInvariant, SupTypeOK
<1>1. CASE [Next]_vars
  BY <1>0, <1>1, StoppedStep, HoldersStay
<1>2. ASSUME NEW i \in Table, UsageMissing(i)
      PROVE  StoppedAreReaped' /\ NoChildLost'
  <2>1. /\ Table' = Table /\ os' = os
        /\ \A j \in Table : procs'[j].pid = procs[j].pid /\ procs'[j].reaped = procs[j].reaped
    BY <1>0, <1>2, UsageMissingFacts
  <2>2. \A j \in Table : procs'[j].state = "Stopped" => procs[j].state = "Stopped"
    BY <1>0, <1>2 DEF UsageMissing, TypeOK, Entry
  <2>3. StoppedAreReaped'
    BY <2>1, <2>2 DEF StoppedAreReaped
  <2>4. NoChildLost'
    BY <2>1 DEF NoChildLost, Held
  <2> QED
    BY <2>3, <2>4
<1>3. CASE procs' = procs /\ os' = os
  BY <1>3 DEF StoppedAreReaped, NoChildLost, Held, Table
<1>4. ASSUME NEW i \in check.todo, LimitAction(i)
      PROVE  procs' = procs /\ os' = os
  BY <1>0, <1>4, LimitActionFacts
<1>5. Skips => procs' = procs /\ os' = os
  BY DEF Skips
<1> QED
  BY <1>1, <1>2, <1>3, <1>4, <1>5, TableSteps

\* Whatever a check, a call or the embedding program does, and whatever monitor
\* takes a live child for dead, every live child is held by an entry: for any
\* platform and any owner, which NoLeakedChild of the daemon's loop is not.
THEOREM ChecksLoseNoChild == SupSpec => []NoChildLost
<1>1. SupInit => StoppedAreReaped /\ NoChildLost
  <2> SUFFICES ASSUME SupInit PROVE StoppedAreReaped /\ NoChildLost
    OBVIOUS
  <2>1. Table = {} /\ \A pid \in Pids : os[pid] = "free"
    BY DEF SupInit, Init, Table
  <2> QED
    BY <2>1 DEF StoppedAreReaped, NoChildLost
<1>2. SupInvariant /\ StoppedAreReaped /\ NoChildLost /\ [SupNext]_allVars
         => StoppedAreReaped' /\ NoChildLost'
  BY LostStep
<1> QED
  BY <1>1, <1>2, SupHolds, PTL DEF SupSpec

-----------------------------------------------------------------------------
(* The restart budget. *)

\* A check keeps the budget as well: a mark, a limit's restart or a wrong
\* reading of usage never lets a grant be used twice.
THEOREM ChecksKeepBudget == SupSpec => KeepsBudget
<1>1. SupInit => Budget!Init
  BY BudgetInit DEF SupInit
<1>2. ASSUME SupInvariant, [SupNext]_allVars
      PROVE  [Budget!Next]_Budget!vars
  <2>0. TypeOK /\ OpShape /\ Phases
    BY <1>2 DEF SupInvariant, SupTypeOK
  <2>1. CASE [Next]_vars
    BY <2>0, <2>1, BudgetStep
  <2>2. ASSUME NEW i \in Table, UsageMissing(i)
        PROVE  UNCHANGED Budget!vars
    <3>1. Spent' = Spent /\ op' = op
      BY <2>0, <2>2, MarksSpendNothing DEF UsageMissing
    <3> QED
      BY <3>1, BudgetStutter
  <2>3. ASSUME NEW i \in check.todo, LimitAction(i)
        PROVE  UNCHANGED Budget!vars
    <3>1. procs' = procs /\ op = Idle /\ op'.step = "next"
      BY <2>0, <2>3, LimitActionFacts
    <3>2. Spent' = Spent
      BY <3>1 DEF Spent, Table
    <3> QED
      BY <3>1, <3>2, IdleFacts, BudgetStutter
  <2>4. ASSUME Skips
        PROVE  UNCHANGED Budget!vars
    <3>1. procs' = procs /\ op.step = "next" /\ op' = ProceedAuto(reports')
      BY <2>4 DEF Skips
    <3>2. Spent' = Spent
      BY <3>1 DEF Spent, Table
    <3>3. op'.step # "backoff"
      BY <2>0, <3>1, ProceedAutoFacts
    <3> QED
      BY <3>1, <3>2, <3>3, BudgetStutter
  <2> QED
    BY <1>2, <2>1, <2>2, <2>3, <2>4, TableSteps
<1>3. SupInvariant /\ [SupNext]_allVars => [Budget!Next]_Budget!vars
  BY <1>2
<1> QED
  BY <1>1, <1>3, SupHolds, PTL DEF SupSpec, KeepsBudget, Budget!Spec

-----------------------------------------------------------------------------
(* Checks get done. *)

\* The limits that a check has still to act on are ones that there is an action for.
Acts == \A i \in check.todo : OnLimit[procs[i].name] \in {"Restart", "Stop"}

\* Whatever a check is at, it has a step to take: the operation it awaits can go
\* on, and every entry whose limit it collected is there with an action to take.
CheckCanGoOn ==
    check # NoCheck =>
        /\ CanGoOn
        /\ check.todo \subseteq Table
        /\ Acts

\* The check has passed on from crashes to limits, has fewer limits left, has
\* taken up its reports, or is done with all of them or nearer to it.
CheckAdvances ==
    \/ check.step = "crashes" /\ check'.step = "limits"
    \/ check'.step = check.step /\ check'.todo \subseteq check.todo /\ check'.todo # check.todo
    \/ /\ check' = check /\ op = Idle
       /\ DOMAIN reports # {} /\ op' # Idle /\ reports' = reports
    \/ /\ check' = check /\ op # Idle
       /\ \/ op' = Idle /\ DOMAIN reports' = {}
          \/ op'.call = op.call /\ Advances

\* Every step of a check ends it or advances it, and what children, strangers and
\* the kernel do meanwhile leaves it where it is.
ChecksAdvance ==
    [][check # NoCheck => \/ check' = NoCheck
                          \/ CheckAdvances
                          \/ ~CheckStep /\ UNCHANGED <<check, op, reports>>]_allVars

\* No step of a call or of the world gives an entry another name.
LEMMA NamesStay ==
    ASSUME TypeOK, OpShape, Phases, CallSteps \/ World
    PROVE  \A i \in Table \cap Table' : procs'[i].name = procs[i].name
<1>0. procs \in [Table -> Entry]
  BY DEF TypeOK
<1>1. ASSUME NEW i \in Table, Signal(i) \/ SignalFails(i) \/ DeleteStopped(i) \/ WindowSlides(i)
      PROVE  \A j \in Table \cap Table' : procs'[j].name = procs[j].name
  BY <1>0, <1>1 DEF Signal, SignalFails, DeleteStopped, WindowSlides, Restrict, Entry, Table
<1>2. CASE WaitReturns
  BY <1>0, <1>2 DEF WaitReturns, Restrict, Entry, Table
<1>3. ASSUME NEW pid \in Pids, Respawn(pid)
      PROVE  \A j \in Table \cap Table' : procs'[j].name = procs[j].name
  BY <1>0, <1>3 DEF Respawn, Respawned, Entry, Table
<1>4. CASE WaitTimeout \/ RespawnFails \/ HealthCheck
  BY <1>4 DEF WaitTimeout, RespawnFails, HealthCheck
<1>5. ASSUME NEW pid \in Pids, \/ ChildExits(pid) \/ OrphanReaped(pid)
                               \/ StrangerStarts(pid) \/ StrangerEnds(pid)
      PROVE  \A j \in Table \cap Table' : procs'[j].name = procs[j].name
  BY <1>5 DEF ChildExits, OrphanReaped, StrangerStarts, StrangerEnds
<1> QED
  BY <1>1, <1>2, <1>3, <1>4, <1>5 DEF CallSteps, StopStep, RestartStep, World

LEMMA ActsStep ==
    ASSUME SupInvariant, Acts, [SupNext]_allVars
    PROVE  Acts'
<1>0. TypeOK /\ OpShape /\ Phases /\ Phases'
  BY SupStepHolds DEF SupInvariant, SupTypeOK
<1>a. ASSUME check'.todo \subseteq check.todo,
             \A i \in check'.todo : procs'[i].name = procs[i].name
      PROVE  Acts'
  BY <1>a DEF Acts
<1>1. CASE CallSteps \/ World
  <2>1. check' = check
    BY <1>1 DEF CallSteps, World, supVars
  <2>2. check.todo \subseteq Table \cap Table'
    BY <1>0, <2>1 DEF Phases
  <2> QED
    BY <1>0, <1>1, <1>a, <2>1, <2>2, NamesStay
<1>2. CASE LimitsBegin
  BY <1>2, LimitAssumption DEF LimitsBegin, vars, Acts, SupInvariant, SupTypeOK, TypeOK, Entry
<1>3. ASSUME NEW i \in check.todo, LimitAction(i)
      PROVE  Acts'
  <2>1. procs' = procs /\ check' = [check EXCEPT !.todo = @ \ {i}]
    BY <1>0, <1>3, LimitActionFacts
  <2>2. check'.todo \subseteq check.todo
    BY <2>1 DEF SupInvariant, SupTypeOK
  <2> QED
    BY <1>a, <2>1, <2>2
<1>4. CASE check' = NoCheck
  BY <1>4 DEF Acts, NoCheck
<1>5. CASE check.todo = {} /\ check'.todo = check.todo
  BY <1>5 DEF Acts
<1>6. CASE UNCHANGED allVars
  BY <1>6 DEF allVars, vars, supVars, Acts
<1>7. CASE EmbedderCalls \/ \E i \in Table : EmbedderReaps(i) \/ UsageRead(i) \/ UsageMissing(i)
  BY <1>7, <1>4 DEF EmbedderCalls, EmbedderReaps, UsageRead, UsageMissing, supVars
<1>8. CASE CheckBegins
  <2>1. check.todo = {} /\ check'.todo = check.todo
    BY <1>8 DEF CheckBegins, NoCheck
  <2> QED
    BY <1>5, <2>1
<1>9. CASE HandlesCrashes \/ (\E j \in DOMAIN reports : HandleCrash(j))
           \/ (\E pid \in Pids : CrashRestarted(pid)) \/ CrashRestartFails
  <2>1. check.step = "crashes" /\ check' = check
    BY <1>0, <1>9, AutoFacts DEF HandlesCrashes, supVars
  <2> QED
    BY <1>0, <1>5, <2>1 DEF Phases
<1>10. CASE CheckEnds
  BY <1>4, <1>10 DEF CheckEnds
<1> QED
  BY <1>1, <1>2, <1>3, <1>6, <1>7, <1>8, <1>9, <1>10, SupCases

LEMMA SupUnderwayStep ==
    ASSUME SupInvariant, Underway, [SupNext]_allVars
    PROVE  Underway'
<1>0. TypeOK /\ OpShape /\ HandlesHoldPids /\ Phases
  BY DEF SupInvariant, SupTypeOK
<1>1. CASE [Next]_vars
  BY <1>0, <1>1, UnderwayStep
<1>2. ASSUME NEW i \in Table, UsageMissing(i)
      PROVE  Underway'
  BY <1>2 DEF UsageMissing, Underway
<1>3. ASSUME NEW i \in check.todo, LimitAction(i)
      PROVE  Underway'
  BY <1>0, <1>3, LimitActionFacts DEF Underway
<1>4. CASE Skips
  <2> SUFFICES ASSUME op' # Idle PROVE Underway'
    BY DEF Underway
  <2>1. op.call = "auto" /\ op' = ProceedAuto(reports')
    BY <1>4 DEF Skips
  <2>2. DOMAIN reports' # {} /\ op' = [op EXCEPT !.step = "next", !.id = NoId]
    BY <2>1, ProceedAutoUnderway
  <2>3. op'.step = "next" /\ op'.call = "auto"
    BY <1>0, <2>1, <2>2 DEF TypeOK, Operation
  <2> QED
    BY <2>2, <2>3 DEF Underway
<1> QED
  BY <1>1, <1>2, <1>3, <1>4, TableSteps

\* A check can always go on, whatever children, strangers and the kernel do:
\* nothing it waits for is somebody else's to do, and its one wait without a
\* timeout is for a child that is dead already.
THEOREM ChecksCanGoOn == SupSpec => []CheckCanGoOn
<1>1. SupInit => Underway /\ Acts
  BY DEF SupInit, Init, Underway, Acts, NoCheck
<1>2. SupInvariant /\ Underway /\ Acts /\ [SupNext]_allVars => Underway' /\ Acts'
  BY SupUnderwayStep, ActsStep
<1>3. SupInvariant /\ Underway /\ Acts => CheckCanGoOn
  BY UnderwayGoesOn DEF SupInvariant, SupTypeOK, Phases, CheckCanGoOn
<1> QED
  BY <1>1, <1>2, <1>3, SupHolds, PTL DEF SupSpec

\* What an operation on the reports leaves when it ends.
LEMMA AutoEndsEmpty ==
    ASSUME TypeOK, op.call = "auto", NEW rest, ProceedAuto(rest) = Idle
    PROVE  DOMAIN rest = {}
<1>1. [op EXCEPT !.step = "next", !.id = NoId].call = "auto" /\ Idle.call = "none"
  BY IdleFacts DEF TypeOK, Operation
<1> QED
  BY <1>1 DEF ProceedAuto

\* And each of its steps ends it or leaves it less to do, while nobody else
\* touches what it is at: ChecksEnd rests on fairness alone.
THEOREM ChecksGetDone == SupSpec => ChecksAdvance
<1>1. ASSUME SupInvariant, [SupNext]_allVars, check # NoCheck
      PROVE  \/ check' = NoCheck
             \/ CheckAdvances
             \/ ~CheckStep /\ UNCHANGED <<check, op, reports>>
  <2>0. TypeOK /\ OpShape /\ HandlesHoldPids /\ Phases
    BY <1>1 DEF SupInvariant, SupTypeOK
  <2>i. Idle.call = "none" /\ Idle.step = "idle" /\ op \in Operation
    BY <2>0, IdleFacts DEF TypeOK
  <2>1. CASE ~CheckStep
    <3>1. World \/ UNCHANGED allVars
      BY <1>1, <2>1 DEF SupNext, EmbedderCalls, EmbedderReaps, UsageRead, UsageMissing, CheckBegins
    <3>2. UNCHANGED <<check, op, reports>>
      BY <2>0, <3>1, WorldFacts DEF allVars, vars, supVars
    <3> QED
      BY <2>1, <3>2
  <2>2. CASE HandlesCrashes
    <3>1. op' # Idle
      BY <2>2, <2>i DEF HandlesCrashes, SecondLock, Idle
    <3> QED
      BY <2>2, <3>1 DEF HandlesCrashes, SecondLock, supVars, CheckAdvances
  <2>a. ASSUME op.call = "auto", check' = check,
               op' = ProceedAuto(reports') \/ op'.step = "backoff",
               op' = Idle \/ (op'.call = op.call /\ Advances)
        PROVE  CheckAdvances
    <3>1. op # Idle
      BY <2>a, <2>i
    <3>2. op' = Idle => DOMAIN reports' = {}
      BY <2>0, <2>a, <2>i, AutoEndsEmpty
    <3> QED
      BY <2>a, <3>1, <3>2 DEF CheckAdvances
  <2>3. ASSUME NEW j \in DOMAIN reports, HandleCrash(j)
        PROVE  CheckAdvances
    <3>1. op.call = "auto" /\ check' = check /\ op # Idle /\ op.step = "next" /\ op.todo = {}
      BY <2>0, <2>3, <2>i, AutoFacts DEF HandleCrash, TryAutoRestart, OpShape
    <3>2. CASE TryAutoRestart(j)
      <4>1. op' = Idle \/ (op'.call = op.call /\ Advances)
        BY <2>0, <3>1, <3>2, OpStepAdvances DEF OpStep, AutoStep
      <4>2. op' = ProceedAuto(reports') \/ op'.step = "backoff"
        BY <2>i, <3>2 DEF TryAutoRestart, Operation
      <4> QED
        BY <2>a, <3>1, <4>1, <4>2
    <3>3. CASE ~TryAutoRestart(j)
      <4>1. reports' = Restrict(reports, DOMAIN reports \ {j}) /\ op' = ProceedAuto(reports')
        BY <2>3, <3>3 DEF HandleCrash
      <4>2. DOMAIN reports' = DOMAIN reports \ {j}
        BY <4>1 DEF Restrict
      <4>3. ASSUME op' # Idle
            PROVE  op'.call = op.call /\ Advances
        <5>1. op' = [op EXCEPT !.step = "next", !.id = NoId]
          BY <4>1, <4>3, ProceedAutoUnderway
        <5>2. op'.call = op.call /\ op'.todo = op.todo
          BY <2>i, <5>1 DEF Operation
        <5> QED
          BY <4>2, <5>2 DEF Advances
      <4> QED
        BY <2>a, <3>1, <4>1, <4>3
    <3> QED
      BY <3>2, <3>3
  <2>4. CASE (\E pid \in Pids : CrashRestarted(pid)) \/ CrashRestartFails
    <3>1. op.call = "auto" /\ check' = check /\ op # Idle
      BY <2>0, <2>4, <2>i, AutoFacts
    <3>2. AutoStep /\ op' = ProceedAuto(reports) /\ reports' = reports
      BY <2>4 DEF CrashRestarted, CrashRestartFails, AutoRespawn, AutoRespawnFails, AutoStep
    <3>3. op' = Idle \/ (op'.call = op.call /\ Advances)
      BY <2>0, <3>1, <3>2, OpStepAdvances DEF OpStep
    <3> QED
      BY <2>a, <3>1, <3>2, <3>3
  <2>5. CASE LimitsBegin
    BY <2>5 DEF LimitsBegin, CrashesHandled, CheckAdvances
  <2>6. ASSUME NEW i \in check.todo, LimitAction(i)
        PROVE  CheckAdvances
    <3>1. check' = [check EXCEPT !.todo = @ \ {i}]
      BY <2>0, <2>6, LimitActionFacts
    <3>2. check'.step = check.step /\ check'.todo = check.todo \ {i}
      BY <1>1, <3>1 DEF SupInvariant, SupTypeOK
    <3> QED
      BY <3>2 DEF CheckAdvances
  <2>7. CASE CallSteps
    <3>1. op.call \notin {"none", "auto"} /\ check.step # "crashes" /\ reports' = reports
      BY <2>0, <2>7, CallStepFacts
    <3>2. op # Idle /\ DOMAIN reports' = {} /\ check' = check
      BY <2>0, <2>7, <2>i, <3>1 DEF Phases, CallSteps
    <3>3. op' = Idle \/ (op'.call = op.call /\ Advances)
      BY <2>0, <2>7, <3>2, OpStepAdvances DEF OpStep, CallSteps
    <3> QED
      BY <3>2, <3>3 DEF CheckAdvances
  <2>8. CASE CheckEnds
    BY <2>8 DEF CheckEnds
  <2> QED
    BY <2>1, <2>2, <2>3, <2>4, <2>5, <2>6, <2>7, <2>8, Zenon DEF CheckStep
<1>2. SupInvariant /\ [SupNext]_allVars
         => [check # NoCheck => \/ check' = NoCheck
                                \/ CheckAdvances
                                \/ ~CheckStep /\ UNCHANGED <<check, op, reports>>]_allVars
  BY <1>1
<1> QED
  BY <1>2, SupHolds, PTL DEF SupSpec, ChecksAdvance

=============================================================================
