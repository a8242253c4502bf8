# Adasa in TLA+

Adasa is a process manager: a daemon spawns, watches, restarts and stops
processes, keeps their logs, remembers them in a state file and takes commands
from a client over a Unix socket. This directory holds TLA+ modules of the parts
whose correctness depends on order, failure or concurrency, TLC configurations
that check them on small instances, and TLAPS proofs of their main safety
properties for every value of the constants. Paths below are relative to the
repository's `src/` (the Rust crate), except `docs/` and `README.md`.

    tlc -workers 2 -config daemon.cfg MCDaemon     # one run
    tlapm DaemonProofs.tla                         # the proofs of one module

`PROJECT.json` lists components, runs, theorems, hazards, divergences, the source
lines each definition stands for, and for every property a mutant: a plausible
bug in the code that the property's run finds. Mutants stand before the
definition they replace, under a comment that begins with `Mutant:`.

## 1. The system

One daemon process runs a tokio runtime with a main task, an accept loop, a task
per connection, a supervisor loop (every 500 ms), a statistics loop (every 2 s)
and two tasks per managed process that read its output. They share a process
manager and a log manager, each behind a `tokio::sync::RwLock`; a command that
takes both takes the process manager's first. Outside the daemon there are the
children, the kernel's pids and zombies, the pid file, the socket path, the state
file and the log files, and other daemons and clients that use the same ones.

| component | state | operations | what is hard | what makes it correct |
|---|---|---|---|---|
| process manager `process/manager.rs` | id -> entry with state, pid, `Child`, restart tracker | spawn, stop, stop_all, restart, rolling_restart, try_auto_restart, detect_crashes, remove | waits for children with the lock held; failing `kill`; pids used again; errors half-way | the table never hides or loses a live child; every operation ends |
| crash monitor `process/monitor.rs` | last CPU and memory figures | is_process_alive, detect_crashes, update_all_stats | zombies in the process list | a crash is noticed |
| restart policy `process/restart.rs` | times of restarts | should_restart, calculate_delay, record_restart | wall clock; a budget checked before a sleep; saturation | backoff and budget are kept |
| spawner `process/spawner.rs` | none | spawn_process | fork/exec failures, privileges, limits | gives a pid and two pipes, or an error |
| process supervisor `process/supervisor.rs` | set of ids being restarted | check_health, handle_crash, check_resource_limits, cleanup_restarting | reports, marks and limits that are acted on long after they were collected | no live child is replaced; no mark is left behind; every due restart is tried |
| resource limits `process/limits.rs` | rlimits, cgroups | setup, add_process, set_cpu_limit, cleanup | I/O | |
| daemon life cycle `bin/adasa-daemon.rs` | tasks, signal state | initialize, start, shutdown, save | kills and power failures at any step; commands during the shutdown; fork inside the runtime | what is saved is what was stopped; a shutdown ends |
| commands `bin/adasa-daemon.rs` | none of their own | Start, Stop, Restart, Delete, List, Logs, StartFromConfig, ReloadConfig, Daemon | several steps under two locks, of which one fails | replies agree with what happened |
| state store `state/mod.rs` | state file, temporary file | load, save, validate | crash between create, write and rename | never torn by a kill |
| daemon manager, pid file `daemon/manager.rs`, `daemon/pid.rs` | pid file | register, unregister, is_running, stop_daemon | check-then-act without a lock; stale pids | one daemon, named by its file |
| daemonize `daemon/daemonize.rs` | none | double fork | forks a process with threads | the daemon goes on working |
| IPC server `ipc/server.rs` | listener, socket path | start, run, stop, Drop | one request a connection; aborts | each request is answered once, with its id |
| IPC client `ipc/client.rs` | next id, cached connection behind a mutex | send_command | retries of what may have run; threads that share a connection | answers are not mixed up, retries are bounded |
| logs `logs/manager.rs`, `logs/writer.rs` | log files, open file and size per task | create_logger, capture_logs, rotate, delete_logs | rotation, delete and restart beside the reading tasks | no line lost or moved; files pass the limit by less than a line; no pipe stays full |
| log reader `logs/reader.rs` | entries read so far; per tailer a file and a position in it; a channel | read_logs, LogStream, LogTailer | files rotated and deleted under the reader; a full channel; reads that start again | nothing newer is left out of an answer; a tail loses, repeats and reorders nothing |
| configuration `config/mod.rs` | none | from_file, validate, env expansion | a file of several services, of which one fails | refused before anything is started |
| CLI, errors, timing | none | parse, show | | |

How they meet: the client connects and sends one request; a connection's task
takes the process manager's lock, then the log manager's, and calls the process
manager and `create_logger`/`capture_logs`/`delete_logs`. The supervisor loop
takes the lock twice per round: once to collect crashes, once to restart what
crashed. The main task restores from the state store, binds the socket, and on
its way out takes both locks, stops all, saves and flushes. `adasa daemon stop`
is another process that reads the pid file and sends signals.

The main hazards this code is exposed to, each at its line and with the properties
that would catch it, are `"hazards"` in `PROJECT.json`.

## 2. The modules

Each component is a module of its own; where two meet, the module of one has the
other as its environment, reduced to what the first can observe:

- `Lifecycle`: what the process table promises, without pids that are used again,
  zombies, locks or steps: an entry has at most one live child and is down or gone
  only without one, and no live child is nobody's.
- `RestartBudget`: what `max_restarts` promises of automatic restarts, without
  processes, locks or a clock: a restart that has been granted and is still to happen
  has room in the window.
- `RemoteCall`: what `send_command` promises, without connections, threads or daemons:
  a request has its effect only while its call lasts, and again only when the answer
  to the last effect was lost.
- `ProcessManager`: the process table over an operating system, with the daemon's
  supervisor loop; it implements `Lifecycle` and `RestartBudget`. `RestartPolicy`
  refines its idea that the budget's window may slide at any moment into a clock, and
  implements `RestartBudget` too.
- `Supervisor`: the library's other supervisor, `ProcessSupervisor`, composed with
  the whole of `ProcessManager`, whose operations are its steps.
- `Daemon`: the daemon's tasks, the process manager's lock and the state file
  over any number of daemons. Its children only live and die; that stopping one
  leaves it dead is what `ProcessManager` shows.
- `DaemonControl`: daemons and stop commands around one pid file and socket.
  `Daemon` takes from it that there is one daemon at a time.
- `IpcSession`: threads that share a client, its connections and the server; it
  implements `RemoteCall`.
  It takes from `ProcessManager` and `Daemon` that handlers get their locks and
  answer (`OpsEnd`, `CommandsEnd`).
- `LogFiles`: the log of one process, its two reading tasks and the directory.
- `LogReader`: the readers of that log. Its writer is `LogFiles` reduced to what a
  reader sees: a file is opened, written, renamed away or unlinked.

`MCProcessManager`, `MCSupervisor`, `MCDaemon`, `MCDaemonControl`, `MCLogFiles` and
`MCLogReader` hold instances for TLC, and what documents claim and the code does not
do; `RestartPolicy` and `IpcSession` are instantiated by their configurations alone. `*Proofs` hold the theorems.

### ProcessManager

| model | code |
|---|---|
| `procs`, `next_id` | `ProcessManager::processes`, `next_id` |
| an entry's `reaped` | its `Child` has been waited for, so the kernel has freed the pid |
| an entry's `recent` | restarts inside the tracker's window |
| `os` | per pid: free, our running child, our zombie, a stranger's process |
| `reports` | the crashed ids that `supervisor_loop` holds between its two locks |
| `op` | the call that holds the write lock, where it is, its remaining targets |
| `Spawn` | `spawn` |
| `Signal`, `SignalFails`, `WaitTimeout`, `WaitReturns` | the parts of `stop` between its awaits; also inside restart and delete |
| `Respawn`, `RespawnFails`, `HealthCheck` | `restart`, `rolling_restart` |
| `DeleteStopped` and `Signal` with call "delete" | the loop of the `Delete` command |
| `DetectCrashes`, `SecondLock`, `TryAutoRestart`, `AutoRespawn` | `supervisor_loop`, `detect_crashes`, `try_auto_restart` |
| `Environment` | exits, reaping of dropped children, strangers, an owner that polls handles (the tests do, the daemon does not), the window |

Two constants describe the surroundings. `ZombieListed`: the platform's process
list shows dead children that nobody waited for (Linux: yes). `OwnerReaps`: the
code that embeds the manager polls the `Child` handles (the crate's tests do, the
daemon does not). An entry's deletion is one step with the end of its wait,
because nothing is awaited between them.

Properties: an entry that is not Running and not being worked on has a dead child
(`DownIsDead`); an unreaped child owns its pid (`HandlesHoldPids`), and while
nobody else reaps the pid of a Running entry is its own child's
(`RunningIsHeld`); no live child is lost (`NoLeakedChild`) or forgotten by a
delete (`DeletesOnlyDead`), both of which `KeepsPromise` includes; a rolling restart leaves Running what it has restarted
(`RolledStayRunning`); operations end (`OpsEnd`), crashes are noticed
(`CrashNoticed`), reports are tried (`ReportsTried`).

`KeepsPromise`, where zombies are listed and only the manager reaps, is the
refinement: under the mapping `Shown` (Running is up, an entry whose stop is under
way is ending, the others are down) with the entry's unreaped running child as its
only child, every step of the table is a step of `Lifecycle` or a stutter.
`KeepsBudget` is the other refinement: `recent` of the entries is the window's count,
and what is granted is the entry that the supervisor's loop is restarting. A new
entry is one whose restarts the window counts none of.

### Supervisor

| model | code |
|---|---|
| `check` | how far `check_health` has got, and the entries whose limit it has still to act on |
| `restarting` | `ProcessSupervisor::restarting` |
| `over` | entries whose recorded usage exceeds their limit |
| `owed` | history: crashes of this check that a restart is due for |
| `CheckBegins`, `HandlesCrashes`, `HandleCrash`, `CrashRestarted`, `CrashRestartFails` | `check_health` and `handle_crash` over `detect_crashes` and `try_auto_restart` |
| `LimitsBegin`, `LimitAction` | `check_resource_limits` with its restart and stop |
| `CheckEnds` | `cleanup_restarting` |
| `EmbedderCalls`, `EmbedderReaps`, `UsageRead`, `UsageMissing` | a program that calls the manager and `update_process_stats` between checks |

A check borrows the manager exclusively from its first step to its last, sleeps
included, so calls and checks alternate while children, strangers and the kernel go
on in between. Handles are polled by the embedding program and pids are reused, so
a report can name an entry twice, or one that shares its pid with another.
`NoChildReplaced`: no restart drops the handle of a live child all the same.
`NoChildLost`: every live child is held by an entry, whatever checks, calls and the
embedding program do.
`NoMarkLeft`: a check leaves no mark behind that would make a later crash be skipped.
`DueAreRestarted`: the failing restart of one entry takes no other with it.
`RolloutStopsAtCrash`: a rollout goes on only over a child that lives.
`ChecksEnd`: a check ends and gives the table back.

### RestartPolicy

One crashing process: `phase`, the rest of its sleep (`wait`), and the age of
every restart (`ages`, for the tracker's timestamps). `Tick` is a second,
`ClockStepsBack` the wall clock being corrected, which the sleep does not notice.
`TryAutoRestart` is `try_auto_restart` up to its sleep, `AutoRestart` the rest;
`Restart` is the manual one, which records itself too. `Delay` is
`calculate_delay` with the saturating power and product of `u64`.

`BackoffKept`: automatic restarts are as far apart as min(initial * 2^n, max).
`BudgetKept`: they never overdraw the window's budget unless the clock is set
back. `BudgetOutOfReach`: once the delays add up to the window, crashes alone
never reach the limit. (With the defaults this is so from six restarts on; a
larger `max_restarts` is no limit.) `KeepsBudget`: `RestartBudget` is implemented; a
restart is granted when its sleep begins.

### Daemon

`main` is the main task's step and what it has still to do; `table` and `alive`
are the process manager as the state file sees it; `lock` its lock; `conns` the
connection tasks; `disk` and `temp` the state file and its temporary file.
`Restore*`, `Bind` are `initialize`; `StopAccepting` ... `Exit` are the rest of
`start` and `shutdown_components`; `SaveCreates`, `SaveWrites`, `SaveRenames`
are `StateStore::save`; `Enter` ... `Close` are a connection's task around the
Start, StartFromConfig, ReloadConfig, Stop and Delete commands. Daemons end by exit, error, SIGKILL, SIGINT,
SIGTERM (before its handler is there) or with the power, at every step, and the
next one restores what the file says. `Modes` tells daemons that kept their
worker threads from those forked by `--daemonize` inside the runtime.

`SavesWhatItStopped`: short of a power failure the file changes only to list the
whole table at a moment when none of it is alive. `KillKeepsFile`: no kill tears
it. `ShutdownEnds`: with worker threads a shutdown ends. `CommandsEnd`: a command
that was accepted is answered, or its daemon ends.

A start command is a file of one service. `FileRefused` is `from_file` failing or
`validate` refusing, which happens before the lock is asked for; `NextService` takes
the services in the order of the file, which for a reload passes over those whose own
name is in the table; `StartOne` and `StartOneFails` take the instances of a service.
A connection's `counted` are the instances that its reply speaks of: `RepliesAreTrue`
says that they all run when it says so.

### DaemonControl

Per pid the step its process is at, from the check in `register_daemon` over
registering, binding and serving to unregistering (`step`, `serving`, `quits`),
the pid file's text and who has it open, whom the socket path leads to, and the
stop commands (`stops`), with `stop_daemon` step by step. Pids are used again.

Nothing in the code keeps two overlapping starts apart, or a stop from removing
the next daemon's pid file, so the four properties (`OneDaemon`,
`PidFileNamesDaemon`, `SocketIsServed`, `StopSucceeds`) are conditional on
`~overlap`. The history variable `overlap` becomes TRUE when a daemon starts
while another does, while one is on its way out that the pid file no longer
names, or while a stop is in progress, and FALSE again once no daemon and no stop
is left. This is the exact amount of care a user of `adasa daemon start` and
`stop` has to take. Files left behind, kills at every step, several stops at
once, and strangers with old pids are not excluded by it.

### IpcSession

`calls`: per thread where its `send_command` is, its attempt and its request's
id; `holder` and `cached` are the client's mutex and the connection in it; `conn`
is the last connection as both ends see it; `daemon` is up, closing or down.
`Handle` runs the request and `Reply` answers it with its id; `Panic` ends the
task; `StopsListening` and `DaemonEnds` are the daemon's end. As a client drops a
connection before it makes another, and one that was cached never answers again
(the server reads one request per connection), one connection is all there is
to know.

`AnswersOwnRequest`: nobody is given another's answer. `KeepsSession` is the
refinement of `RemoteCall`: a request is pending from its first attempt until its call
has an answer or gives up, `Handle` is its effect, and an effect is lost with the
connection that its answer should come over. `RunsAgainOnlyIfLost` (a request runs
again only after an answer to it was lost) and `RunsOncePerAttempt` (at most
`MAX_RETRY_ATTEMPTS` times) say parts of it of the history alone. `CallsReturn`: every
call returns.

### LogFiles

One managed process over any number of daemons. `queue` are the pipes its tasks
read, `stuck` those that nobody reads, `task` the step and the `LogWriter` of each
stream, `files` the directory (name = stream and second of rotation), `sizes` the
bytes of each file, `deleting` what `delete_logs` has listed. `Takes`, `Renames`, `Reopens`, `Writes` are one
turn of the loop in `capture_logs` through `write_stdout`/`write_stderr` and
`rotate_log`, with a failing branch each. `dropped` is history: lines that the code
has given up. Each action that adds to it is one of the cases named in
`LogsAreComplete`, and no other line may be missing.

Lines have lengths, any the instance gives them (`Length`): `read_line` bounds none,
and `write_stdout` compares the size with the limit before it writes and adds the
line's length after all of it is written. So a file may pass the limit by a line, and
a write that fails may leave the beginning of its line in the file, which is not
counted (`torn`, history) before a daemon opens the file again; a write that the end
of the daemon cuts short is a failed write just before the end. What is torn has no
newline: in the real file the next line follows on the same row.

`LogsAreComplete`, `LogsAreInOrder`, `DeletedLeavesNothing` (unless a rotation, an
opening or a failing unlink met the delete: `raced`). `FilesAreBounded`: but for torn
lines, a file passes the limit by less than the last line in it. It does not say that a
file stays within the limit, which is not so. `PipesAreRead`: a full pipe does not stay
full. Its task takes a line, whatever became of the lines before, or it ends and closes
the pipe: when its files cannot be opened (`manager.rs:174`) or the pipe cannot be read,
as at a line that is not UTF-8 (`manager.rs:192`). The child's output is lost then, and
its next write fails; but it does not block.

### LogReader

| model | code |
|---|---|
| `files`, `path`, `writing` | a stream's files over time, which of them is at its path, and which the writer has open |
| `read` | a call of `read_logs`: stdout's file, then stderr's, each tested, opened and read, then sorted and cut |
| `tail` | the task of a `LogStream`: whose turn it is, per tailer its file and position, and what is being sent |
| `channel`, `got` | the channel of the stream, and what `next` has returned |
| `Opens`, `Writes`, `Renames`, `Unlinks`, `Tick` | the writer, a rotation, `delete_logs`, the clock |
| `LooksForFile`, `OpensFile`, `ReadsFile`, `Shown` | `read_last_lines` twice, then the sort and the cut |
| `TailOpens`, `ReadsNext`, `NothingToRead`, `TailReadFails`, `Sends`, `Receives` | `LogTailer::read_next` in the loop of `LogStream::new`, and `next` |

Each file is cut to its last lines before the two are merged and cut again, while
both go on changing. `ShowsNewest`: still no line that the call came across is left
out for an older one. `ShowsEnds`: of each stream the answer has the end, without a
gap. `ArriveInOrder`: a tail delivers in order and nothing twice, also after a read
that failed and began again. `NothingLost`: until then it has delivered, or has in
hand, all that the filter finds up to its position. `CatchesUp`: it reaches the end of
the files that it has open.

## 3. The runs

| run | bounds | distinct states | shows |
|---|---|---|---|
| `manager_safety` | 3 pids, names web-0 and web-1 and the pattern web, 3 entries ever, budget 1, at most 2 restarts in the window, zombies listed, only the manager reaps | 138 400 | the table's entries and handles on Linux, a rollout's work, and that the table implements `Lifecycle` |
| `manager_liveness` | 2 pids, 2 entries, zombies unlisted, fair | 220 236 | crash reports that meet commands between the supervisor's two locks; `OpsEnd`, `CrashNoticed`, `ReportsTried`; the table implements `RestartBudget` |
| `supervisor` | 2 pids, 2 entries and their pattern, zombies unlisted, the embedding program reaps, one limit that restarts and one that stops, fair | 330 260 | checks between calls: what becomes of children, marks and due restarts |
| `restart_policy` | budget 3, window 6, delays 2 to 5, integers to 7, clock back by 2, 5 restarts | 1 437 164 | backoff and budget; implements `RestartBudget` |
| `daemon` | 3 names, a service of one instance and one of two, a file with both, 1 connection, with and without workers, fair | 427 404 | restore, commands, configuration files, shutdown, save, kills |
| `daemon_control` | 3 pids, 1 stop command | 241 756 | one daemon, its pid file and its socket |
| `ipc_session` | 2 threads, 3 attempts, 2 requests, 3 daemons, fair | 136 268 | answers and return; implements `RemoteCall` |
| `log_files` | 2 streams, a limit of 2 bytes, pipes of 1 line, lines of 3, 2 and 1 bytes, 2 seconds, fair | 407 926 | rotation, delete, reopening, failures |
| `log_reader` | 2 streams, 3 lines of which a filter finds 2, 2 files each, 2 seconds, answers of 2 lines, a channel of 1, fair | 1 644 038 | reads and tails beside rotation and delete |
| `claim_*` | the smallest instance that shows it | | a statement of the documentation that does not hold (section 5) |

Why these bounds are enough to be interesting. Two instances and their common
name make rolling restarts and deletes by name have a first and a next target;
three pids let a pid be free, ours and a stranger's at once, and be used again; a
third entry lets a name return after a delete. `Patterns` is empty in
`manager_liveness` to keep its graph small: the commands by name differ from
those by id in the set of targets alone, and `StopAll` still has several. The
policy's numbers are scaled so that the doubling delay reaches its cap, the
product saturates, the sleep is close to the window, and old restarts leave it. One
connection is enough for the lock of `Daemon` since connections only exclude
each other; the proofs hold for any number. In `log_files` a line is longer than
a file may be, one as long and one shorter, torn lines leave files partly filled, and two seconds tell rotations in one second from
those in two. In `log_reader` an answer of two of three lines cuts both files and
the merge, the channel of one entry is full at once, and a second file shows what a
rotation does to a position. A file with a service of one instance and one of two,
whose names are those of the first with a number, has what a reload passes over and
what it does not. Bounds on counters (`MaxId`, `RecentBound`, `CountBound`,
`MaxRequests`, `MaxStarts`, `MaxLines`, `MaxFiles`, `MaxTime`) are guards of the action that
counts, and named. Pids are symmetric where no liveness is checked.

`CHECK_DEADLOCK FALSE` stands where the modelled system may stop: a daemon that
finds a torn state file does not start, and the bounded requests and lines run
out. The other runs check for deadlock.

Both platforms matter for `ProcessManager`: what holds on one may fail on the
other. `KeepsPromise` and its part `NoLeakedChild` are about platforms that list zombies: elsewhere an entry
that a user restarts between the supervisor's two locks is respawned over its
live child, which nobody stops any more (section 5).

### Fairness

- `ProcessManager`: weak fairness of the steps of an operation (the runtime polls
  the task that holds the lock; a timeout or a child's exit makes each of them
  possible in the end), strong fairness of the supervisor's two lockings: tokio's
  `RwLock` is fair (first come, first served) and the loop asks every 500 ms.
- `Daemon`: weak fairness of the main task and of each connection's task. Without
  worker threads a wait for a child that is alive is disabled, not unfair: nothing
  drives its timer.
- `Supervisor`: weak fairness of a check's steps: who awaits a check polls it. When
  one is called is the embedding program's choice.
- `IpcSession`: weak fairness of each thread's call and of the server's accept
  loop and connection. The client's mutex is not fair: that no thread waits for it
  for ever rests on the others making finitely many requests, `MaxRequests`. Panics, stops and restarts of the daemon are never forced.
- `LogFiles`: weak fairness of each reading task.
- `LogReader`: weak fairness of the stream's task, which tokio polls, and of the
  client, which calls `next` again and again. The writer is not assumed to write.

No child, client, user, kernel event or daemon start is ever assumed to happen.

## 4. The proofs

All theorems are `Spec => []Inv`, `Spec => [][A]_vars` or, for the refinements,
`Spec => Promise!Spec`, for all constants that
satisfy the `ASSUME`s of the modules: sets of names and pids of any size, any
budget, any number of clients, attempts and lines. The bounds remain, as
arbitrary natural numbers. None of the invariants is inductive alone:

- `ProcessManagerProofs`. `IInv` adds `OpShape` (what is being worked on is in the
  table and has been reaped before it is respawned) and `Quiet` (where zombies
  are listed and only the manager reaps there are no crash reports) to the
  properties. `DownIsDead` needs `HandlesHoldPids`, or reaping one child could
  revive another entry's; `NoLeakedChild` needs `Quiet`, `RunningIsHeld` and
  `OpShape`, or a respawn could drop a live child's handle. One lemma per group of
  actions, over the flat list of `NextCases`. `TableKeepsPromise` is the refinement:
  `Stage` adds in which state an entry is at each step of an operation, which the
  safety properties do not need and the mapping does, and `PromiseStep` maps each
  action to one of `Lifecycle` or to a stutter. `PromiseKeepsKids` is an invariant
  of `Lifecycle` itself, that entries and live children go together one to one, and
  `KeptKidsAreNotLeaked` reads it as `NoLeakedChild` under the mapping.
  `TableKeepsBudget` needs that the loop which restarts an entry holds the lock, so
  that its entry is neither restarted by a user nor deleted between check and restart.
  `OpsCanGoOn` and `OpsGetDone` are the safety core of `OpsEnd`: whoever holds the
  lock can take a step, waiting for no one but for a child that has been killed
  and is dead, and each of its steps ends it, has fewer targets left or is nearer
  to the next one, while no other step touches it. What is left to fairness is that a step
  which can be taken is taken.
- `SupervisorProofs`. `SupInvariant` takes `OpShape` and `HandlesHoldPids` with their
  step lemmas from `ProcessManagerProofs` and adds how far a check has got
  (`Phases`), that a mark is on an entry whose restart is being tried or is done
  (`Marks`), that a report is about a dead child unless a mark says that it was
  replaced (`Crashes`), and that a rollout checks a child that it has just started
  (`Health`). `NoMarkLeft` needs `Marks` up to the end of the limits, or an entry
  that a limit stops would keep its mark. The theorems hold on every platform,
  whoever reaps. `ChecksLoseNoChild` adds that an entry which is stopped has been
  reaped; whoever is respawned is dead by `Crashes`, without the `Quiet` that the
  daemon's loop needs, since no command comes between a check's reports and its restarts.
  `ChecksCanGoOn` and `ChecksGetDone` are the safety core of `ChecksEnd`: entries
  whose limits were collected stay in the table and have an action to take (`Acts`),
  and each step decreases, in this order, the phase, the limits left, the reports to
  be taken up, or how far the operation is from its end.
- `RestartPolicyProofs`. `DelayIsExact` is about the operator alone: saturating
  arithmetic loses nothing under the cap. `BackoffInv` carries "what is left of the
  sleep plus the age of the last restart is the delay", `BudgetInv` carries the
  check of the budget through the sleep. `LimitIsOutOfReach` is by a least
  counterexample: the ages of the restarts that the window counts are at least the
  sums of the delays between them, so a full window would have its oldest restart
  outside. The sums are a recursive function, `Delays`; that the recursion has a
  solution is by a least counterexample too. `PolicyKeepsBudget` maps every tick,
  crash, sleep and restart to a step of `RestartBudget`; `SleepersHaveRoom` is what that
  means. `PowersAssumption` (the recurrence of 2^n, from which its positivity
  is derived) is there because the provers know nothing of `^`; TLC evaluates it.
- `DaemonProofs`. `IInv`: the main task holds the lock exactly while it stops and
  saves (`LockHeld`), so nothing comes to life between (`NothingStarts`), and what
  it renames lists the table (`TempIsTable`). `SavesWhatItStopped` follows at the
  one step that renames. `RepliesTellTheTruth` carries "what is counted is Running"
  through the services of a file: nobody else has the lock, and what a child does
  changes no entry. `LockHoldersCanGoOn` and `TasksGetDone` are the safety core of
  `ShutdownEnds` and `CommandsEnd`: connections exist only in a daemon with worker
  threads that has begun to serve, and who has the lock runs its command (`Served`).
  Since none queues after the daemon has stopped accepting, finitely many commands come
  between a shutdown and the lock, and weak fairness is enough.
- `DaemonControlProofs`. `IInv` is typing and `~overlap => Apart`: there is one
  daemon (`Alone`), named by the file (`Named`) that it alone fills (`Filling`),
  the path is free or its own (`Bound`), and a stop that is about to remove the
  file finds no registered daemon (`Removes`).
- `IpcSessionProofs`. `IInv`: the holder of the mutex is who waits for the
  connection (`Mutex`, `Awaited`), ids are used once (`Fresh`), and per caller the
  runs, the lost answers and the attempts add up (`SentOK`, `Counted`). The refinement
  `CallsKeepSession` adds that whatever was lost had been run (`LostWereRun`), and maps
  each step, of the client or the server, to one of `RemoteCall`.
  `SessionsCanGoOn` and `SessionsGetDone` are the safety core of `CallsReturn`: who has
  the mutex can go on, and a connection waited for has ended or the server has a step
  on it, which needs that what was not accepted yet has a listener
  (`BacklogHasListener`). The measure is the attempts and the steps left.
- `LogFilesProofs`. `IInv`: a task counts what its open file holds but for torn lines
  (`Counted`), begins to write below the limit (`Fits`), and reopens only an empty file
  (`Fresh`). So without the last line the file was below the limit, for any `Length`.
  `LinesInv` adds where the lines are: each printed line is dropped or in the files,
  the task or the pipe of one stream (`Partition`), in this order (`Chain`), and the
  files ascend by their stamps (`Sorted`), none of them from the future (`Settled`).
  So what a task writes is larger than all that its stream has on file, and a rename
  onto a file of the same second costs exactly that file's lines. `Deleted`: the
  delete has listed every file, and no task is about to open one.
  `ReadersCanGoOn` and `ReadersGetDone` are the safety core of `PipesAreRead`: a pipe
  with lines has a task, which needs that a captured child has had one (`Attached`), and
  each step of it takes a line or is nearer to that.
- `LogReaderProofs`. `LogInvariant`: files are in the order they were written in, and
  later files hold later lines (`FilesInOrder`); the entries of a read are the last
  lines of what it has seen of each stream (`ReadEnds`); what a tail has taken of a
  stream lies before its position (`TailBehind`), and is all of it until a read fails
  (`TakenBegins`). That the cut before the merge loses nothing is an argument about
  the cardinality of the lines above a line. `LateLinesCanArrive`, for `CatchesUp`: what
  is on its way is in the channel, with the task or ahead of its tailer, since what is
  behind has been taken.

The theorems by name, each with the property it states, are `"theorems"` in
`PROJECT.json`. Type correctness of each module, `RunningIsHeld` and `RunsOncePerAttempt` are
proved and not repeated by the runs, nor are
`DownIsDead` and `HandlesHoldPids` where zombies are unlisted or a
`Supervisor` works: the proofs cover these cases. `NoLeakedChild`, `DeletesOnlyDead` and
`RunsAgainOnlyIfLost` are proved too, and a run checks the refinement that includes them.
Every safety property that a run checks is proved. What is only model-checked is what
needs fairness, which is beyond the prover: `OpsEnd`, `CrashNoticed`,
`ReportsTried`, `ChecksEnd`, `ShutdownEnds`, `CommandsEnd`, `CallsReturn`, `PipesAreRead`
and `CatchesUp`. Of these the theorems `...CanGoOn` and `...GetDone` prove what is left
without fairness: that the states from which there is a step are never left (that a
step is enabled in them can be read off the guards, `ENABLED` being beyond the prover
too), and that steps only ever bring nearer to the end.

## 5. Where code and documentation disagree

Three statements of the documentation are refuted by a run of their own:

- `claim_noticed` (`process/monitor.rs:215`): where zombies are listed a crash is
  never noticed, for nobody polls the `Child` of a crashed entry.
- `claim_serves` (`bin/adasa-daemon.rs:172`): `start` awaits the function that
  returns the signal's receiver, not the receiver, so the daemon shuts down at once.
- `claim_captured` (`process/manager.rs:248`): a restarted child's pipes are read by
  nobody; it blocks when they are full.

Others were met while modelling. The models contain them where the component is
modelled, and no property claims the contrary:

Process table:

- `stop` marks an entry Stopping before it signals and returns early if the signal
  fails, so a restart of a Stopped entry whose pid is free leaves it Stopping for
  good (`process/manager.rs:68`; `docs/graceful-shutdown.md:72` ends a stop with "Mark
  the process as stopped and clean up resources");
- a stop or restart of an entry that is down already signals whoever has its old
  pid by now (`process/manager.rs:70`);
- an entry that a user stopped between the supervisor's two locks is started
  again, and one that was restarted is respawned over its live child
  (`process/manager.rs:266`);
- a rolling restart by id takes the instance's whole name for the base name and so
  reaches this instance alone (`process/manager.rs:313`);
- a rollout's health check is passed by a zombie where zombies are listed
  (`process/manager.rs:356`);
- a failed automatic restart is never tried again (`process/manager.rs:281`);
- in the daemon resource limits never act on usage, which nobody writes to the entries
  (`process/monitor.rs:143`); `apply_memory_limit` is never called, and a restarted
  child is not put into its cgroup (`process/limits.rs:27`; `docs/resource-limits.md:24`
  says that CPU limits are enforced).

Daemon and commands:

- a start command that waits for the lock while the daemon shuts down spawns a
  child after the save, which is neither stopped nor remembered
  (`bin/adasa-daemon.rs:177`; `README.md:237` says that a stop stops all);
- a restored daemon starts what was stopped (`bin/adasa-daemon.rs:101`;
  `README.md:245`);
- `--daemonize` forks inside the runtime, whose worker threads are not in the
  child; it can neither serve nor time out a stop (`bin/adasa-daemon.rs:864`);
- a reload looks for a service by its base name, which only a single instance has, so
  it tries to start the instances of a larger one again, and succeeds whatever
  became of them (`bin/adasa-daemon.rs:338`);
- an instance whose logger cannot be created runs and is not counted: an error
  does not say that nothing was started (`bin/adasa-daemon.rs:243`);
- a file whose services have colliding names passes the validation, and a TOML file
  with one process and a list of them loses the list without a word
  (`config/mod.rs:145`); `$FOO` is also replaced inside `$FOOBAR`, depending on the
  order of the environment (`config/mod.rs:293`).

Clients and logs:

- connections are cached and never usable again, as the server reads one request
  of each (`ipc/client.rs:91`; `docs/PERFORMANCE_OPTIMIZATIONS.md:104-120`);
- a failed reopen after a rotation silences the stream (`logs/writer.rs:113`);
- a file passes the limit by up to a line of any length, and by what failed writes left
  in it (`logs/writer.rs:109`, `logs/writer.rs:134`); the next line is appended to the
  torn one (`logs/writer.rs:122`);
- a line that is not UTF-8 ends the capture of its stream (`logs/manager.rs:192`);
- the daemon answers a request to follow a log with "Log streaming not yet
  implemented" (`bin/adasa-daemon.rs:541`; `README.md:16` and `README.md:90` say
  real-time streaming); `LogStream` has no user but its tests;
- a tail whose file was rotated follows the old file for ever
  (`logs/reader.rs:348`); its task ends only when it next sends to a receiver that is
  gone (`logs/reader.rs:276`); after a failed read its position applies to whatever
  file is at the path (`logs/reader.rs:390`);
- a rotation between the test for the file and its opening fails the call
  (`logs/reader.rs:111`); a line written while the clock is an hour back is sorted
  before older ones (`logs/reader.rs:197`);
- the filter of a tail looks at the message, that of a read at the whole line
  (`logs/reader.rs:126`, `logs/reader.rs:268`).

## 6. What is not modelled

- The parsing of configuration files, arguments and output, errors and timing: pure
  functions or I/O. What a file's services are and that it may be refused is modelled.
- Resource limits: setrlimit and cgroup files, which nothing reads back.
- The commands List and Daemon, which change nothing.
- A log file whose size cannot be asked for (`logs/writer.rs:81`: it counts from 0);
  torn lines as a reader shows them.
- Statistics; `validate` of the state store (a refused save is a failing save).
- The blocking variants of the server and requests that are not well-formed.

## 7. Plan

The first sixteen are done.

1. `ProcessManager` with `manager_safety` and `manager_liveness`; its safety properties
   proved.
2. `RestartPolicy`; the delay, backoff and budget proved.
3. `Daemon` with shutdown, save and recovery; file properties proved.
4. `DaemonControl`; mutual exclusion of daemons proved.
5. `IpcSession`; answers and retries proved.
6. `LogFiles`; how far files pass the limit proved.
7. The statements of documents that do not hold.
8. `Lifecycle`, implemented by `ProcessManager` under a refinement mapping; proved.
9. Configuration files and their reload in `Daemon`; true replies proved.
10. `Supervisor`: the library's supervisor and resource limits; safety proved.
11. `LogReader`: reads and tails against rotation and delete; safety proved.
12. `LogsAreComplete`, `LogsAreInOrder` and `DeletedLeavesNothing` proved, by an
    invariant that puts every line in one place.
13. `BudgetOutOfReach` proved, by a least counterexample over the delays.
14. `RestartBudget`, implemented by `ProcessManager` and by `RestartPolicy`; proved, and
    for `Supervisor`.
15. `RemoteCall`, implemented by `IpcSession`; proved.
16. The safety cores of `OpsEnd`, `ChecksEnd`, `CallsReturn`, `ShutdownEnds`,
    `CommandsEnd`, `PipesAreRead` and `CatchesUp`: what waits, waits for what can go on and gets done; proved.
17. `IpcSession` composed with `Daemon`: a request runs in a connection's task, so
    that what a client is told and what the state file says can be related.
