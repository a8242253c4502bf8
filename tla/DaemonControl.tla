---------------------------- MODULE DaemonControl ---------------------------
(***************************************************************************)
(* What keeps daemons apart (src/daemon/pid.rs, src/daemon/manager.rs,     *)
(* src/ipc/server.rs, main of src/bin/adasa-daemon.rs): any number of      *)
(* daemon processes and `adasa daemon stop' commands share a pid file and  *)
(* a socket path, and nothing locks either.                                *)
(*                                                                         *)
(* What is abstracted:                                                     *)
(*   - What a daemon does between binding and shutting down is in Daemon.  *)
(*   - One is_running, and one exists-then-remove, is one step.            *)
(*   - Every process belongs to one user, and a dead one is reaped.        *)
(***************************************************************************)
EXTENDS Naturals

CONSTANTS
    Pids,    \* process ids, which the system uses again
    Stoppers \* `adasa daemon stop' commands

ASSUME PidsAssumption == Pids \cap {"nothing", "stale"} = {}

VARIABLES
    step,    \* pid -> what its process is, and for a daemon how far main is
    serving, \* daemons whose IpcServer has been bound and not yet dropped
    quits,   \* daemons whose SIGINT handler has removed the pid file
    pidfile, \* the pid file: its text, and who has it open to write
    socket,  \* whose listener the socket path leads to
    stops,   \* the stop commands
    overlap  \* history: see Crowded

vars == <<step, serving, quits, pidfile, socket, stops, overlap>>

\* From "check" to "fill" is register_daemon; in "left" main has returned.
Steps == {"free", "stranger", "check", "clean", "create", "fill",
          "init", "bind", "serve", "closing", "left"}

StopSteps == {"term", "poll", "late", "after", "remove", "ok", "error"}

Idle == [step |-> "idle", pid |-> "nothing"]

StopCommand == {Idle} \cup [step : StopSteps, pid : Pids]

PidFile == [there : BOOLEAN, text : Pids \cup {"nothing"}, open : SUBSET Pids]

NoFile == [there |-> FALSE, text |-> "nothing", open |-> {}]

\* Daemons that have found no other, daemons that are registering, and those
\* that the pid file should name.
Past        == {p \in Pids : step[p] \notin {"free", "stranger", "check"}}
Registering == {p \in Pids : step[p] \in {"clean", "create", "fill"}}
Registered  == {p \in Past : step[p] # "left"} \ (Registering \cup quits)

\* Daemons that the pid file need not name: those that start or go.
Unnamed == {p \in Pids : step[p] \in {"check", "clean", "create", "fill", "left"}} \cup quits

Stopping == {s \in Stoppers : stops[s].step # "idle"}

\* PidFile::is_daemon_running: a text that is no pid is no daemon.
Names(p) == pidfile.there /\ pidfile.text = p

IsRunning == \E p \in Pids : Names(p) /\ step[p] # "free"

Goto(p, s) == step' = [step EXCEPT ![p] = s]

-----------------------------------------------------------------------------
Init ==
    /\ step = [p \in Pids |-> "free"]
    /\ serving = {}
    /\ quits = {}
    /\ pidfile = NoFile
    /\ socket = "nothing"
    /\ stops = [s \in Stoppers |-> Idle]
    /\ overlap = FALSE

\* A process ends: its socket leads nowhere, its files stay.
Dies(p) ==
    /\ Goto(p, "free")
    /\ serving' = serving \ {p}
    /\ quits' = quits \ {p}
    /\ pidfile' = [pidfile EXCEPT !.open = @ \ {p}]
    /\ socket' = IF socket = p THEN "stale" ELSE socket

Launch(p) ==
    /\ step[p] = "free"
    /\ Goto(p, "check")
    /\ UNCHANGED <<serving, quits, pidfile, socket, stops>>

-----------------------------------------------------------------------------
(* register_daemon. *)

\* Mutant: main returns through unregister_daemon.
RefusedUnregisters(p) ==
    /\ step[p] = "check"
    /\ IsRunning
    /\ Goto(p, "free")
    /\ pidfile' = NoFile
    /\ UNCHANGED <<serving, quits, socket, stops>>

\* Mutant: the server is made first, and its Drop removes the socket.
RefusedDropsServer(p) ==
    /\ step[p] = "check"
    /\ IsRunning
    /\ Goto(p, "free")
    /\ socket' = "nothing"
    /\ UNCHANGED <<serving, quits, pidfile, stops>>

\* "Daemon is already running": main returns before it has made anything.
Refused(p) ==
    /\ step[p] = "check"
    /\ IsRunning
    /\ Dies(p)
    /\ UNCHANGED stops

\* Mutant: only the pid file's own process counts as running.
ChecksOnlyItself(p) ==
    /\ step[p] = "check"
    /\ ~Names(p)
    /\ Goto(p, "clean")
    /\ UNCHANGED <<serving, quits, pidfile, socket, stops>>

FindsNone(p) ==
    /\ step[p] = "check"
    /\ ~IsRunning
    /\ Goto(p, "clean")
    /\ UNCHANGED <<serving, quits, pidfile, socket, stops>>

RemoveStale(p) ==
    /\ step[p] = "clean"
    /\ Goto(p, "create")
    /\ pidfile' = NoFile
    /\ UNCHANGED <<serving, quits, socket, stops>>

\* fs::write creates or truncates the file, then fills it.
Create(p) ==
    /\ step[p] = "create"
    /\ Goto(p, "fill")
    /\ pidfile' = [there |-> TRUE, text |-> "nothing", open |-> pidfile.open \cup {p}]
    /\ UNCHANGED <<serving, quits, socket, stops>>

\* A file that has been removed meanwhile is filled in vain; one that another
\* process has filled may come to hold digits of both.
Fill(p) ==
    /\ step[p] = "fill"
    /\ Goto(p, "init")
    /\ \E t \in IF pidfile.text = "nothing" THEN {p} ELSE Pids :
         pidfile' = IF p \in pidfile.open
                    THEN [pidfile EXCEPT !.text = t, !.open = @ \ {p}]
                    ELSE pidfile
    /\ UNCHANGED <<serving, quits, socket, stops>>

\* A file operation fails, as a removal does when another was faster.
RegisterFails(p) ==
    /\ p \in Registering
    /\ Dies(p)
    /\ UNCHANGED stops

-----------------------------------------------------------------------------
(* The registered daemon. *)

\* The log directory cannot be made: main returns, and the pid file stays.
NewFails(p) ==
    /\ step[p] = "init"
    /\ Dies(p)
    /\ UNCHANGED stops

\* IpcServer::start, when the state has been restored: whatever socket is at
\* the path is removed.
UnlinkSocket(p) ==
    /\ step[p] = "init"
    /\ Goto(p, "bind")
    /\ socket' = "nothing"
    /\ UNCHANGED <<serving, quits, pidfile, stops>>

Bind(p) ==
    /\ step[p] = "bind"
    /\ socket = "nothing"
    /\ Goto(p, "serve")
    /\ socket' = p
    /\ serving' = serving \cup {p}
    /\ UNCHANGED <<quits, pidfile, stops>>

\* initialize fails, for one because the path is taken again: the daemon is
\* dropped, and its IpcServer removes the socket, whoever bound it.
InitFails(p) ==
    /\ step[p] \in {"init", "bind"}
    /\ Goto(p, "closing")
    /\ socket' = "nothing"
    /\ UNCHANGED <<serving, quits, pidfile, stops>>

\* The server's task is aborted.
Close(p) ==
    /\ step[p] = "serve"
    /\ Goto(p, "closing")
    /\ UNCHANGED <<serving, quits, pidfile, socket, stops>>

\* The aborted task is dropped when the runtime gets to it: at the latest when
\* main has returned.  Its IpcServer removes the socket, whoever bound it.
DropServer(p) ==
    /\ p \in serving
    /\ step[p] \in {"closing", "left"}
    /\ serving' = serving \ {p}
    /\ socket' = "nothing"
    /\ UNCHANGED <<step, quits, pidfile, stops>>

\* unregister_daemon removes the pid file, whoever wrote it.
Unregister(p) ==
    /\ step[p] = "closing"
    /\ Goto(p, "left")
    /\ pidfile' = NoFile
    /\ UNCHANGED <<serving, quits, socket, stops>>

Exit(p) ==
    /\ step[p] = "left"
    /\ p \notin serving
    /\ Dies(p)
    /\ UNCHANGED stops

\* SIGINT: ctrlc's thread removes the pid file while main goes on, then exits.
Interrupted(p) ==
    /\ p \in Past \ (Registering \cup quits)
    /\ quits' = quits \cup {p}
    /\ pidfile' = NoFile
    /\ UNCHANGED <<step, serving, socket, stops>>

HandlerExits(p) ==
    /\ p \in quits
    /\ Dies(p)
    /\ UNCHANGED stops

-----------------------------------------------------------------------------
(* stop_daemon. *)

GotoStop(s, to) == stops' = [stops EXCEPT ![s].step = to]

\* get_pid.
BeginStop(s) ==
    /\ stops[s].step = "idle"
    /\ \E p \in Pids :
         /\ Names(p)
         /\ step[p] # "free"
         /\ stops' = [stops EXCEPT ![s] = [step |-> "term", pid |-> p]]
    /\ UNCHANGED <<step, serving, quits, pidfile, socket>>

\* kill fails: the process has gone.
SignalFails(s) ==
    /\ \/ stops[s].step = "term"
       \/ stops[s].step = "late" /\ IsRunning
    /\ step[stops[s].pid] = "free"
    /\ GotoStop(s, "error")
    /\ UNCHANGED <<step, serving, quits, pidfile, socket>>

\* SIGTERM ends any process but those that handle it, as a daemon may that has
\* bound its socket.
SendTerm(s) ==
    /\ stops[s].step = "term"
    /\ step[stops[s].pid] # "free"
    /\ GotoStop(s, "poll")
    /\ \/ Dies(stops[s].pid)
       \/ /\ step[stops[s].pid] \in {"stranger", "serve", "closing", "left"}
          /\ UNCHANGED <<step, serving, quits, pidfile, socket>>

PollFindsNone(s) ==
    /\ stops[s].step = "poll"
    /\ ~IsRunning
    /\ GotoStop(s, "remove")
    /\ UNCHANGED <<step, serving, quits, pidfile, socket>>

TimesOut(s) ==
    /\ stops[s].step = "poll"
    /\ GotoStop(s, "late")
    /\ UNCHANGED <<step, serving, quits, pidfile, socket>>

\* Mutant: the daemon is given up on.
LateReturns(s) ==
    /\ stops[s].step = "late"
    /\ GotoStop(s, "ok")
    /\ UNCHANGED <<step, serving, quits, pidfile, socket>>

\* It has ended after the last poll: the pid file is left as it is.
LateFindsNone(s) ==
    /\ stops[s].step = "late"
    /\ ~IsRunning
    /\ GotoStop(s, "ok")
    /\ UNCHANGED <<step, serving, quits, pidfile, socket>>

SendKill(s) ==
    /\ stops[s].step = "late"
    /\ IsRunning
    /\ step[stops[s].pid] # "free"
    /\ GotoStop(s, "after")
    /\ Dies(stops[s].pid)

AfterKill(s) ==
    /\ stops[s].step = "after"
    /\ GotoStop(s, IF IsRunning THEN "error" ELSE "remove")
    /\ UNCHANGED <<step, serving, quits, pidfile, socket>>

Remove(s) ==
    /\ stops[s].step = "remove"
    /\ GotoStop(s, "ok")
    /\ pidfile' = NoFile
    /\ UNCHANGED <<step, serving, quits, socket>>

StopReturns(s) ==
    /\ stops[s].step \in {"ok", "error"}
    /\ stops' = [stops EXCEPT ![s] = Idle]
    /\ UNCHANGED <<step, serving, quits, pidfile, socket>>

-----------------------------------------------------------------------------
(* Other processes get the pids of daemons that are gone; daemons die. *)

StrangerStarts(p) ==
    /\ step[p] = "free"
    /\ Goto(p, "stranger")
    /\ UNCHANGED <<serving, quits, pidfile, socket, stops>>

Killed(p) ==
    /\ step[p] # "free"
    /\ Dies(p)
    /\ UNCHANGED stops

-----------------------------------------------------------------------------
DaemonStep(p) ==
    \/ Launch(p)
    \/ Refused(p)
    \/ FindsNone(p)
    \/ RemoveStale(p)
    \/ Create(p)
    \/ Fill(p)
    \/ RegisterFails(p)
    \/ NewFails(p)
    \/ UnlinkSocket(p)
    \/ Bind(p)
    \/ InitFails(p)
    \/ Close(p)
    \/ DropServer(p)
    \/ Unregister(p)
    \/ Exit(p)
    \/ Interrupted(p)
    \/ HandlerExits(p)

StopStep(s) ==
    \/ BeginStop(s)
    \/ SignalFails(s)
    \/ SendTerm(s)
    \/ PollFindsNone(s)
    \/ TimesOut(s)
    \/ LateFindsNone(s)
    \/ SendKill(s)
    \/ AfterKill(s)
    \/ Remove(s)
    \/ StopReturns(s)

Step ==
    \/ \E p \in Pids : DaemonStep(p) \/ StrangerStarts(p) \/ Killed(p)
    \/ \E s \in Stoppers : StopStep(s)

\* A daemon starts while another starts, while one is going that the pid file
\* does not name any more, or while a stop may still remove the pid file.
Crowded ==
    \E p \in Pids : /\ step[p] \in {"check", "clean", "create", "fill"}
                    /\ Stopping # {} \/ Unnamed # {p}

\* What an overlap has spoilt is over when no daemon and no stop is left.
Quiet == Stopping = {} /\ \A p \in Pids : step[p] \in {"free", "stranger"}

Next == Step /\ overlap' = ((overlap \/ Crowded') /\ ~Quiet')

Spec == Init /\ [][Next]_vars

-----------------------------------------------------------------------------
(***************************************************************************)
(* Properties.  All but typing are about starts and stops that do not      *)
(* overlap: nothing in the code keeps two daemons apart that look for each *)
(* other at once, or a stop from removing the next daemon's pid file.      *)
(***************************************************************************)

\* Every variable keeps its shape, and only a live daemon serves or quits.
TypeOK ==
    /\ step \in [Pids -> Steps]
    /\ serving \subseteq Past /\ quits \subseteq Past
    /\ pidfile \in PidFile
    /\ socket \in Pids \cup {"nothing", "stale"}
    /\ stops \in [Stoppers -> StopCommand]
    /\ overlap \in BOOLEAN

\* There is one daemon, whatever died before, files left behind included.
OneDaemon == ~overlap => \A p, q \in Past : p = q

\* A registered daemon is the one the pid file names: status, stop and the
\* next registration find it, until it unregisters.
PidFileNamesDaemon == ~overlap => \A p \in Registered : Names(p)

\* A daemon always finds the socket path free to bind, and while it serves
\* its clients reach it there.
SocketIsServed ==
    ~overlap => \A p \in Pids : /\ step[p] = "bind" => socket = "nothing"
                                /\ step[p] = "serve" => socket = p

\* A stop that reports success leaves no daemon that does not end.
StopSucceeds ==
    ~overlap => \A s \in Stoppers : stops[s].step = "ok" => Registered = {}

=============================================================================
