------------------------------- MODULE Daemon -------------------------------
(***************************************************************************)
(* The daemon process and what survives it (src/bin/adasa-daemon.rs,       *)
(* src/state/mod.rs): the main task restores the processes of the state    *)
(* file, serves, stops everything, saves and exits; connection tasks run   *)
(* commands beside it; daemons are killed and started again.               *)
(*                                                                         *)
(* What is abstracted:                                                     *)
(*   - An entry is shown as Running or Stopped; ProcessManager has the     *)
(*     other states, pids and signals, and the supervisor loop.  That      *)
(*     stopping a Running entry ends its child is what it proves.          *)
(*   - There is one daemon at a time, which the pid file should see to.    *)
(*   - No child refuses the daemon's signals, as one that runs as another  *)
(*     user would.                                                         *)
(*   - The log manager's lock, which is only taken by a holder of the      *)
(*     process manager's, and the commands that change nothing.            *)
(***************************************************************************)
EXTENDS Naturals, Sequences, Functions, TLC

CONSTANTS
    Names,    \* names of process instances
    Services, \* what a start command or a part of a configuration file asks for
    Files,    \* configuration files, each the sequence of its services
    Clients,  \* connection tasks
    Modes     \* whether a daemon's runtime has its worker threads: not after
              \* --daemonize, whose forks copy only the thread that calls them

ASSUME NamesAssumption ==
    /\ Services \subseteq [base : Names, instances : (SUBSET Names) \ {{}}]
    /\ Files \subseteq Seq(Services)
ASSUME ClientsAssumption == Clients \cap {"free", "main"} = {}
ASSUME ModesAssumption   == Modes \subseteq BOOLEAN

VARIABLES
    main,    \* the main task: its step, the names still to do, the one it waits for
    table,   \* the process manager: name -> what its entry says
    alive,   \* names whose child is alive
    lock,    \* who holds the process manager's lock
    conns,   \* the connection tasks
    disk,    \* the state file
    temp,    \* the temporary file it is made from
    signal,  \* this daemon was sent SIGTERM
    end      \* history: how the last daemon ended, while none runs

tasks    == <<main, lock, conns, signal>>
children == <<table, alive>>
files    == <<disk, temp>>
vars     == <<tasks, children, files, end>>

MainTask == [step : {"down", "restore", "bind", "serve", "closing", "stop",
                     "create", "write", "rename", "released"},
             todo : SUBSET Names, wait : SUBSET Names, workers : BOOLEAN]

Down == [step |-> "down", todo |-> {}, wait |-> {}, workers |-> FALSE]

\* asked: the instances still to handle; counted: those the reply speaks of;
\* services: those whose turn is still to come.
Connection == [step : {"closed", "queued", "busy", "ok", "error"},
               call : {"none", "start", "config", "reload", "stop", "delete"},
               asked : SUBSET Names, counted : SUBSET Names, services : Seq(Services)]

Closed == [step |-> "closed", call |-> "none", asked |-> {}, counted |-> {},
           services |-> <<>>]

\* synced: a power failure leaves the file as it is shown.
File == [state : {"absent", "whole", "torn"}, names : SUBSET Names, synced : BOOLEAN]

Absent == [state |-> "absent", names |-> {}, synced |-> TRUE]
Torn   == [state |-> "torn", names |-> {}, synced |-> FALSE]

Table == DOMAIN table

Goto(step) == main' = [main EXCEPT !.step = step]

-----------------------------------------------------------------------------
Init ==
    /\ main = Down
    /\ table = <<>>
    /\ alive = {}
    /\ lock = "free"
    /\ conns = [c \in Clients |-> Closed]
    /\ disk = Absent
    /\ temp = Absent
    /\ signal = FALSE
    /\ end = "none"

\* StateStore::load.  A file that cannot be parsed ends the daemon: no step.
Boot(workers) ==
    /\ main.step = "down"
    /\ disk.state # "torn"
    /\ main' = [step |-> "restore", todo |-> disk.names, wait |-> {}, workers |-> workers]
    /\ end' = "none"
    /\ UNCHANGED <<lock, conns, signal, children, files>>

Spawned(n) ==
    /\ table' = [m \in Table \cup {n} |-> IF m = n THEN "Running" ELSE table[m]]
    /\ alive' = alive \cup {n}

\* initialize spawns what the file lists, whatever state it was in.
Restore(n) ==
    /\ main.step = "restore"
    /\ n \in main.todo
    /\ Spawned(n)
    /\ main' = [main EXCEPT !.todo = @ \ {n}]
    /\ UNCHANGED <<lock, conns, signal, files, end>>

\* A spawn that fails is reported and left out.
RestoreFails(n) ==
    /\ main.step = "restore"
    /\ n \in main.todo
    /\ main' = [main EXCEPT !.todo = @ \ {n}]
    /\ UNCHANGED <<lock, conns, signal, children, files, end>>

RestoreEnds ==
    /\ main.step = "restore"
    /\ main.todo = {}
    /\ Goto("bind")
    /\ UNCHANGED <<lock, conns, signal, children, files, end>>

\* The socket is bound and the tasks are spawned.
Bind ==
    /\ main.step = "bind"
    /\ Goto("serve")
    /\ UNCHANGED <<lock, conns, signal, children, files, end>>

-----------------------------------------------------------------------------
(* The ways a daemon ends.  Its children live on as nobody's, even when the   *)
(* next daemon restores their names; what is left of a temporary file is      *)
(* overwritten by the next save.                                              *)

Ends(how) ==
    /\ main' = Down
    /\ table' = <<>>
    /\ alive' = {}
    /\ lock' = "free"
    /\ conns' = [c \in Clients |-> Closed]
    /\ signal' = FALSE
    /\ end' = how
    /\ temp' = Absent
    /\ UNCHANGED disk

\* The socket cannot be bound.
BindFails == main.step = "bind" /\ Ends("error")

\* SIGKILL; `adasa daemon stop' sends it after ten seconds.
Killed == main.step # "down" /\ Ends("killed")

\* SIGINT: the handler main sets removes the pid file and calls exit.
Interrupted == main.step # "down" /\ Ends("interrupted")

\* SIGTERM before the task that handles it has run: nothing says when that is,
\* and without workers it never does.
Terminated == main.step # "down" /\ ~signal /\ Ends("terminated")

\* SIGTERM later: the handler's channel has no receiver any more.
TerminateUnheard ==
    /\ main.step \notin {"down", "restore", "bind", "serve"}
    /\ main.workers
    /\ signal' = TRUE
    /\ UNCHANGED <<main, lock, conns, children, files, end>>

\* main returns, and the runtime drops the tasks that are left.
Exit == main.step = "released" /\ Ends("clean")

\* Everything dies; a file that was never synced may be found torn.
PowerFails ==
    /\ main' = Down
    /\ table' = <<>>
    /\ alive' = {}
    /\ lock' = "free"
    /\ conns' = [c \in Clients |-> Closed]
    /\ signal' = FALSE
    /\ end' = "power"
    /\ disk' \in IF disk.synced THEN {disk} ELSE {[disk EXCEPT !.synced = TRUE], Torn}
    /\ temp' = Absent

-----------------------------------------------------------------------------
(***************************************************************************)
(* Shutdown.  Awaiting setup_signal_handlers returns the receiver of the   *)
(* signal at once and drops it, so nothing keeps the main task in "serve". *)
(***************************************************************************)
StopAccepting ==
    /\ main.step = "serve"
    /\ Goto("closing")
    /\ UNCHANGED <<lock, conns, signal, children, files, end>>

\* Mutant: the lock is only held while the table is copied.
LockForShutdownBriefly ==
    /\ main.step = "closing"
    /\ lock = "free"
    /\ main' = [main EXCEPT !.step = "stop", !.todo = Table]
    /\ UNCHANGED <<lock, conns, signal, children, files, end>>

\* The lock is held until everything is stopped, saved and flushed.
LockForShutdown ==
    /\ main.step = "closing"
    /\ lock = "free"
    /\ lock' = "main"
    /\ main' = [main EXCEPT !.step = "stop", !.todo = Table]
    /\ UNCHANGED <<conns, signal, children, files, end>>

StopSignals(n) ==
    /\ main.step = "stop"
    /\ main.wait = {}
    /\ n \in main.todo
    /\ main' = [main EXCEPT !.todo = @ \ {n}, !.wait = {n}]
    /\ UNCHANGED <<lock, conns, signal, children, files, end>>

\* Mutant: the wait has no timeout.
StopReturnsPatiently(n) ==
    /\ main.step = "stop"
    /\ n \in main.wait
    /\ n \notin alive
    /\ main' = [main EXCEPT !.wait = @ \ {n}]
    /\ table' = [table EXCEPT ![n] = "Stopped"]
    /\ UNCHANGED <<alive, lock, conns, signal, files, end>>

\* The child has exited, or the timeout kills it.  Without workers nobody
\* drives the timer or SIGCHLD, and only a child that was dead before counts.
StopReturns(n) ==
    /\ main.step = "stop"
    /\ n \in main.wait
    /\ main.workers \/ n \notin alive
    /\ main' = [main EXCEPT !.wait = @ \ {n}]
    /\ table' = [table EXCEPT ![n] = "Stopped"]
    /\ alive' = alive \ {n}
    /\ UNCHANGED <<lock, conns, signal, files, end>>

StopEnds ==
    /\ main.step = "stop"
    /\ main.todo \cup main.wait = {}
    /\ Goto("create")
    /\ UNCHANGED <<lock, conns, signal, children, files, end>>

\* Mutant: the state file itself is created anew.
SaveCreatesInPlace ==
    /\ main.step = "create"
    /\ Goto("write")
    /\ temp' = Torn
    /\ disk' = Torn
    /\ UNCHANGED <<lock, conns, signal, children, end>>

SaveCreates ==
    /\ main.step = "create"
    /\ Goto("write")
    /\ temp' = Torn
    /\ UNCHANGED <<lock, conns, signal, children, disk, end>>

\* Flushed to the kernel, not synced.
SaveWrites ==
    /\ main.step = "write"
    /\ Goto("rename")
    /\ temp' = [state |-> "whole", names |-> Table, synced |-> FALSE]
    /\ UNCHANGED <<lock, conns, signal, children, disk, end>>

\* Then the logs are flushed and the locks given back.
SaveRenames ==
    /\ main.step = "rename"
    /\ Goto("released")
    /\ lock' = "free"
    /\ disk' = temp
    /\ temp' = Absent
    /\ UNCHANGED <<conns, signal, children, end>>

\* A save that fails anywhere is reported, and the shutdown goes on.
SaveFails ==
    /\ main.step \in {"create", "write", "rename"}
    /\ Goto("released")
    /\ lock' = "free"
    /\ UNCHANGED <<conns, signal, children, files, end>>

-----------------------------------------------------------------------------
(* Connection tasks, which outlive the accept loop. *)

\* The instances of a service, named after it when there is more than one.
ServiceOf(base, count) ==
    [base |-> base,
     instances |-> IF count > 1 THEN {Append(base, ToString(k)) : k \in 0 .. count - 1}
                   ELSE {base}]

Accept(c, call, names, services) ==
    /\ main.workers
    /\ main.step = "serve"
    /\ conns[c] = Closed
    /\ conns' = [conns EXCEPT ![c] = [Closed EXCEPT !.step = "queued", !.call = call,
                                                    !.asked = names, !.services = services]]
    /\ UNCHANGED <<main, lock, signal, children, files, end>>

\* The configuration file cannot be read or parsed, or one of its services is not
\* valid; it is read before the lock is asked for.
FileRefused(c) ==
    /\ conns[c].step = "queued"
    /\ conns[c].call \in {"config", "reload"}
    /\ conns' = [conns EXCEPT ![c] = [Closed EXCEPT !.step = "error"]]
    /\ UNCHANGED <<main, lock, signal, children, files, end>>

Enter(c) ==
    /\ conns[c].step = "queued"
    /\ lock = "free"
    /\ lock' = c
    /\ conns' = [conns EXCEPT ![c].step = "busy"]
    /\ UNCHANGED <<main, signal, children, files, end>>

Launching(c) ==
    /\ conns[c].step = "busy"
    /\ conns[c].call \in {"start", "config", "reload"}

\* A reload passes over a service whose own name is taken, however many instances
\* it is to have; the instances of a larger service do not count.
NextService(c) ==
    /\ Launching(c)
    /\ conns[c].asked = {}
    /\ conns[c].services # <<>>
    /\ LET service == Head(conns[c].services)
           noted == conns[c].call = "reload" /\ service.base \in Table
       IN  conns' = [conns EXCEPT ![c].services = Tail(@),
                                  ![c].asked = IF noted THEN {} ELSE service.instances]
    /\ UNCHANGED <<main, lock, signal, children, files, end>>

Starting(c, n) == Launching(c) /\ n \in conns[c].asked

\* A spawned instance whose logger cannot be created runs, but is not counted.
StartOne(c, n, logged) ==
    /\ Starting(c, n)
    /\ n \notin Table
    /\ Spawned(n)
    /\ conns' = [conns EXCEPT ![c].asked = @ \ {n},
                              ![c].counted = IF logged THEN @ \cup {n} ELSE @]
    /\ UNCHANGED <<main, lock, signal, files, end>>

\* Mutant: an instance that cannot be spawned is tried again.
StartOneFailsAgain(c, n) ==
    /\ Starting(c, n)
    /\ conns' = [conns EXCEPT ![c].asked = @ \cup {n}]
    /\ UNCHANGED <<main, lock, signal, children, files, end>>

\* Mutant: what fails is counted too.
StartOneFailsCounted(c, n) ==
    /\ Starting(c, n)
    /\ conns' = [conns EXCEPT ![c].asked = @ \ {n}, ![c].counted = @ \cup {n}]
    /\ UNCHANGED <<main, lock, signal, children, files, end>>

\* The name is taken or the spawn fails; the other instances go on.
StartOneFails(c, n) ==
    /\ Starting(c, n)
    /\ conns' = [conns EXCEPT ![c].asked = @ \ {n}]
    /\ UNCHANGED <<main, lock, signal, children, files, end>>

Reply(c, ok) ==
    /\ conns' = [conns EXCEPT ![c] = [Closed EXCEPT !.step = IF ok THEN "ok" ELSE "error"]]
    /\ lock' = "free"

\* A reload succeeds whatever became of its services.
StartReplies(c) ==
    /\ Launching(c)
    /\ conns[c].asked = {}
    /\ conns[c].services = <<>>
    /\ Reply(c, conns[c].counted # {} \/ conns[c].call = "reload")
    /\ UNCHANGED <<main, signal, children, files, end>>

StopOne(c, n) ==
    /\ conns[c].step = "busy"
    /\ conns[c].call = "stop"
    /\ n \in conns[c].asked \cap Table
    /\ table' = [table EXCEPT ![n] = "Stopped"]
    /\ alive' = alive \ {n}
    /\ Reply(c, TRUE)
    /\ UNCHANGED <<main, signal, files, end>>

DeleteOne(c, n) ==
    /\ conns[c].step = "busy"
    /\ conns[c].call = "delete"
    /\ n \in conns[c].asked \cap Table
    /\ table' = Restrict(table, Table \ {n})
    /\ alive' = alive \ {n}
    /\ Reply(c, TRUE)
    /\ UNCHANGED <<main, signal, files, end>>

NotFound(c) ==
    /\ conns[c].step = "busy"
    /\ conns[c].call \in {"stop", "delete"}
    /\ conns[c].asked \cap Table = {}
    /\ Reply(c, FALSE)
    /\ UNCHANGED <<main, signal, children, files, end>>

\* The client has its reply, and the connection is closed.
Close(c) ==
    /\ conns[c].step \in {"ok", "error"}
    /\ conns' = [conns EXCEPT ![c] = Closed]
    /\ UNCHANGED <<main, lock, signal, children, files, end>>

-----------------------------------------------------------------------------
(* A child ends by itself; its entry keeps what it says. *)
ChildExits(n) ==
    /\ n \in alive
    /\ alive' = alive \ {n}
    /\ UNCHANGED <<table, tasks, files, end>>

-----------------------------------------------------------------------------
MainStep ==
    \/ \E n \in Names : \/ Restore(n) \/ RestoreFails(n)
                        \/ StopSignals(n) \/ StopReturns(n)
    \/ RestoreEnds
    \/ Bind
    \/ BindFails
    \/ StopAccepting
    \/ LockForShutdown
    \/ StopEnds
    \/ SaveCreates
    \/ SaveWrites
    \/ SaveRenames
    \/ SaveFails
    \/ Exit

ConnStep(c) ==
    \/ Enter(c)
    \/ FileRefused(c)
    \/ NextService(c)
    \/ \E n \in Names : \/ \E logged \in BOOLEAN : StartOne(c, n, logged)
                        \/ StartOneFails(c, n)
                        \/ StopOne(c, n)
                        \/ DeleteOne(c, n)
    \/ StartReplies(c)
    \/ NotFound(c)
    \/ Close(c)

Environment ==
    \/ \E workers \in Modes : Boot(workers)
    \/ \E c \in Clients :
          \/ \E service \in Services : Accept(c, "start", {}, <<service>>)
          \/ \E file \in Files, call \in {"config", "reload"} : Accept(c, call, {}, file)
          \/ \E n \in Names, call \in {"stop", "delete"} : Accept(c, call, {n}, <<>>)
    \/ \E n \in Names : ChildExits(n)
    \/ Killed
    \/ Interrupted
    \/ Terminated
    \/ TerminateUnheard
    \/ PowerFails

Next == MainStep \/ (\E c \in Clients : ConnStep(c)) \/ Environment

Spec == Init /\ [][Next]_vars

\* The runtime polls every task that can go on.
FairSpec ==
    /\ Spec
    /\ WF_vars(MainStep)
    /\ \A c \in Clients : WF_vars(ConnStep(c))

-----------------------------------------------------------------------------
(* Properties. *)

\* Every variable keeps its shape, and a live child of this daemon is listed.
TypeOK ==
    /\ main \in MainTask
    /\ table \in [Table -> {"Running", "Stopped"}]
    /\ alive \subseteq Table /\ Table \subseteq Names
    /\ lock \in {"free", "main"} \cup Clients
    /\ conns \in [Clients -> Connection]
    /\ disk \in File /\ temp \in File
    /\ signal \in BOOLEAN
    /\ end \in {"none", "clean", "error", "killed", "interrupted", "terminated", "power"}

\* The state file only ever changes, short of a power failure, to list exactly
\* what the table lists, and at a moment when none of it has a live child: so
\* a daemon that restores it right then starts nothing twice and forgets
\* nothing.  Commands that were accepted before the shutdown are what could
\* get between stopping, saving and renaming.
SavesWhatItStopped ==
    [][disk' # disk /\ end' # "power" => disk'.names = Table /\ alive = {}]_vars

\* However a daemon is killed, at any step of a save, the state file is never
\* left torn.
KillKeepsFile == disk.state = "torn" => end = "power"

\* A reply that says processes were started is true of each that it counts, at the
\* moment it is given: one failing instance or service of a file is not counted
\* for another, and no command gets between the services of a file.
RepliesAreTrue ==
    [][\A c \in Clients :
          conns[c].call \in {"start", "config"} /\ conns[c].step = "busy" /\ conns'[c].step = "ok" =>
              /\ conns[c].counted # {}
              /\ \A n \in conns[c].counted : n \in Table /\ table[n] = "Running"]_vars

\* A command that was accepted is answered, or its daemon ends, also when the
\* shutdown has the lock before it.
CommandsEnd ==
    \A c \in Clients :
        conns[c].step \in {"queued", "busy"} ~> conns[c].step \notin {"queued", "busy"}

\* Every daemon with worker threads that begins to shut down ends, whatever
\* commands wait for the lock and however long its children ignore the signal.
ShutdownEnds == main.step = "closing" /\ main.workers ~> main.step = "down"

=============================================================================
