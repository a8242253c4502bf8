----------------------------- MODULE IpcSession -----------------------------
(***************************************************************************)
(* How a command gets its answer (src/ipc/client.rs, src/ipc/server.rs):   *)
(* threads that share one IpcClient send requests; each attempt uses a     *)
(* connection, on which the server reads one request and answers it;       *)
(* daemons stop, die and are started again between and during attempts.    *)
(*                                                                         *)
(* What is abstracted:                                                     *)
(*   - What a command does: a request has run or has not.  That its        *)
(*     handler gets the locks it waits for is ProcessManager's OpsEnd.     *)
(*   - Other clients, whose connections have tasks of their own.           *)
(*   - Requests and responses are well-formed and fit their line.          *)
(***************************************************************************)
EXTENDS Naturals

CONSTANTS
    Callers,     \* threads that share the client
    MaxAttempts, \* MAX_RETRY_ATTEMPTS
    MaxRequests, \* bound on the requests sent
    MaxStarts    \* bound on the daemons started

ASSUME CallersAssumption  == "nobody" \notin Callers
ASSUME AttemptsAssumption == MaxAttempts \in Nat \ {0}
ASSUME BoundsAssumption   == MaxRequests \in Nat /\ MaxStarts \in Nat

VARIABLES
    next,   \* the request id given out next
    calls,  \* caller -> its send_command
    holder, \* who holds the mutex of the cached connection
    cached, \* the last connection is cached
    conn,   \* the last connection: how far the server is with it
    daemon, \* the daemon, and the number of daemons started
    runs,   \* history: how often each request has run
    lost    \* history: how often it has run and its answer was lost

client == <<next, calls, holder, cached>>
vars   == <<client, conn, daemon, runs, lost>>

Ids == 1 .. MaxRequests

Call == [step : {"idle", "lock", "cached", "connect", "sent", "failed",
                 "ok", "mismatch", "error"},
         attempt : 0 .. MaxAttempts, id : 0 .. MaxRequests]

\* A reply is there until the client has read it; 0 is none.
Connection == [state : {"backlog", "reading", "handled", "replied", "closed"},
               request : 0 .. MaxRequests, reply : 0 .. MaxRequests]

Daemon == [state : {"down", "listening", "closing"}, starts : 0 .. MaxStarts]

Goto(c, step) == calls' = [calls EXCEPT ![c].step = step]

-----------------------------------------------------------------------------
Init ==
    /\ next = 1
    /\ calls = [c \in Callers |-> [step |-> "idle", attempt |-> 0, id |-> 0]]
    /\ holder = "nobody"
    /\ cached = FALSE
    /\ conn = [state |-> "closed", request |-> 0, reply |-> 0]
    /\ daemon = [state |-> "down", starts |-> 0]
    /\ runs = [i \in Ids |-> 0]
    /\ lost = [i \in Ids |-> 0]

-----------------------------------------------------------------------------
(* send_command. *)

Send(c) ==
    /\ calls[c].step = "idle"
    /\ next <= MaxRequests
    /\ calls' = [calls EXCEPT ![c] = [step |-> "lock", attempt |-> 1, id |-> next]]
    /\ next' = next + 1
    /\ UNCHANGED <<holder, cached, conn, daemon, runs, lost>>

\* An attempt holds the mutex while it lasts, and takes the cached connection.
Enter(c) ==
    /\ calls[c].step = "lock"
    /\ holder = "nobody"
    /\ holder' = c
    /\ Goto(c, IF cached THEN "cached" ELSE "connect")
    /\ cached' = FALSE
    /\ UNCHANGED <<next, conn, daemon, runs, lost>>

\* The server reads one request of a connection, so one that was cached closes
\* without an answer.  Until it does the client waits for one.
CachedFails(c) ==
    /\ calls[c].step = "cached"
    /\ conn.state = "closed"
    /\ Goto(c, "connect")
    /\ UNCHANGED <<next, holder, cached, conn, daemon, runs, lost>>

Connect(c) ==
    /\ calls[c].step = "connect"
    /\ daemon.state = "listening"
    /\ conn' = [state |-> "backlog", request |-> calls[c].id, reply |-> 0]
    /\ Goto(c, "sent")
    /\ UNCHANGED <<next, holder, cached, daemon, runs, lost>>

\* "DaemonNotRunning" is an error like any other.
ConnectFails(c) ==
    /\ calls[c].step = "connect"
    /\ daemon.state # "listening"
    /\ Goto(c, "failed")
    /\ holder' = "nobody"
    /\ UNCHANGED <<next, cached, conn, daemon, runs, lost>>

ReadsReply(c) ==
    /\ calls[c].step = "sent"
    /\ conn.reply # 0
    /\ Goto(c, IF conn.reply = calls[c].id THEN "ok" ELSE "mismatch")
    /\ conn' = [conn EXCEPT !.reply = 0]
    /\ cached' = TRUE
    /\ holder' = "nobody"
    /\ UNCHANGED <<next, daemon, runs, lost>>

\* Mutant: the client reads with a timeout.
ReadTimesOut(c) ==
    /\ calls[c].step = "sent"
    /\ conn.reply = 0
    /\ Goto(c, "failed")
    /\ holder' = "nobody"
    /\ UNCHANGED <<next, cached, conn, daemon, runs, lost>>

\* The connection ends without an answer: nothing is left to parse.
ReadFails(c) ==
    /\ calls[c].step = "sent"
    /\ conn.reply = 0
    /\ conn.state = "closed"
    /\ Goto(c, "failed")
    /\ holder' = "nobody"
    /\ UNCHANGED <<next, cached, conn, daemon, runs, lost>>

\* The cached connection goes, though it may be one that another thread cached.
Retry(c) ==
    /\ calls[c].step = "failed"
    /\ holder = "nobody"
    /\ calls[c].attempt < MaxAttempts
    /\ calls' = [calls EXCEPT ![c].step = "lock", ![c].attempt = @ + 1]
    /\ cached' = FALSE
    /\ UNCHANGED <<next, holder, conn, daemon, runs, lost>>

GiveUp(c) ==
    /\ calls[c].step = "failed"
    /\ holder = "nobody"
    /\ calls[c].attempt = MaxAttempts
    /\ Goto(c, "error")
    /\ cached' = FALSE
    /\ UNCHANGED <<next, holder, conn, daemon, runs, lost>>

Return(c) ==
    /\ calls[c].step \in {"ok", "mismatch", "error"}
    /\ Goto(c, "idle")
    /\ UNCHANGED <<next, holder, cached, conn, daemon, runs, lost>>

-----------------------------------------------------------------------------
(* The server. *)

Serve(from, to) == conn.state = from /\ conn' = [conn EXCEPT !.state = to]

Accept ==
    /\ daemon.state = "listening"
    /\ Serve("backlog", "reading")
    /\ UNCHANGED <<client, daemon, runs, lost>>

Handle ==
    /\ Serve("reading", "handled")
    /\ runs' = [runs EXCEPT ![conn.request] = @ + 1]
    /\ UNCHANGED <<client, daemon, lost>>

\* A handler panics, as println! does once nobody reads the daemon's output:
\* its task and connection end, before or after the request has had its effect.
Panic ==
    /\ Serve("reading", "closed")
    /\ \E n \in {0, 1} : /\ runs' = [runs EXCEPT ![conn.request] = @ + n]
                         /\ lost' = [lost EXCEPT ![conn.request] = @ + n]
    /\ UNCHANGED <<client, daemon>>

\* Mutant: the response keeps the id the handler gave it, the same for all.
ReplyAsHandled ==
    /\ conn.state = "handled"
    /\ conn' = [conn EXCEPT !.state = "replied", !.reply = 1]
    /\ UNCHANGED <<client, daemon, runs, lost>>

\* The response gets the request's id; handlers make theirs with 0.
Reply ==
    /\ conn.state = "handled"
    /\ conn' = [conn EXCEPT !.state = "replied", !.reply = conn.request]
    /\ UNCHANGED <<client, daemon, runs, lost>>

\* One request a connection.
CloseConnection ==
    /\ Serve("replied", "closed")
    /\ UNCHANGED <<client, daemon, runs, lost>>

DaemonStarts ==
    /\ daemon.state = "down"
    /\ daemon.starts < MaxStarts
    /\ daemon' = [state |-> "listening", starts |-> daemon.starts + 1]
    /\ UNCHANGED <<client, conn, runs, lost>>

\* Mutant: the listener outlives the server.
StopsListeningOnly ==
    /\ daemon.state = "listening"
    /\ daemon' = [daemon EXCEPT !.state = "closing"]
    /\ UNCHANGED <<client, conn, runs, lost>>

\* server_handle.abort(): what was not accepted is reset.
StopsListening ==
    /\ daemon.state = "listening"
    /\ daemon' = [daemon EXCEPT !.state = "closing"]
    /\ conn' = IF conn.state = "backlog" THEN [conn EXCEPT !.state = "closed"] ELSE conn
    /\ UNCHANGED <<client, runs, lost>>

\* The process ends, for whatever reason; a reply already sent can be read.
DaemonEnds ==
    /\ daemon.state # "down"
    /\ daemon' = [daemon EXCEPT !.state = "down"]
    /\ conn' = [conn EXCEPT !.state = "closed"]
    /\ lost' = IF conn.state = "handled"
               THEN [lost EXCEPT ![conn.request] = @ + 1] ELSE lost
    /\ UNCHANGED <<client, runs>>

-----------------------------------------------------------------------------
CallStep(c) ==
    \/ Enter(c)
    \/ CachedFails(c)
    \/ Connect(c)
    \/ ConnectFails(c)
    \/ ReadsReply(c)
    \/ ReadFails(c)
    \/ Retry(c)
    \/ GiveUp(c)
    \/ Return(c)

Connected == Accept \/ Handle \/ Reply \/ CloseConnection

Next ==
    \/ \E c \in Callers : Send(c) \/ CallStep(c)
    \/ Connected
    \/ Panic
    \/ DaemonStarts
    \/ StopsListening
    \/ DaemonEnds

Spec == Init /\ [][Next]_vars

\* Threads run, and the runtime polls the accept loop and the connection's task.
FairSpec ==
    /\ Spec
    /\ \A c \in Callers : WF_vars(CallStep(c))
    /\ WF_vars(Connected)

-----------------------------------------------------------------------------
(* Properties. *)

\* Every variable keeps its shape.
TypeOK ==
    /\ next \in 1 .. MaxRequests + 1
    /\ calls \in [Callers -> Call]
    /\ holder \in Callers \cup {"nobody"}
    /\ cached \in BOOLEAN
    /\ conn \in Connection
    /\ daemon \in Daemon
    /\ runs \in [Ids -> Nat]
    /\ lost \in [Ids -> Nat]

\* An answer that a caller accepts is to its own request, which has run; and
\* no answer is ever refused as another request's.  Threads take turns with
\* one cached connection, retries leave answers behind unread, and handlers
\* do not know the id they answer to.
AnswersOwnRequest ==
    \A c \in Callers : /\ calls[c].step # "mismatch"
                       /\ calls[c].step = "ok" => runs[calls[c].id] > 0

\* A request runs again only if its answer was lost, to a panic or to the end
\* of the daemon: no retry, on the cached connection or a new one, follows an
\* answer that is still to come.
RunsAgainOnlyIfLost == \A i \in Ids : runs[i] <= lost[i] + 1

\* However daemons and handlers fail, a request runs once per attempt at most,
\* and so MAX_RETRY_ATTEMPTS times at most.
RunsOncePerAttempt ==
    \A c \in Callers : calls[c].step # "idle" => runs[calls[c].id] <= calls[c].attempt

\* RemoteCall's view: the requests of the callers that are at some of the steps.
IdsAt(steps) == {calls[c].id : c \in {c \in Callers : calls[c].step \in steps}}

Asked   == 1 .. next - 1
Pending == IdsAt({"lock", "cached", "connect", "sent", "failed"})

Promise ==
    INSTANCE RemoteCall WITH Requests <- Ids, Attempts <- MaxAttempts, asked <- Asked,
                             pending <- Pending, answered <- IdsAt({"ok"}),
                             failed <- IdsAt({"error"}), effects <- runs

\* A call has effects while it lasts and none after it returned; an answer stands
\* for exactly one that was not lost, and an error means that the answers to all
\* of them were: also when another thread drops the connection, the server
\* answers a caller on its last attempt, or a daemon ends between a handler and
\* its answer.
KeepsSession == Promise!Spec

\* send_command returns: it has no timeout, and waits for an answer or for the
\* connection to end whatever the daemon does meanwhile.
CallsReturn == \A c \in Callers : calls[c].step # "idle" ~> calls[c].step = "idle"

=============================================================================
