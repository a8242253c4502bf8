-------------------------- MODULE IpcSessionProofs --------------------------
(***************************************************************************)
(* Proofs about IpcSession, for any callers, numbers of attempts and       *)
(* requests and any number of daemons.                                     *)
(***************************************************************************)
EXTENDS IpcSession, TLAPS

USE DEF Goto, Ids

-----------------------------------------------------------------------------
(* Typing. *)

LEMMA InitTyped == Init => TypeOK
<1>a. MaxRequests \in Nat /\ MaxAttempts \in Nat /\ MaxStarts \in Nat
  BY BoundsAssumption, AttemptsAssumption
<1>1. [step |-> "idle", attempt |-> 0, id |-> 0] \in Call
  BY <1>a DEF Call
<1>2. [state |-> "closed", request |-> 0, reply |-> 0] \in Connection
  BY <1>a DEF Connection
<1>3. [state |-> "down", starts |-> 0] \in Daemon
  BY <1>a DEF Daemon
<1>4. 1 \in 1 .. MaxRequests + 1
  BY <1>a
<1>5. [i \in Ids |-> 0] \in [Ids -> Nat]
  OBVIOUS
<1> SUFFICES ASSUME Init PROVE TypeOK
  OBVIOUS
<1>6. calls \in [Callers -> Call]
  BY <1>1 DEF Init
<1>7. runs \in [Ids -> Nat] /\ lost \in [Ids -> Nat]
  BY <1>5 DEF Init
<1> QED  BY <1>2, <1>3, <1>4, <1>6, <1>7 DEF Init, TypeOK

LEMMA CallerTyped ==
  ASSUME TypeOK, NEW c \in Callers, Send(c) \/ CallStep(c)
  PROVE  TypeOK'
<1>a. MaxRequests \in Nat /\ MaxAttempts \in Nat \ {0}
  BY BoundsAssumption, AttemptsAssumption
<1>1. CASE Send(c)
  <2>1. next' \in 1 .. MaxRequests + 1 /\ next \in 0 .. MaxRequests
    BY <1>1, <1>a DEF Send, TypeOK
  <2>2. [step |-> "lock", attempt |-> 1, id |-> next] \in Call
    BY <1>a, <2>1 DEF Call
  <2> QED  BY <1>1, <2>1, <2>2 DEF Send, TypeOK
<1>2. CASE \/ Enter(c) \/ CachedFails(c) \/ ConnectFails(c) \/ ReadFails(c) \/ GiveUp(c)
           \/ Return(c)
  <2>1. \E s \in {"idle", "cached", "connect", "failed", "error"} :
          calls' = [calls EXCEPT ![c].step = s]
    BY <1>2 DEF Enter, CachedFails, ConnectFails, ReadFails, GiveUp, Return
  <2>2. calls' \in [Callers -> Call]
    BY <2>1 DEF TypeOK, Call
  <2>3. UNCHANGED <<next, conn, daemon, runs, lost>>
    BY <1>2 DEF Enter, CachedFails, ConnectFails, ReadFails, GiveUp, Return
  <2>4. holder' \in Callers \cup {"nobody"} /\ cached' \in BOOLEAN
    BY <1>2 DEF Enter, CachedFails, ConnectFails, ReadFails, GiveUp, Return, TypeOK
  <2> QED  BY <2>2, <2>3, <2>4 DEF TypeOK
<1>3. CASE Connect(c)
  <2>1. calls' \in [Callers -> Call]
    BY <1>3 DEF Connect, TypeOK, Call
  <2>2. calls[c].id \in 0 .. MaxRequests
    BY DEF TypeOK, Call
  <2>3. [state |-> "backlog", request |-> calls[c].id, reply |-> 0] \in Connection
    BY <1>a, <2>2 DEF Connection
  <2> QED  BY <1>3, <2>1, <2>3 DEF Connect, TypeOK
<1>4. CASE ReadsReply(c)
  <2>1. calls' \in [Callers -> Call]
    BY <1>4 DEF ReadsReply, TypeOK, Call
  <2>2. conn' \in Connection
    <3>1. 0 \in 0 .. MaxRequests /\ conn \in Connection
      BY <1>a DEF TypeOK
    <3>2. [conn EXCEPT !.reply = 0] \in Connection
      BY <3>1 DEF Connection
    <3> QED  BY <1>4, <3>2 DEF ReadsReply
  <2> QED  BY <1>4, <2>1, <2>2 DEF ReadsReply, TypeOK
<1>5. CASE Retry(c)
  <2>1. calls[c] \in Call /\ calls[c].attempt + 1 \in 0 .. MaxAttempts
    BY <1>5, <1>a DEF Retry, TypeOK, Call
  <2>2. [calls[c] EXCEPT !.step = "lock", !.attempt = calls[c].attempt + 1] \in Call
    BY <2>1 DEF Call
  <2>3. calls' = [calls EXCEPT ![c] = [calls[c] EXCEPT !.step = "lock",
                                                       !.attempt = calls[c].attempt + 1]]
    BY <1>5 DEF Retry, TypeOK
  <2> QED  BY <1>5, <2>2, <2>3 DEF Retry, TypeOK
<1> QED  BY <1>1, <1>2, <1>3, <1>4, <1>5 DEF CallStep

\* One more is still a natural number.
LEMMA CountTyped ==
  ASSUME NEW f \in [Ids -> Nat], NEW i, NEW n \in {0, 1}
  PROVE  [f EXCEPT ![i] = @ + n] \in [Ids -> Nat]
<1>1. CASE i \in Ids
  <2>1. f[i] + n \in Nat
    BY <1>1
  <2> QED  BY <2>1
<1>2. CASE i \notin Ids
  BY <1>2
<1> QED  BY <1>1, <1>2

LEMMA ServerTyped ==
  ASSUME TypeOK, Connected \/ Panic \/ DaemonStarts \/ StopsListening \/ DaemonEnds
  PROVE  TypeOK'
<1>a. MaxRequests \in Nat /\ MaxStarts \in Nat
  BY BoundsAssumption
<1>1. CASE Accept \/ CloseConnection
  <2>1. conn' \in Connection
    BY <1>1 DEF Accept, CloseConnection, Serve, TypeOK, Connection
  <2> QED  BY <1>1, <2>1 DEF Accept, CloseConnection, client, TypeOK
<1>2. CASE Handle
  <2>1. conn' \in Connection
    BY <1>2 DEF Handle, Serve, TypeOK, Connection
  <2>2. runs' \in [Ids -> Nat]
    BY <1>2, CountTyped DEF Handle, TypeOK
  <2> QED  BY <1>2, <2>1, <2>2 DEF Handle, client, TypeOK
<1>3. CASE Reply
  <2>1. conn' \in Connection
    BY <1>3 DEF Reply, TypeOK, Connection
  <2> QED  BY <1>3, <2>1 DEF Reply, client, TypeOK
<1>4. CASE Panic
  <2>1. conn' \in Connection
    BY <1>4 DEF Panic, Serve, TypeOK, Connection
  <2>2. runs' \in [Ids -> Nat] /\ lost' \in [Ids -> Nat]
    <3>1. PICK n \in {0, 1} : /\ runs' = [runs EXCEPT ![conn.request] = @ + n]
                             /\ lost' = [lost EXCEPT ![conn.request] = @ + n]
      BY <1>4 DEF Panic
    <3> QED  BY <3>1, CountTyped DEF TypeOK
  <2> QED  BY <1>4, <2>1, <2>2 DEF Panic, client, TypeOK
<1>5. CASE DaemonStarts
  <2>1. daemon' \in Daemon
    BY <1>5, <1>a DEF DaemonStarts, TypeOK, Daemon
  <2> QED  BY <1>5, <2>1 DEF DaemonStarts, client, TypeOK
<1>6. CASE StopsListening
  <2>1. daemon' \in Daemon /\ conn' \in Connection
    BY <1>6 DEF StopsListening, TypeOK, Daemon, Connection
  <2> QED  BY <1>6, <2>1 DEF StopsListening, client, TypeOK
<1>7. CASE DaemonEnds
  <2>1. daemon' \in Daemon /\ conn' \in Connection
    BY <1>7 DEF DaemonEnds, TypeOK, Daemon, Connection
  <2>2. lost' \in [Ids -> Nat]
    BY <1>7, CountTyped DEF DaemonEnds, TypeOK
  <2> QED  BY <1>7, <2>1, <2>2 DEF DaemonEnds, client, TypeOK
<1> QED  BY <1>1, <1>2, <1>3, <1>4, <1>5, <1>6, <1>7 DEF Connected

\* Every variable keeps its shape, for all constants.
THEOREM TypeCorrectness == Spec => []TypeOK
<1>1. TypeOK /\ [Next]_vars => TypeOK'
  BY CallerTyped, ServerTyped DEF Next, vars, client, TypeOK
<1> QED  BY <1>1, InitTyped, PTL DEF Spec

-----------------------------------------------------------------------------
(***************************************************************************)
(* The inductive invariant: the caller that holds the mutex is the one the *)
(* connection belongs to; a request that may still be sent has lost every  *)
(* answer there was, and one that was sent has at most the one to come.    *)
(***************************************************************************)

Step(c) == calls[c].step
Id(c)   == calls[c].id

Mutex == \A c \in Callers : Step(c) \in {"cached", "connect", "sent"} <=> holder = c

\* Ids are given out once, and those not given out have not run.
Fresh ==
    /\ \A c \in Callers : Step(c) # "idle" => Id(c) \in Ids /\ Id(c) < next
    /\ \A c, d \in Callers : Step(c) # "idle" /\ Step(d) # "idle" /\ Id(c) = Id(d) => c = d
    /\ \A i \in Ids : i >= next => runs[i] = 0

\* The connection the server works for, or whose answer is unread, is waited for.
Awaited ==
    conn.state \in {"backlog", "reading", "handled"} \/ conn.reply # 0
      => \E c \in Callers : Step(c) = "sent"

Unanswered == conn.state \in {"backlog", "reading", "handled"} => conn.reply = 0

SentOK(c) ==
    Step(c) = "sent" =>
      /\ conn.request = Id(c)
      /\ conn.reply \in {0, Id(c)}
      /\ conn.state = "replied" => conn.reply = Id(c)
      /\ conn.state = "handled" \/ conn.reply # 0 => runs[Id(c)] > 0
      /\ conn.state # "handled" /\ conn.reply = 0 => runs[Id(c)] <= lost[Id(c)]
      /\ conn.state \in {"backlog", "reading"} => runs[Id(c)] < calls[c].attempt

Counted(c) ==
    /\ Step(c) # "mismatch"
    /\ Step(c) = "ok" => runs[Id(c)] > 0
    /\ Step(c) # "idle" => runs[Id(c)] <= calls[c].attempt
    /\ Step(c) \in {"lock", "cached", "connect"} => runs[Id(c)] < calls[c].attempt
    /\ Step(c) \in {"lock", "cached", "connect", "failed"} => runs[Id(c)] <= lost[Id(c)]

IInv ==
    /\ TypeOK
    /\ Mutex
    /\ Fresh
    /\ Awaited
    /\ Unanswered
    /\ \A c \in Callers : SentOK(c)
    /\ \A c \in Callers : Counted(c)
    /\ RunsAgainOnlyIfLost

\* Who waits for the connection holds the mutex, and nobody else waits.
LEMMA OneWaits ==
  ASSUME Mutex, NEW c \in Callers, NEW d \in Callers, holder = c, d # c
  PROVE  Step(d) \notin {"cached", "connect", "sent"}
BY DEF Mutex

LEMMA InitInv == Init => IInv
<1> SUFFICES ASSUME Init PROVE IInv
  OBVIOUS
<1>1. \A c \in Callers : Step(c) = "idle"
  BY DEF Init, Step
<1>2. Mutex
  BY <1>1, CallersAssumption DEF Init, Mutex
<1>3. Fresh /\ RunsAgainOnlyIfLost
  BY <1>1 DEF Init, Fresh, RunsAgainOnlyIfLost
<1>4. Awaited /\ Unanswered
  BY DEF Init, Awaited, Unanswered
<1>5. \A c \in Callers : SentOK(c) /\ Counted(c)
  BY <1>1 DEF SentOK, Counted
<1> QED  BY <1>2, <1>3, <1>4, <1>5, InitTyped DEF IInv

\* The numbers of a call and of its request are natural numbers.
LEMMA CallNumbers ==
  ASSUME IInv, NEW c \in Callers
  PROVE  /\ calls[c].attempt \in Nat /\ calls[c].id \in Nat
         /\ Step(c) # "idle" => Id(c) \in Ids /\ runs[Id(c)] \in Nat /\ lost[Id(c)] \in Nat
<1>1. calls[c].attempt \in Nat /\ calls[c].id \in Nat
  BY BoundsAssumption, AttemptsAssumption DEF IInv, TypeOK, Call
<1>2. Step(c) # "idle" => Id(c) \in Ids
  BY DEF IInv, Fresh
<1> QED  BY <1>1, <1>2 DEF IInv, TypeOK

\* A step of a call that does not touch the connection.
LEMMA CallMoves ==
  ASSUME IInv, TypeOK', NEW c \in Callers,
         \A d \in Callers : d # c => calls'[d] = calls[d],
         Id(c)' = Id(c), Step(c) # "idle", Step(c)' # "sent",
         UNCHANGED <<next, conn, runs, lost>>,
         Step(c) = "sent" => conn.state = "closed" /\ conn.reply = 0,
         Mutex', Counted(c)'
  PROVE  IInv'
<1>1. \A d \in Callers \ {c} : Step(d)' = Step(d) /\ Id(d)' = Id(d)
  BY DEF Step, Id
<1>2. Fresh'
  BY <1>1 DEF IInv, Fresh
<1>3. Awaited'
  BY <1>1 DEF IInv, Awaited
<1>4. ASSUME NEW d \in Callers PROVE SentOK(d)' /\ Counted(d)'
  <2>1. CASE d = c
    BY <2>1 DEF SentOK
  <2>2. CASE d # c
    BY <1>1, <2>2 DEF IInv, SentOK, Counted
  <2> QED  BY <2>1, <2>2
<1> QED  BY <1>2, <1>3, <1>4 DEF IInv, Unanswered, RunsAgainOnlyIfLost

LEMMA CallerInv ==
  ASSUME IInv, NEW c \in Callers, Send(c) \/ CallStep(c)
  PROVE  IInv'
<1>a. TypeOK'
  BY CallerTyped DEF IInv
<1>b. \A d \in Callers : d # c => calls'[d] = calls[d]
  BY DEF IInv, TypeOK, Send, CallStep, Enter, CachedFails, Connect, ConnectFails, ReadsReply,
         ReadFails, Retry, GiveUp, Return
<1>c. \A d \in Callers \ {c} : Step(d)' = Step(d) /\ Id(d)' = Id(d)
  BY <1>b DEF Step, Id
<1>d. /\ calls[c].attempt \in Nat
      /\ Step(c) # "idle" => Id(c) \in Ids /\ runs[Id(c)] \in Nat /\ lost[Id(c)] \in Nat
  BY CallNumbers
<1>m. Mutex /\ SentOK(c) /\ Counted(c)
  BY DEF IInv
<1>1. CASE Send(c)
  <2>1. /\ Step(c)' = "lock" /\ Id(c)' = next /\ calls'[c].attempt = 1
        /\ next' = next + 1 /\ next \in Ids
        /\ UNCHANGED <<holder, conn, runs, lost>>
    BY <1>1, BoundsAssumption DEF Send, IInv, TypeOK, Step, Id
  <2>2. runs[next] = 0 /\ lost[next] \in Nat /\ next \in Nat
    BY <2>1, BoundsAssumption DEF IInv, Fresh, TypeOK
  <2>3. \A d \in Callers : Step(d) # "idle" => Id(d) \in Ids /\ Id(d) < next
    BY DEF IInv, Fresh
  <2>4. Fresh'
    <3>1. \A d \in Callers : Step(d)' # "idle" => Id(d)' \in Ids /\ Id(d)' < next'
      BY <1>c, <2>1, <2>2, <2>3, BoundsAssumption
    <3>2. \A d, e \in Callers : Step(d)' # "idle" /\ Step(e)' # "idle" /\ Id(d)' = Id(e)' => d = e
      BY <1>c, <2>1, <2>2, <2>3, BoundsAssumption DEF IInv, Fresh
    <3>3. \A i \in Ids : i >= next' => runs'[i] = 0
      BY <2>1, <2>2 DEF IInv, Fresh
    <3> QED  BY <3>1, <3>2, <3>3 DEF Fresh
  <2>5. Mutex'
    BY <1>1, <1>c, <2>1 DEF Send, IInv, Mutex, Step
  <2>6. Awaited'
    BY <1>1, <1>c, <2>1 DEF Send, IInv, Awaited, Step
  <2>7. ASSUME NEW d \in Callers PROVE SentOK(d)' /\ Counted(d)'
    <3>1. CASE d = c
      BY <2>1, <2>2, <3>1 DEF SentOK, Counted
    <3>2. CASE d # c
      BY <1>b, <1>c, <2>1, <3>2 DEF IInv, SentOK, Counted
    <3> QED  BY <3>1, <3>2
  <2> QED  BY <1>a, <2>1, <2>4, <2>5, <2>6, <2>7 DEF IInv, Unanswered, RunsAgainOnlyIfLost
<1>2. CASE Enter(c)
  <2>1. /\ Step(c) = "lock" /\ Step(c)' \in {"cached", "connect"}
        /\ Id(c)' = Id(c) /\ calls'[c].attempt = calls[c].attempt
        /\ holder = "nobody" /\ holder' = c
        /\ UNCHANGED <<next, conn, runs, lost>>
    BY <1>2 DEF Enter, IInv, TypeOK, Step, Id
  <2>2. Mutex'
    BY <1>c, <2>1, CallersAssumption DEF IInv, Mutex
  <2>3. Counted(c)'
    BY <1>m, <2>1 DEF Counted
  <2> QED  BY <1>a, <1>b, <2>1, <2>2, <2>3, CallMoves
<1>3. CASE CachedFails(c)
  <2>1. /\ Step(c) = "cached" /\ Step(c)' = "connect"
        /\ Id(c)' = Id(c) /\ calls'[c].attempt = calls[c].attempt
        /\ UNCHANGED <<next, holder, conn, runs, lost>>
    BY <1>3 DEF CachedFails, IInv, TypeOK, Step, Id
  <2>2. Mutex'
    BY <1>c, <2>1 DEF IInv, Mutex
  <2>3. Counted(c)'
    BY <1>m, <2>1 DEF Counted
  <2> QED  BY <1>a, <1>b, <2>1, <2>2, <2>3, CallMoves
<1>4. CASE ConnectFails(c) \/ ReadFails(c)
  <2>1. /\ Step(c) \in {"connect", "sent"} /\ Step(c)' = "failed"
        /\ Step(c) = "sent" => conn.state = "closed" /\ conn.reply = 0
        /\ Id(c)' = Id(c) /\ calls'[c].attempt = calls[c].attempt
        /\ holder' = "nobody"
        /\ UNCHANGED <<next, conn, runs, lost>>
    <3>1. calls' = [calls EXCEPT ![c].step = "failed"]
      BY <1>4 DEF ConnectFails, ReadFails
    <3>2. /\ Step(c)' = "failed" /\ Id(c)' = Id(c)
          /\ calls'[c].attempt = calls[c].attempt
      BY <3>1 DEF IInv, TypeOK, Call, Step, Id
    <3> QED  BY <1>4, <3>2 DEF ConnectFails, ReadFails, Step
  <2>2. holder = c
    BY <2>1 DEF IInv, Mutex
  <2>3. Mutex'
    BY <1>c, <2>1, <2>2, OneWaits, CallersAssumption DEF IInv, Mutex
  <2>4. Counted(c)'
    BY <1>m, <2>1 DEF Counted, SentOK
  <2> QED  BY <1>a, <1>b, <2>1, <2>3, <2>4, CallMoves
<1>5. CASE Retry(c)
  <2>1. /\ Step(c) = "failed" /\ Step(c)' = "lock"
        /\ Id(c)' = Id(c) /\ calls'[c].attempt = calls[c].attempt + 1
        /\ UNCHANGED <<next, holder, conn, runs, lost>>
    BY <1>5 DEF Retry, IInv, TypeOK, Step, Id
  <2>2. Mutex'
    BY <1>c, <2>1 DEF IInv, Mutex
  <2>3. Counted(c)'
    BY <1>d, <1>m, <2>1 DEF Counted
  <2> QED  BY <1>a, <1>b, <2>1, <2>2, <2>3, CallMoves
<1>6. CASE GiveUp(c) \/ Return(c)
  <2>1. /\ Step(c) \in {"failed", "ok", "mismatch", "error"} /\ Step(c)' \in {"error", "idle"}
        /\ Id(c)' = Id(c) /\ calls'[c].attempt = calls[c].attempt
        /\ UNCHANGED <<next, holder, conn, runs, lost>>
    <3>1. \E s \in {"error", "idle"} : calls' = [calls EXCEPT ![c].step = s]
      BY <1>6 DEF GiveUp, Return
    <3>2. /\ Step(c)' \in {"error", "idle"} /\ Id(c)' = Id(c)
          /\ calls'[c].attempt = calls[c].attempt
      BY <3>1 DEF IInv, TypeOK, Call, Step, Id
    <3> QED  BY <1>6, <3>2 DEF GiveUp, Return, Step
  <2>2. Mutex'
    BY <1>c, <2>1 DEF IInv, Mutex
  <2>3. Counted(c)'
    BY <1>m, <2>1 DEF Counted
  <2> QED  BY <1>a, <1>b, <2>1, <2>2, <2>3, CallMoves
<1>7. CASE Connect(c)
  <2>1. /\ Step(c) = "connect" /\ Step(c)' = "sent"
        /\ Id(c)' = Id(c) /\ calls'[c].attempt = calls[c].attempt
        /\ conn' = [state |-> "backlog", request |-> Id(c), reply |-> 0]
        /\ UNCHANGED <<next, holder, runs, lost>>
    BY <1>7 DEF Connect, IInv, TypeOK, Step, Id
  <2>2. holder = c
    BY <2>1 DEF IInv, Mutex
  <2>3. Mutex'
    BY <1>c, <2>1 DEF IInv, Mutex
  <2>4. Awaited' /\ Unanswered'
    BY <2>1 DEF Awaited, Unanswered
  <2>5. Fresh'
    BY <1>c, <2>1 DEF IInv, Fresh
  <2>6. ASSUME NEW d \in Callers PROVE SentOK(d)' /\ Counted(d)'
    <3>1. CASE d = c
      BY <1>m, <2>1, <3>1 DEF SentOK, Counted
    <3>2. CASE d # c
      BY <1>b, <1>c, <1>m, <2>1, <2>2, <3>2, OneWaits DEF IInv, SentOK, Counted
    <3> QED  BY <3>1, <3>2
  <2> QED  BY <1>a, <2>1, <2>3, <2>4, <2>5, <2>6 DEF IInv, RunsAgainOnlyIfLost
<1>8. CASE ReadsReply(c)
  <2>1. /\ Step(c) = "sent" /\ conn.reply # 0
        /\ Id(c)' = Id(c) /\ calls'[c].attempt = calls[c].attempt
        /\ Step(c)' = IF conn.reply = Id(c) THEN "ok" ELSE "mismatch"
        /\ conn'.state = conn.state /\ conn'.reply = 0
        /\ holder' = "nobody"
        /\ UNCHANGED <<next, runs, lost>>
    BY <1>8 DEF ReadsReply, IInv, TypeOK, Connection, Step, Id
  <2>2. holder = c
    BY <2>1 DEF IInv, Mutex
  <2>3. Step(c)' = "ok" /\ runs[Id(c)] > 0
    BY <1>m, <2>1 DEF SentOK
  <2>4. Mutex'
    BY <1>c, <2>1, <2>2, <2>3, OneWaits, CallersAssumption DEF IInv, Mutex
  <2>5. Awaited' /\ Unanswered'
    BY <2>1 DEF IInv, Awaited, Unanswered
  <2>6. Fresh'
    BY <1>c, <2>1, <2>3 DEF IInv, Fresh
  <2>7. ASSUME NEW d \in Callers PROVE SentOK(d)' /\ Counted(d)'
    <3>1. CASE d = c
      BY <1>m, <2>1, <2>3, <3>1 DEF SentOK, Counted
    <3>2. CASE d # c
      BY <1>b, <1>c, <1>m, <2>1, <2>2, <3>2, OneWaits DEF IInv, SentOK, Counted
    <3> QED  BY <3>1, <3>2
  <2> QED  BY <1>a, <2>1, <2>4, <2>5, <2>6, <2>7 DEF IInv, RunsAgainOnlyIfLost
<1> QED  BY <1>1, <1>2, <1>3, <1>4, <1>5, <1>6, <1>7, <1>8 DEF CallStep

\* The server works for the request of the one caller that waits for it.
LEMMA WaitsForServer ==
  ASSUME IInv, conn.state \in {"backlog", "reading", "handled"} \/ conn.reply # 0
  PROVE  \E c \in Callers :
           /\ Step(c) = "sent" /\ conn.request = Id(c) /\ Id(c) \in Ids
           /\ \A d \in Callers : Step(d) = "sent" => d = c
           /\ \A d \in Callers : Step(d) # "idle" /\ Id(d) = Id(c) => d = c
<1>1. PICK c \in Callers : Step(c) = "sent"
  BY DEF IInv, Awaited
<1>2. \A d \in Callers : Step(d) = "sent" => d = c
  BY <1>1 DEF IInv, Mutex
<1>3. conn.request = Id(c)
  BY <1>1 DEF IInv, SentOK
<1>4. Id(c) \in Ids /\ \A d \in Callers : Step(d) # "idle" /\ Id(d) = Id(c) => d = c
  BY <1>1 DEF IInv, Fresh
<1> QED  BY <1>1, <1>2, <1>3, <1>4

LEMMA ServerInv ==
  ASSUME IInv, Connected \/ Panic \/ DaemonStarts \/ StopsListening \/ DaemonEnds
  PROVE  IInv'
<1>a. TypeOK'
  BY ServerTyped DEF IInv
<1>b. UNCHANGED client
  BY DEF Connected, Accept, Handle, Reply, CloseConnection, Panic, DaemonStarts,
         StopsListening, DaemonEnds
<1>c. \A c \in Callers : calls'[c] = calls[c] /\ Step(c)' = Step(c) /\ Id(c)' = Id(c)
  BY <1>b DEF client, Step, Id
<1>d. Mutex'
  BY <1>b, <1>c DEF client, IInv, Mutex
<1>e. /\ \A c \in Callers : Step(c)' # "idle" => Id(c)' \in Ids /\ Id(c)' < next'
      /\ \A c, d \in Callers : Step(c)' # "idle" /\ Step(d)' # "idle" /\ Id(c)' = Id(d)' => c = d
  BY <1>b, <1>c DEF client, IInv, Fresh
<1>1. ASSUME UNCHANGED <<runs, lost>>,
             conn'.request = conn.request,
             conn'.reply = conn.reply,
             \/ conn'.state = conn.state
             \/ conn.state = "backlog" /\ conn'.state = "reading"
             \/ conn.state # "handled" /\ conn'.state = "closed"
      PROVE  IInv'
  <2>1. Fresh' /\ RunsAgainOnlyIfLost'
    BY <1>1, <1>b, <1>e DEF client, IInv, Fresh, RunsAgainOnlyIfLost
  <2>2. Awaited' /\ Unanswered'
    BY <1>1, <1>c DEF IInv, Awaited, Unanswered
  <2>3. ASSUME NEW c \in Callers PROVE SentOK(c)' /\ Counted(c)'
    BY <1>1, <1>c DEF IInv, SentOK, Counted
  <2> QED  BY <1>a, <1>d, <2>1, <2>2, <2>3 DEF IInv
<1>2. CASE Accept \/ CloseConnection \/ DaemonStarts \/ StopsListening
  <2>1. UNCHANGED <<runs, lost>>
    BY <1>2 DEF Accept, CloseConnection, DaemonStarts, StopsListening
  <2>2. CASE Accept
    BY <1>1, <2>1, <2>2 DEF Accept, Serve, IInv, TypeOK, Connection
  <2>3. CASE CloseConnection
    BY <1>1, <2>1, <2>3 DEF CloseConnection, Serve, IInv, TypeOK, Connection
  <2>4. CASE DaemonStarts
    BY <1>1, <2>1, <2>4 DEF DaemonStarts
  <2>5. CASE StopsListening
    BY <1>1, <2>1, <2>5 DEF StopsListening, IInv, TypeOK, Connection
  <2> QED  BY <1>2, <2>2, <2>3, <2>4, <2>5
<1>3. CASE Handle \/ Panic
  <2>1. conn.state = "reading" /\ conn.reply = 0
    BY <1>3 DEF Handle, Panic, Serve, IInv, Unanswered
  <2>2. PICK c \in Callers :
          /\ Step(c) = "sent" /\ conn.request = Id(c) /\ Id(c) \in Ids
          /\ \A d \in Callers : Step(d) = "sent" => d = c
          /\ \A d \in Callers : Step(d) # "idle" /\ Id(d) = Id(c) => d = c
    BY <2>1, WaitsForServer
  <2>3. /\ runs[Id(c)] \in Nat /\ lost[Id(c)] \in Nat /\ calls[c].attempt \in Nat
        /\ runs[Id(c)] <= lost[Id(c)] /\ runs[Id(c)] < calls[c].attempt
    BY <2>1, <2>2, CallNumbers DEF IInv, SentOK
  <2>4. PICK n \in {0, 1}, m \in {0, 1} :
          /\ runs' = [runs EXCEPT ![Id(c)] = @ + n]
          /\ lost' = [lost EXCEPT ![Id(c)] = @ + m]
          /\ conn'.request = conn.request /\ conn'.reply = 0
          /\ \/ conn'.state = "closed" /\ n = m
             \/ conn'.state = "handled" /\ n = 1 /\ m = 0
    <3>1. CASE Handle
      <4>1. lost = [lost EXCEPT ![Id(c)] = @ + 0]
        BY <2>2, <2>3 DEF IInv, TypeOK
      <4> QED  BY <2>1, <2>2, <3>1, <4>1 DEF Handle, Serve, IInv, TypeOK, Connection
    <3>2. CASE Panic
      BY <2>1, <2>2, <3>2 DEF Panic, Serve, IInv, TypeOK, Connection
    <3> QED  BY <1>3, <3>1, <3>2
  <2>5. /\ \A i \in Ids : i # Id(c) => runs'[i] = runs[i] /\ lost'[i] = lost[i]
        /\ runs'[Id(c)] = runs[Id(c)] + n /\ lost'[Id(c)] = lost[Id(c)] + m
    BY <2>2, <2>4 DEF IInv, TypeOK
  <2>6. Fresh'
    <3>1. Id(c) < next /\ next' = next /\ Id(c) \in Nat /\ next \in Nat
      BY <1>b, <2>2, BoundsAssumption DEF client, IInv, Fresh, TypeOK
    <3>2. \A i \in Ids : i >= next' => runs'[i] = 0
      BY <2>5, <3>1 DEF IInv, Fresh
    <3> QED  BY <1>e, <3>2 DEF Fresh
  <2>7. RunsAgainOnlyIfLost'
    <3>1. runs'[Id(c)] <= lost'[Id(c)] + 1
      BY <2>3, <2>4, <2>5
    <3> QED  BY <2>5, <3>1 DEF IInv, RunsAgainOnlyIfLost
  <2>8. Awaited' /\ Unanswered'
    BY <1>c, <2>2, <2>4 DEF Awaited, Unanswered
  <2>9. SentOK(c)' /\ Counted(c)'
    BY <1>c, <2>2, <2>3, <2>4, <2>5 DEF SentOK, Counted
  <2>10. ASSUME NEW d \in Callers, d # c PROVE SentOK(d)' /\ Counted(d)'
    <3>1. Step(d) # "sent" /\ (Step(d) # "idle" => Id(d) # Id(c) /\ Id(d) \in Ids)
      BY <2>2, <2>10 DEF IInv, Fresh
    <3> QED  BY <1>c, <2>5, <3>1 DEF IInv, SentOK, Counted
  <2> QED  BY <1>a, <1>d, <2>6, <2>7, <2>8, <2>9, <2>10 DEF IInv
<1>4. CASE Reply
  <2>1. conn.state = "handled" /\ conn'.state = "replied"
        /\ conn'.request = conn.request /\ conn'.reply = conn.request
        /\ UNCHANGED <<runs, lost>>
    BY <1>4 DEF Reply, IInv, TypeOK, Connection
  <2>2. PICK c \in Callers :
          /\ Step(c) = "sent" /\ conn.request = Id(c) /\ Id(c) \in Ids
          /\ \A d \in Callers : Step(d) = "sent" => d = c
    BY <2>1, WaitsForServer
  <2>3. Fresh' /\ RunsAgainOnlyIfLost'
    BY <1>b, <1>e, <2>1 DEF client, IInv, Fresh, RunsAgainOnlyIfLost
  <2>4. Awaited' /\ Unanswered'
    BY <1>c, <2>1, <2>2 DEF Awaited, Unanswered
  <2>5. Id(c) # 0
    BY <2>2, BoundsAssumption
  <2>6. ASSUME NEW d \in Callers PROVE SentOK(d)' /\ Counted(d)'
    BY <1>c, <2>1, <2>2, <2>5 DEF IInv, SentOK, Counted
  <2> QED  BY <1>a, <1>d, <2>3, <2>4, <2>6 DEF IInv
<1>5. CASE DaemonEnds
  <2>1. CASE conn.state # "handled"
    BY <1>1, <1>5, <2>1 DEF DaemonEnds, IInv, TypeOK, Connection
  <2>2. CASE conn.state = "handled"
    <3>1. PICK c \in Callers :
            /\ Step(c) = "sent" /\ conn.request = Id(c) /\ Id(c) \in Ids
            /\ \A d \in Callers : Step(d) = "sent" => d = c
            /\ \A d \in Callers : Step(d) # "idle" /\ Id(d) = Id(c) => d = c
      BY <2>2, WaitsForServer
    <3>2. /\ conn.reply = 0 /\ conn'.state = "closed" /\ conn'.reply = 0
          /\ conn'.request = conn.request /\ runs' = runs
      BY <1>5, <2>2 DEF DaemonEnds, IInv, Unanswered, TypeOK, Connection
    <3>3. /\ \A i \in Ids : i # Id(c) => lost'[i] = lost[i]
          /\ lost'[Id(c)] = lost[Id(c)] + 1
      BY <1>5, <2>2, <3>1 DEF DaemonEnds, IInv, TypeOK
    <3>4. /\ \A i \in Ids : runs[i] \in Nat /\ lost[i] \in Nat
          /\ runs[Id(c)] <= lost'[Id(c)]
      BY <3>1, <3>3 DEF IInv, TypeOK, RunsAgainOnlyIfLost
    <3>5. Fresh'
      BY <1>b, <1>e, <3>2 DEF client, IInv, Fresh
    <3>6. RunsAgainOnlyIfLost'
      BY <3>1, <3>2, <3>3, <3>4 DEF IInv, RunsAgainOnlyIfLost
    <3>7. Awaited' /\ Unanswered'
      BY <3>2 DEF Awaited, Unanswered
    <3>8. SentOK(c)' /\ Counted(c)'
      BY <1>c, <3>1, <3>2, <3>4 DEF IInv, SentOK, Counted
    <3>9. ASSUME NEW d \in Callers, d # c PROVE SentOK(d)' /\ Counted(d)'
      <4>1. Step(d) # "sent" /\ (Step(d) # "idle" => Id(d) # Id(c) /\ Id(d) \in Ids)
        BY <3>1, <3>9 DEF IInv, Fresh
      <4> QED  BY <1>c, <3>2, <3>3, <4>1 DEF IInv, SentOK, Counted
    <3> QED  BY <1>a, <1>d, <3>5, <3>6, <3>7, <3>8, <3>9 DEF IInv
  <2> QED  BY <2>1, <2>2
<1> QED  BY <1>2, <1>3, <1>4, <1>5 DEF Connected

LEMMA Invariance == Spec => []IInv
<1>1. IInv /\ UNCHANGED vars => IInv'
  BY DEF vars, client, IInv, TypeOK, Mutex, Fresh, Awaited, Unanswered, SentOK, Counted,
         RunsAgainOnlyIfLost, Step, Id
<1>2. IInv /\ [Next]_vars => IInv'
  BY <1>1, CallerInv, ServerInv DEF Next
<1> QED  BY <1>2, InitInv, PTL DEF Spec

-----------------------------------------------------------------------------
\* An accepted answer is to the caller's own request, which has run, and no
\* answer is refused as another's.
THEOREM AnswersAreOwn == Spec => []AnswersOwnRequest
<1>1. IInv => AnswersOwnRequest
  BY DEF IInv, Counted, AnswersOwnRequest, Step, Id
<1> QED  BY <1>1, Invariance, PTL

\* A request runs again only for an answer that was lost.
THEOREM RerunsAreForLostAnswers == Spec => []RunsAgainOnlyIfLost
<1>1. IInv => RunsAgainOnlyIfLost
  BY DEF IInv
<1> QED  BY <1>1, Invariance, PTL

\* A request runs at most once for every attempt made.
THEOREM RunsAreBounded == Spec => []RunsOncePerAttempt
<1>1. IInv => RunsOncePerAttempt
  BY DEF IInv, Counted, RunsOncePerAttempt, Step, Id
<1> QED  BY <1>1, Invariance, PTL

-----------------------------------------------------------------------------
(***************************************************************************)
(* The calls keep RemoteCall's promise.  For that an answer on its way     *)
(* must stand for a run whose answer was not lost yet.                     *)
(***************************************************************************)

LostWereRun ==
    /\ \A i \in Ids : lost[i] <= runs[i]
    /\ conn.state = "handled" \/ conn.reply # 0 => lost[conn.request] < runs[conn.request]

LEMMA InitLost == Init => LostWereRun
BY DEF Init, LostWereRun

LEMMA CallerLost ==
  ASSUME IInv, LostWereRun, NEW c \in Callers, Send(c) \/ CallStep(c)
  PROVE  LostWereRun'
<1>1. UNCHANGED <<runs, lost>>
  BY DEF Send, CallStep, Enter, CachedFails, Connect, ConnectFails, ReadsReply, ReadFails,
         Retry, GiveUp, Return
<1>2. CASE Connect(c)
  BY <1>1, <1>2 DEF Connect, LostWereRun
<1>3. CASE ReadsReply(c)
  <2>1. conn.state # "handled" /\ conn'.state = conn.state /\ conn'.reply = 0
    BY <1>3 DEF ReadsReply, IInv, Unanswered, TypeOK, Connection
  <2> QED  BY <1>1, <2>1 DEF LostWereRun
<1>4. CASE \/ Send(c) \/ Enter(c) \/ CachedFails(c) \/ ConnectFails(c) \/ ReadFails(c)
           \/ Retry(c) \/ GiveUp(c) \/ Return(c)
  <2>1. UNCHANGED conn
    BY <1>4 DEF Send, Enter, CachedFails, ConnectFails, ReadFails, Retry, GiveUp, Return
  <2> QED  BY <1>1, <2>1 DEF LostWereRun
<1> QED  BY <1>2, <1>3, <1>4 DEF CallStep

LEMMA ServerLost ==
  ASSUME IInv, LostWereRun, Connected \/ Panic \/ DaemonStarts \/ StopsListening \/ DaemonEnds
  PROVE  LostWereRun'
<1>a. \A i \in Ids : runs[i] \in Nat /\ lost[i] \in Nat
  BY DEF IInv, TypeOK
<1>b. conn.state \in {"backlog", "reading", "handled"} => conn.reply = 0
  BY DEF IInv, Unanswered
<1>c. conn.state \in {"reading", "handled"} => conn.request \in Ids
  BY WaitsForServer
<1>1. CASE Accept \/ CloseConnection \/ DaemonStarts \/ StopsListening
  <2>1. /\ UNCHANGED <<runs, lost>>
        /\ conn'.request = conn.request /\ conn'.reply = conn.reply
        /\ conn'.state = "handled" => conn.state = "handled"
    BY <1>1 DEF Accept, CloseConnection, DaemonStarts, StopsListening, Serve, IInv, TypeOK,
                Connection
  <2> QED  BY <2>1 DEF LostWereRun
<1>2. CASE Reply
  <2>1. /\ UNCHANGED <<runs, lost>>
        /\ conn'.request = conn.request /\ conn.state = "handled"
    BY <1>2 DEF Reply, IInv, TypeOK, Connection
  <2> QED  BY <2>1 DEF LostWereRun
<1>3. CASE Handle
  <2>1. /\ conn'.request = conn.request /\ conn.request \in Ids
        /\ runs' = [runs EXCEPT ![conn.request] = @ + 1] /\ lost' = lost
    BY <1>3, <1>c DEF Handle, Serve, IInv, TypeOK, Connection
  <2>2. \A i \in Ids : runs'[i] = IF i = conn.request THEN runs[i] + 1 ELSE runs[i]
    BY <2>1 DEF IInv, TypeOK
  <2> QED  BY <1>a, <2>1, <2>2 DEF LostWereRun
<1>4. CASE Panic
  <2>1. conn.request \in Ids /\ conn'.state = "closed" /\ conn'.reply = 0
    BY <1>4, <1>b, <1>c DEF Panic, Serve, IInv, TypeOK, Connection
  <2>2. PICK n \in {0, 1} : /\ runs' = [runs EXCEPT ![conn.request] = @ + n]
                           /\ lost' = [lost EXCEPT ![conn.request] = @ + n]
    BY <1>4 DEF Panic
  <2>3. \A i \in Ids : \/ runs'[i] = runs[i] /\ lost'[i] = lost[i]
                       \/ runs'[i] = runs[i] + n /\ lost'[i] = lost[i] + n
    BY <2>1, <2>2 DEF IInv, TypeOK
  <2> QED  BY <1>a, <2>1, <2>3 DEF LostWereRun
<1>5. CASE DaemonEnds
  <2>1. conn'.state = "closed" /\ conn'.request = conn.request /\ conn'.reply = conn.reply
        /\ runs' = runs
    BY <1>5 DEF DaemonEnds, IInv, TypeOK, Connection
  <2>2. CASE conn.state = "handled"
    <3>1. \A i \in Ids : lost'[i] = IF i = conn.request THEN lost[i] + 1 ELSE lost[i]
      BY <1>5, <1>c, <2>2 DEF DaemonEnds, IInv, TypeOK
    <3> QED  BY <1>a, <1>b, <1>c, <2>1, <2>2, <3>1 DEF LostWereRun
  <2>3. CASE conn.state # "handled"
    BY <1>5, <2>1, <2>3 DEF DaemonEnds, LostWereRun
  <2> QED  BY <2>2, <2>3
<1> QED  BY <1>1, <1>2, <1>3, <1>4, <1>5 DEF Connected

LEMMA LostInvariance == Spec => [](IInv /\ LostWereRun)
<1>1. IInv /\ LostWereRun /\ [Next]_vars => LostWereRun'
  <2>1. UNCHANGED vars /\ LostWereRun => LostWereRun'
    BY DEF vars, LostWereRun
  <2> QED  BY <2>1, CallerLost, ServerLost DEF Next
<1> QED  BY <1>1, InitLost, Invariance, PTL DEF Spec

\* No two callers have the same request, so a caller's request is where it is.
LEMMA CallerIsAt ==
  ASSUME IInv, NEW c \in Callers, Step(c) # "idle", NEW steps, "idle" \notin steps
  PROVE  Id(c) \in IdsAt(steps) <=> Step(c) \in steps
BY DEF IInv, Fresh, IdsAt, Step, Id

\* A step of a call moves its own request and no other.
LEMMA CallerGoes ==
  ASSUME IInv, NEW c \in Callers, Step(c) # "idle", NEW steps, "idle" \notin steps,
         \A d \in Callers : d # c => calls'[d] = calls[d],
         Id(c)' = Id(c)
  PROVE  IdsAt(steps)' = IF Step(c)' \in steps THEN IdsAt(steps) \cup {Id(c)}
                                               ELSE IdsAt(steps) \ {Id(c)}
<1>1. \A d \in Callers \ {c} : calls'[d].step = calls[d].step /\ calls'[d].id = calls[d].id
  OBVIOUS
<1>2. \A d \in Callers \ {c} : Step(d) \in steps => Id(d) # Id(c)
  BY DEF IInv, Fresh
<1>3. ASSUME NEW i
      PROVE  i \in IdsAt(steps)' <=> \/ i = Id(c) /\ Step(c)' \in steps
                                    \/ \E d \in Callers \ {c} : Step(d) \in steps /\ i = Id(d)
  BY <1>1 DEF IdsAt, Step, Id
<1>4. ASSUME NEW i
      PROVE  i \in IdsAt(steps) <=> \/ i = Id(c) /\ Step(c) \in steps
                                   \/ \E d \in Callers \ {c} : Step(d) \in steps /\ i = Id(d)
  BY DEF IdsAt, Step, Id
<1> QED  BY <1>2, <1>3, <1>4

PendingSteps == {"lock", "cached", "connect", "sent", "failed"}

\* Pending, answered and failed requests after a step of a call.
LEMMA CallerSets ==
  ASSUME IInv, NEW c \in Callers, Step(c) # "idle",
         \A d \in Callers : d # c => calls'[d] = calls[d],
         Id(c)' = Id(c)
  PROVE  /\ Pending' = IF Step(c)' \in PendingSteps THEN Pending \cup {Id(c)}
                                                    ELSE Pending \ {Id(c)}
         /\ IdsAt({"ok"})' = IF Step(c)' = "ok" THEN IdsAt({"ok"}) \cup {Id(c)}
                                                ELSE IdsAt({"ok"}) \ {Id(c)}
         /\ IdsAt({"error"})' = IF Step(c)' = "error" THEN IdsAt({"error"}) \cup {Id(c)}
                                                      ELSE IdsAt({"error"}) \ {Id(c)}
         /\ Id(c) \in Pending <=> Step(c) \in PendingSteps
         /\ Id(c) \in IdsAt({"ok"}) <=> Step(c) = "ok"
         /\ Id(c) \in IdsAt({"error"}) <=> Step(c) = "error"
<1>1. IdsAt(PendingSteps)' = IF Step(c)' \in PendingSteps THEN IdsAt(PendingSteps) \cup {Id(c)}
                                                          ELSE IdsAt(PendingSteps) \ {Id(c)}
  BY CallerGoes DEF PendingSteps
<1>2. IdsAt({"ok"})' = IF Step(c)' \in {"ok"} THEN IdsAt({"ok"}) \cup {Id(c)}
                                              ELSE IdsAt({"ok"}) \ {Id(c)}
  BY CallerGoes
<1>3. IdsAt({"error"})' = IF Step(c)' \in {"error"} THEN IdsAt({"error"}) \cup {Id(c)}
                                                    ELSE IdsAt({"error"}) \ {Id(c)}
  BY CallerGoes
<1>4. Id(c) \in IdsAt(PendingSteps) <=> Step(c) \in PendingSteps
  BY CallerIsAt DEF PendingSteps
<1>5. Id(c) \in IdsAt({"ok"}) <=> Step(c) \in {"ok"}
  BY CallerIsAt
<1>6. Id(c) \in IdsAt({"error"}) <=> Step(c) \in {"error"}
  BY CallerIsAt
<1>7. Pending = IdsAt(PendingSteps) /\ Pending' = IdsAt(PendingSteps)'
  BY DEF Pending, PendingSteps
<1> QED  BY <1>1, <1>2, <1>3, <1>4, <1>5, <1>6, <1>7

LEMMA CallerPromises ==
  ASSUME IInv, LostWereRun, NEW c \in Callers, Send(c) \/ CallStep(c)
  PROVE  [Promise!Next]_Promise!vars
<1>a. \A d \in Callers : d # c => calls'[d] = calls[d]
  BY DEF IInv, TypeOK, Send, CallStep, Enter, CachedFails, Connect, ConnectFails, ReadsReply,
         ReadFails, Retry, GiveUp, Return
<1>b. UNCHANGED <<runs, lost>>
  BY DEF Send, CallStep, Enter, CachedFails, Connect, ConnectFails, ReadsReply, ReadFails,
         Retry, GiveUp, Return
<1>c. Step(c) # "idle" => Id(c) \in Ids /\ runs[Id(c)] \in Nat /\ lost[Id(c)] \in Nat
  BY CallNumbers
<1>1. CASE Send(c)
  <2>1. /\ Step(c) = "idle" /\ Step(c)' = "lock" /\ Id(c)' = next
        /\ next' = next + 1 /\ next \in Ids
    BY <1>1, BoundsAssumption DEF Send, IInv, TypeOK, Step, Id
  <2>2. Asked' = Asked \cup {next} /\ next \notin Asked
    BY <2>1, BoundsAssumption DEF Asked
  <2>3. ASSUME NEW steps, "idle" \notin steps, NEW i
        PROVE  i \in IdsAt(steps)' <=> i \in IdsAt(steps) \/ (i = next /\ "lock" \in steps)
    <3>1. \A d \in Callers \ {c} : calls'[d].step = calls[d].step /\ calls'[d].id = calls[d].id
      BY <1>a
    <3> QED  BY <2>1, <2>3, <3>1 DEF IdsAt, Step, Id
  <2>4. Pending' = Pending \cup {next}
    BY <2>3 DEF Pending
  <2>5. IdsAt({"ok"})' = IdsAt({"ok"}) /\ IdsAt({"error"})' = IdsAt({"error"})
    <3>1. ASSUME NEW i PROVE i \in IdsAt({"ok"})' <=> i \in IdsAt({"ok"})
      BY <2>3
    <3>2. ASSUME NEW i PROVE i \in IdsAt({"error"})' <=> i \in IdsAt({"error"})
      BY <2>3
    <3> QED  BY <3>1, <3>2
  <2>6. Promise!Ask(next)
    BY <1>b, <2>2, <2>4, <2>5 DEF Promise!Ask
  <2> QED  BY <2>1, <2>6 DEF Promise!Next
<1>2. CASE CallStep(c)
  <2>1. Step(c) # "idle" /\ Id(c)' = Id(c) /\ next' = next
    <3>1. \/ \E to : calls' = [calls EXCEPT ![c].step = to]
          \/ calls' = [calls EXCEPT ![c].step = "lock", ![c].attempt = @ + 1]
      BY <1>2 DEF CallStep, Enter, CachedFails, Connect, ConnectFails, ReadsReply, ReadFails,
                  Retry, GiveUp, Return
    <3>2. Id(c)' = Id(c)
      BY <3>1 DEF IInv, TypeOK, Call, Id
    <3>3. Step(c) # "idle" /\ next' = next
      BY <1>2 DEF CallStep, Enter, CachedFails, Connect, ConnectFails, ReadsReply, ReadFails,
                  Retry, GiveUp, Return, Step
    <3> QED  BY <3>2, <3>3
  <2>2. Asked' = Asked
    BY <2>1 DEF Asked
  <2>3. /\ Pending' = IF Step(c)' \in PendingSteps THEN Pending \cup {Id(c)}
                                                   ELSE Pending \ {Id(c)}
        /\ IdsAt({"ok"})' = IF Step(c)' = "ok" THEN IdsAt({"ok"}) \cup {Id(c)}
                                               ELSE IdsAt({"ok"}) \ {Id(c)}
        /\ IdsAt({"error"})' = IF Step(c)' = "error" THEN IdsAt({"error"}) \cup {Id(c)}
                                                     ELSE IdsAt({"error"}) \ {Id(c)}
        /\ Id(c) \in Pending <=> Step(c) \in PendingSteps
        /\ Id(c) \in IdsAt({"ok"}) <=> Step(c) = "ok"
        /\ Id(c) \in IdsAt({"error"}) <=> Step(c) = "error"
    BY <1>a, <2>1, CallerSets
  <2>4. CASE \/ Enter(c) \/ CachedFails(c) \/ Connect(c) \/ ConnectFails(c) \/ ReadFails(c)
             \/ Retry(c)
    <3>1. Step(c) \in PendingSteps /\ Step(c)' \in PendingSteps
      <4>1. Step(c) \in PendingSteps
        BY <2>4 DEF Enter, CachedFails, Connect, ConnectFails, ReadFails, Retry, Step,
                    PendingSteps
      <4>2. \/ \E to \in PendingSteps : calls' = [calls EXCEPT ![c].step = to]
            \/ calls' = [calls EXCEPT ![c].step = "lock", ![c].attempt = @ + 1]
        BY <2>4 DEF Enter, CachedFails, Connect, ConnectFails, ReadFails, Retry, PendingSteps
      <4>3. Step(c)' \in PendingSteps
        BY <4>2 DEF IInv, TypeOK, Call, Step, PendingSteps
      <4> QED  BY <4>1, <4>3
    <3>2. Step(c) \notin {"ok", "error"} /\ Step(c)' \notin {"ok", "error"}
      BY <3>1 DEF PendingSteps
    <3>3. Pending' = Pending
      BY <2>3, <3>1
    <3>4. IdsAt({"ok"})' = IdsAt({"ok"}) /\ IdsAt({"error"})' = IdsAt({"error"})
      BY <2>3, <3>2
    <3> QED  BY <1>b, <2>2, <3>3, <3>4 DEF Promise!vars
  <2>5. CASE ReadsReply(c)
    <3>1. Step(c) = "sent" /\ conn.reply # 0 /\ conn.reply = Id(c) /\ conn.request = Id(c)
      BY <2>5 DEF ReadsReply, IInv, SentOK, Step
    <3>2. Step(c)' = "ok"
      BY <2>5, <3>1 DEF ReadsReply, IInv, TypeOK, Step, Id
    <3>3. lost[Id(c)] < runs[Id(c)] /\ runs[Id(c)] <= lost[Id(c)] + 1
      BY <1>c, <3>1 DEF LostWereRun, IInv, RunsAgainOnlyIfLost
    <3>4. runs[Id(c)] = lost[Id(c)] + 1
      BY <1>c, <3>1, <3>3
    <3>5. Promise!Answer(Id(c))
      BY <1>b, <2>2, <2>3, <3>1, <3>2, <3>4 DEF Promise!Answer, PendingSteps
    <3> QED  BY <1>c, <2>1, <3>5 DEF Promise!Next
  <2>6. CASE GiveUp(c)
    <3>1. Step(c) = "failed" /\ Step(c)' = "error"
      BY <2>6 DEF GiveUp, IInv, TypeOK, Step
    <3>2. runs[Id(c)] <= lost[Id(c)] /\ lost[Id(c)] <= runs[Id(c)]
      BY <1>c, <3>1 DEF LostWereRun, IInv, Counted
    <3>3. runs[Id(c)] = lost[Id(c)]
      BY <1>c, <3>1, <3>2
    <3>4. Promise!Fail(Id(c))
      BY <1>b, <2>2, <2>3, <3>1, <3>3 DEF Promise!Fail, PendingSteps
    <3> QED  BY <1>c, <2>1, <3>4 DEF Promise!Next
  <2>7. CASE Return(c)
    <3>1. Step(c) \in {"ok", "error"} /\ Step(c)' = "idle"
      BY <2>7 DEF Return, IInv, Counted, TypeOK, Step
    <3>2. Promise!Return(Id(c))
      BY <1>b, <2>2, <2>3, <3>1 DEF Promise!Return, PendingSteps
    <3> QED  BY <1>c, <2>1, <3>2 DEF Promise!Next
  <2> QED  BY <1>2, <2>4, <2>5, <2>6, <2>7 DEF CallStep
<1> QED  BY <1>1, <1>2

LEMMA ServerPromises ==
  ASSUME IInv, LostWereRun, Connected \/ Panic \/ DaemonStarts \/ StopsListening \/ DaemonEnds
  PROVE  [Promise!Next]_Promise!vars
<1>a. UNCHANGED <<Asked, Pending, IdsAt({"ok"}), IdsAt({"error"})>>
  BY DEF Connected, Accept, Handle, Reply, CloseConnection, Panic, DaemonStarts,
         StopsListening, DaemonEnds, client, Asked, Pending, IdsAt
<1>b. ASSUME conn.state \in {"reading", "handled"}
      PROVE  /\ conn.request \in Ids /\ conn.request \in Pending
             /\ runs[conn.request] \in Nat /\ lost[conn.request] \in Nat
             /\ conn.state = "handled" => runs[conn.request] = lost[conn.request] + 1
             /\ conn.state = "reading" => /\ runs[conn.request] = lost[conn.request]
                                          /\ runs[conn.request] < MaxAttempts
  <2>1. PICK c \in Callers : Step(c) = "sent" /\ conn.request = Id(c) /\ Id(c) \in Ids
    BY <1>b, WaitsForServer
  <2>2. conn.request \in Pending
    BY <2>1 DEF Pending, IdsAt, Step, Id
  <2>3. /\ runs[conn.request] \in Nat /\ lost[conn.request] \in Nat
        /\ calls[c].attempt \in 0 .. MaxAttempts
    BY <2>1 DEF IInv, TypeOK, Call
  <2>4. /\ lost[conn.request] <= runs[conn.request]
        /\ runs[conn.request] <= lost[conn.request] + 1
        /\ conn.state = "handled" => lost[conn.request] < runs[conn.request]
    BY <2>1 DEF LostWereRun, IInv, RunsAgainOnlyIfLost
  <2>5. conn.state = "reading" => /\ runs[conn.request] <= lost[conn.request]
                                  /\ runs[conn.request] < calls[c].attempt
    BY <1>b, <2>1 DEF IInv, SentOK, Unanswered
  <2> QED  BY <2>1, <2>2, <2>3, <2>4, <2>5, AttemptsAssumption
<1>1. CASE Accept \/ Reply \/ CloseConnection \/ DaemonStarts \/ StopsListening
  <2>1. UNCHANGED <<runs, lost>>
    BY <1>1 DEF Accept, Reply, CloseConnection, DaemonStarts, StopsListening
  <2> QED  BY <1>a, <2>1 DEF Promise!vars
<1>2. CASE Handle
  <2>1. Promise!Run(conn.request)
    BY <1>2, <1>a, <1>b DEF Handle, Serve, Promise!Run, Promise!MayRun, Promise!OnceMore
  <2> QED  BY <1>2, <1>b, <2>1 DEF Handle, Serve, Promise!Next
<1>3. CASE Panic
  <2>1. PICK n \in {0, 1} : /\ runs' = [runs EXCEPT ![conn.request] = @ + n]
                           /\ lost' = [lost EXCEPT ![conn.request] = @ + n]
    BY <1>3 DEF Panic
  <2>2. CASE n = 0
    <3>1. runs' = runs /\ lost' = lost
      BY <1>3, <1>b, <2>1, <2>2 DEF Panic, Serve, IInv, TypeOK
    <3> QED  BY <1>a, <3>1 DEF Promise!vars
  <2>3. CASE n = 1
    <3>1. Promise!RunAndLose(conn.request)
      BY <1>3, <1>a, <1>b, <2>1, <2>3
         DEF Panic, Serve, Promise!RunAndLose, Promise!MayRun, Promise!OnceMore
    <3> QED  BY <1>3, <1>b, <3>1 DEF Panic, Serve, Promise!Next
  <2> QED  BY <2>2, <2>3
<1>4. CASE DaemonEnds
  <2>1. CASE conn.state = "handled"
    <3>1. Promise!Lose(conn.request)
      BY <1>4, <1>a, <1>b, <2>1 DEF DaemonEnds, Promise!Lose, Promise!OnceMore
    <3> QED  BY <1>b, <2>1, <3>1 DEF Promise!Next
  <2>2. CASE conn.state # "handled"
    BY <1>4, <1>a, <2>2 DEF DaemonEnds, Promise!vars
  <2> QED  BY <2>1, <2>2
<1> QED  BY <1>1, <1>2, <1>3, <1>4 DEF Connected

\* The calls of all threads together, through every death of a daemon, keep the
\* promise that RemoteCall states.
THEOREM CallsKeepSession == Spec => KeepsSession
<1>1. Init => Promise!Init
  BY BoundsAssumption DEF Init, Promise!Init, Asked, Pending, IdsAt
<1>2. IInv /\ LostWereRun /\ [Next]_vars => [Promise!Next]_Promise!vars
  <2>1. UNCHANGED vars => UNCHANGED Promise!vars
    BY DEF vars, client, Promise!vars, Asked, Pending, IdsAt
  <2> QED  BY <2>1, CallerPromises, ServerPromises DEF Next
<1> QED  BY <1>1, <1>2, LostInvariance, PTL DEF Spec, KeepsSession, Promise!Spec

-----------------------------------------------------------------------------
(* Calls get done. *)

\* The server has a step to take on the connection.
Attended ==
    \/ conn.state \in {"reading", "handled", "replied"}
    \/ conn.state = "backlog" /\ daemon.state = "listening"

\* Whoever waits for the mutex waits for a call that holds it and can go on, and
\* whoever waits for the connection waits for one that has ended or that the
\* server has a step to take on, in whatever way daemons and handlers end.
CallsCanGoOn ==
    \A c \in Callers :
        /\ Step(c) \in {"lock", "failed"} =>
              \/ holder = "nobody"
              \/ holder \in Callers /\ Step(holder) \in {"cached", "connect", "sent"}
        /\ Step(c) \in {"cached", "sent"} => conn.state = "closed" \/ Attended

\* How many steps a call is from its return, and a connection from its end.
CallLeft ==
    [step \in {"idle", "lock", "cached", "connect", "sent", "failed",
               "ok", "mismatch", "error"} |->
        CASE step = "lock" -> 6 [] step = "cached" -> 5 [] step = "connect" -> 4
          [] step = "sent" -> 3 [] step = "failed" -> 2
          [] step \in {"ok", "mismatch", "error"} -> 1 [] OTHER -> 0]

ServerLeft ==
    [state \in {"backlog", "reading", "handled", "replied", "closed"} |->
        CASE state = "backlog" -> 4 [] state = "reading" -> 3 [] state = "handled" -> 2
          [] state = "replied" -> 1 [] OTHER -> 0]

\* Whatever happens to a call is its next attempt or brings it nearer to its
\* return, and whatever happens to a connection brings that nearer to its end,
\* until a call makes another: no thread sets another's call back.
CallsAdvance ==
    [][/\ \A c \in Callers : Step(c) # "idle" /\ calls'[c] # calls[c] =>
             \/ calls'[c].attempt = calls[c].attempt + 1
             \/ /\ calls'[c].attempt = calls[c].attempt
                /\ CallLeft[Step(c)'] < CallLeft[Step(c)]
       /\ conn'.state # conn.state =>
             \/ \E c \in Callers : Step(c) = "connect" /\ Step(c)' = "sent"
             \/ ServerLeft[conn'.state] < ServerLeft[conn.state]]_vars

\* What was not accepted yet has a listener that may.
BacklogHasListener == conn.state = "backlog" => daemon.state = "listening"

LEMMA BacklogStep ==
  ASSUME IInv, BacklogHasListener, [Next]_vars
  PROVE  BacklogHasListener'
<1>1. ASSUME NEW c \in Callers, Send(c) \/ CallStep(c)
      PROVE  BacklogHasListener'
  <2>1. daemon' = daemon
    BY <1>1 DEF Send, CallStep, Enter, CachedFails, Connect, ConnectFails, ReadsReply,
                ReadFails, Retry, GiveUp, Return
  <2>2. CASE Connect(c)
    BY <2>1, <2>2 DEF Connect, BacklogHasListener
  <2>3. CASE ~Connect(c)
    <3>1. conn' = conn \/ conn' = [conn EXCEPT !.reply = 0]
      BY <1>1, <2>3 DEF Send, CallStep, Enter, CachedFails, ConnectFails, ReadsReply,
                        ReadFails, Retry, GiveUp, Return
    <3>2. conn'.state = conn.state
      BY <3>1 DEF IInv, TypeOK, Connection
    <3> QED  BY <2>1, <3>2 DEF BacklogHasListener
  <2> QED  BY <2>2, <2>3
<1>2. CASE Connected \/ Panic
  BY <1>2 DEF Connected, Accept, Handle, Reply, CloseConnection, Panic, Serve,
              BacklogHasListener, IInv, TypeOK, Connection
<1>3. CASE DaemonStarts
  BY <1>3 DEF DaemonStarts, BacklogHasListener
<1>4. CASE StopsListening \/ DaemonEnds
  BY <1>4 DEF StopsListening, DaemonEnds, BacklogHasListener, IInv, TypeOK, Connection
<1>5. CASE UNCHANGED vars
  BY <1>5 DEF vars, BacklogHasListener
<1> QED  BY <1>1, <1>2, <1>3, <1>4, <1>5 DEF Next

\* A thread that waits in send_command waits for something that can happen: the
\* mutex's holder and the server need nobody else.
THEOREM SessionsCanGoOn == Spec => []CallsCanGoOn
<1>1. Init => BacklogHasListener
  BY DEF Init, BacklogHasListener
<1>2. IInv /\ BacklogHasListener /\ [Next]_vars => BacklogHasListener'
  BY BacklogStep
<1>3. IInv /\ BacklogHasListener => CallsCanGoOn
  BY DEF IInv, TypeOK, Connection, Mutex, BacklogHasListener, CallsCanGoOn, Attended
<1> QED  BY <1>1, <1>2, <1>3, Invariance, PTL DEF Spec

\* A step of a call, by what it does to its own call and to the connection.
LEMMA CallNearer ==
  ASSUME IInv, NEW c \in Callers, CallStep(c)
  PROVE  /\ \A d \in Callers \ {c} : calls'[d] = calls[d]
         /\ \/ calls'[c].attempt = calls[c].attempt + 1
            \/ /\ calls'[c].attempt = calls[c].attempt
               /\ CallLeft[Step(c)'] < CallLeft[Step(c)]
         /\ conn'.state # conn.state => Step(c) = "connect" /\ Step(c)' = "sent"
<1>0. calls \in [Callers -> Call] /\ conn \in Connection
  BY DEF IInv, TypeOK
<1>1. CASE Retry(c)
  BY <1>0, <1>1 DEF Retry, Call
<1>2. ASSUME NEW step \in {"cached", "connect", "sent", "failed", "ok", "mismatch", "error", "idle"},
             Goto(c, step), CallLeft[step] < CallLeft[Step(c)]
      PROVE  /\ \A d \in Callers \ {c} : calls'[d] = calls[d]
             /\ calls'[c].attempt = calls[c].attempt /\ CallLeft[Step(c)'] < CallLeft[Step(c)]
             /\ Step(c)' = step
  BY <1>0, <1>2 DEF Call, Step
<1>3. CASE Enter(c)
  <2>1. PICK step \in {"cached", "connect"} : Goto(c, step) /\ Step(c) = "lock" /\ conn' = conn
    BY <1>3 DEF Enter, Step
  <2>2. CallLeft[step] < CallLeft[Step(c)]
    BY <2>1 DEF CallLeft
  <2> QED  BY <1>2, <2>1, <2>2
<1>4. CASE CachedFails(c)
  BY <1>2, <1>4 DEF CachedFails, Step, CallLeft
<1>5. CASE Connect(c)
  <2>1. Goto(c, "sent") /\ Step(c) = "connect"
    BY <1>5 DEF Connect, Step
  <2> QED  BY <1>2, <2>1 DEF CallLeft
<1>6. CASE ConnectFails(c) \/ ReadFails(c)
  <2>1. Goto(c, "failed") /\ Step(c) \in {"connect", "sent"} /\ conn' = conn
    BY <1>6 DEF ConnectFails, ReadFails, Step
  <2> QED  BY <1>2, <2>1 DEF CallLeft
<1>7. CASE ReadsReply(c)
  <2>1. PICK step \in {"ok", "mismatch"} : Goto(c, step) /\ Step(c) = "sent"
    BY <1>7 DEF ReadsReply, Step
  <2>2. conn'.state = conn.state
    BY <1>0, <1>7 DEF ReadsReply, Connection
  <2>3. CallLeft[step] < CallLeft[Step(c)]
    BY <2>1 DEF CallLeft
  <2> QED  BY <1>2, <2>1, <2>2, <2>3
<1>8. CASE GiveUp(c)
  <2>1. Goto(c, "error") /\ Step(c) = "failed" /\ conn' = conn
    BY <1>8 DEF GiveUp, Step
  <2> QED  BY <1>2, <2>1 DEF CallLeft
<1>9. CASE Return(c)
  <2>1. Goto(c, "idle") /\ Step(c) \in {"ok", "mismatch", "error"} /\ conn' = conn
    BY <1>9 DEF Return, Step
  <2> QED  BY <1>2, <2>1 DEF CallLeft
<1> QED  BY <1>1, <1>3, <1>4, <1>5, <1>6, <1>7, <1>8, <1>9 DEF CallStep, Retry

\* With at most MaxAttempts attempts a call and at most four steps a connection,
\* what is left of CallsReturn is that threads and tasks run.
THEOREM SessionsGetDone == Spec => CallsAdvance
<1> DEFINE Nearer ==
      /\ \A c \in Callers : Step(c) # "idle" /\ calls'[c] # calls[c] =>
             \/ calls'[c].attempt = calls[c].attempt + 1
             \/ /\ calls'[c].attempt = calls[c].attempt
                /\ CallLeft[Step(c)'] < CallLeft[Step(c)]
      /\ conn'.state # conn.state =>
             \/ \E c \in Callers : Step(c) = "connect" /\ Step(c)' = "sent"
             \/ ServerLeft[conn'.state] < ServerLeft[conn.state]
<1>1. ASSUME IInv, [Next]_vars
      PROVE  Nearer
  <2>1. ASSUME NEW c \in Callers, Send(c)
        PROVE  Nearer
    <3>1. Step(c) = "idle" /\ conn' = conn /\ \A d \in Callers \ {c} : calls'[d] = calls[d]
      BY <1>1, <2>1 DEF Send, Step, IInv, TypeOK
    <3> QED  BY <3>1
  <2>2. ASSUME NEW c \in Callers, CallStep(c)
        PROVE  Nearer
    BY <1>1, <2>2, CallNearer
  <2>3. CASE Connected \/ Panic \/ DaemonStarts \/ StopsListening \/ DaemonEnds
    <3>1. calls' = calls
      BY <2>3 DEF Connected, Accept, Handle, Reply, CloseConnection, Panic, DaemonStarts,
                  StopsListening, DaemonEnds, client
    <3>2. \/ conn'.state = conn.state \/ conn'.state = "closed"
          \/ conn.state = "backlog" /\ conn'.state = "reading"
          \/ conn.state = "reading" /\ conn'.state = "handled"
          \/ conn.state = "handled" /\ conn'.state = "replied"
      BY <1>1, <2>3 DEF Connected, Accept, Handle, Reply, CloseConnection, Panic, DaemonStarts,
                        StopsListening, DaemonEnds, Serve, IInv, TypeOK, Connection
    <3>3. conn.state \in {"backlog", "reading", "handled", "replied", "closed"}
      BY <1>1 DEF IInv, TypeOK, Connection
    <3>4. conn'.state # conn.state => ServerLeft[conn'.state] < ServerLeft[conn.state]
      BY <3>2, <3>3 DEF ServerLeft
    <3> QED  BY <3>1, <3>4
  <2>4. CASE UNCHANGED vars
    BY <2>4 DEF vars, client
  <2> QED  BY <1>1, <2>1, <2>2, <2>3, <2>4 DEF Next
<1>2. IInv /\ [Next]_vars => [Nearer]_vars
  BY <1>1
<1> QED  BY <1>2, Invariance, PTL DEF Spec, CallsAdvance

=============================================================================
