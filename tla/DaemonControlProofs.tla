------------------------- MODULE DaemonControlProofs ------------------------
(***************************************************************************)
(* Proofs about DaemonControl, for any number of pids and stop commands.   *)
(***************************************************************************)
EXTENDS DaemonControl, TLAPS

USE DEF Goto, GotoStop

-----------------------------------------------------------------------------
(* Typing. *)

\* Dying keeps the types of what it changes.
LEMMA DiesTyped ==
  ASSUME TypeOK, NEW p \in Pids, Dies(p)
  PROVE  /\ step' \in [Pids -> Steps]
         /\ serving' \subseteq Past' /\ quits' \subseteq Past'
         /\ pidfile' \in PidFile
         /\ socket' \in Pids \cup {"nothing", "stale"}
<1>1. step' \in [Pids -> Steps] /\ step'[p] = "free"
  BY SMT DEF TypeOK, Dies, Steps
<1>2. \A q \in Pids \ {p} : step'[q] = step[q]
  BY DEF TypeOK, Dies
<1>3. serving' \subseteq Past' /\ quits' \subseteq Past'
  BY <1>1, <1>2 DEF TypeOK, Dies, Past
<1>4. pidfile' \in PidFile
  BY DEF TypeOK, Dies, PidFile
<1> QED  BY <1>1, <1>3, <1>4 DEF TypeOK, Dies

\* A step of a daemon's process, or of another that has its pid, keeps types.
LEMMA DaemonStepTyped ==
  ASSUME TypeOK, NEW p \in Pids, DaemonStep(p) \/ StrangerStarts(p) \/ Killed(p)
  PROVE  /\ step' \in [Pids -> Steps]
         /\ serving' \subseteq Past' /\ quits' \subseteq Past'
         /\ pidfile' \in PidFile
         /\ socket' \in Pids \cup {"nothing", "stale"}
         /\ stops' = stops
<1>1. CASE \/ Refused(p) \/ RegisterFails(p) \/ NewFails(p) \/ Exit(p)
           \/ HandlerExits(p) \/ Killed(p)
  BY <1>1, DiesTyped DEF Refused, RegisterFails, NewFails, Exit, HandlerExits, Killed
<1>2. CASE \/ Launch(p) \/ FindsNone(p) \/ RemoveStale(p) \/ Create(p) \/ UnlinkSocket(p)
           \/ InitFails(p) \/ Close(p) \/ Unregister(p) \/ StrangerStarts(p)
  <2>1. \E s \in Steps :
          /\ step' = [step EXCEPT ![p] = s]
          /\ s \in {"stranger", "check"} => step[p] = "free"
          /\ s # "free"
    BY <1>2 DEF Launch, FindsNone, RemoveStale, Create, UnlinkSocket, InitFails, Close,
                Unregister, StrangerStarts, Steps
  <2>2. step' \in [Pids -> Steps]
    BY <2>1 DEF TypeOK
  <2>3. serving' = serving /\ quits' = quits /\ stops' = stops
    BY <1>2 DEF Launch, FindsNone, RemoveStale, Create, UnlinkSocket, InitFails, Close,
                Unregister, StrangerStarts
  <2>4. \A q \in Past : q \in Past'
    BY <2>1 DEF TypeOK, Past
  <2>5. pidfile' \in PidFile
    <3>1. NoFile \in PidFile
      BY DEF NoFile, PidFile
    <3>2. [there |-> TRUE, text |-> "nothing", open |-> pidfile.open \cup {p}] \in PidFile
      BY DEF TypeOK, PidFile
    <3> QED  BY <1>2, <3>1, <3>2 DEF Launch, FindsNone, RemoveStale, Create, UnlinkSocket,
                InitFails, Close, Unregister, StrangerStarts, TypeOK
  <2>6. socket' \in Pids \cup {"nothing", "stale"}
    BY <1>2 DEF Launch, FindsNone, RemoveStale, Create, UnlinkSocket, InitFails, Close,
                Unregister, StrangerStarts, TypeOK
  <2> QED  BY <2>2, <2>3, <2>4, <2>5, <2>6 DEF TypeOK
<1>3. CASE Fill(p)
  <2>1. step' \in [Pids -> Steps] /\ Past' = Past
    BY <1>3 DEF Fill, TypeOK, Steps, Past
  <2>2. pidfile' \in PidFile
    BY <1>3 DEF Fill, TypeOK, PidFile
  <2> QED  BY <1>3, <2>1, <2>2 DEF Fill, TypeOK
<1>4. CASE Bind(p)
  <2>1. step' \in [Pids -> Steps] /\ Past' = Past /\ p \in Past
    BY <1>4 DEF Bind, TypeOK, Steps, Past
  <2> QED  BY <1>4, <2>1 DEF Bind, TypeOK
<1>5. CASE DropServer(p)
  BY <1>5 DEF DropServer, TypeOK, Past
<1>6. CASE Interrupted(p)
  BY <1>6 DEF Interrupted, TypeOK, Past, PidFile, NoFile
<1> QED  BY <1>1, <1>2, <1>3, <1>4, <1>5, <1>6 DEF DaemonStep

\* A step of a stop command keeps types.
LEMMA StopStepTyped ==
  ASSUME TypeOK, NEW s \in Stoppers, StopStep(s)
  PROVE  /\ step' \in [Pids -> Steps]
         /\ serving' \subseteq Past' /\ quits' \subseteq Past'
         /\ pidfile' \in PidFile
         /\ socket' \in Pids \cup {"nothing", "stale"}
         /\ stops' \in [Stoppers -> StopCommand]
<1> DEFINE Same == UNCHANGED <<step, serving, quits, pidfile, socket>>
<1>1. ASSUME NEW to \in StopSteps, GotoStop(s, to), stops[s].step # "idle"
      PROVE  stops' \in [Stoppers -> StopCommand]
  <2>1. stops[s] \in [step : StopSteps, pid : Pids]
    BY <1>1 DEF TypeOK, StopCommand, Idle
  <2>2. [stops[s] EXCEPT !.step = to] \in [step : StopSteps, pid : Pids]
    BY <2>1
  <2> QED  BY <1>1, <2>2 DEF TypeOK, StopCommand
<1>2. CASE BeginStop(s)
  BY <1>2 DEF BeginStop, TypeOK, StopSteps, StopCommand, Past
<1>3. CASE \/ SignalFails(s) \/ PollFindsNone(s) \/ TimesOut(s) \/ LateFindsNone(s) \/ AfterKill(s)
  <2>1. Same /\ stops[s].step # "idle" /\ \E to \in StopSteps : GotoStop(s, to)
    BY <1>3 DEF SignalFails, PollFindsNone, TimesOut, LateFindsNone, AfterKill, StopSteps
  <2> QED  BY <1>1, <2>1 DEF TypeOK, Past
<1>4. CASE SendTerm(s) \/ SendKill(s)
  <2>1. stops[s].step # "idle" /\ \E to \in StopSteps : GotoStop(s, to)
    BY <1>4 DEF SendTerm, SendKill, StopSteps
  <2>2. Same \/ Dies(stops[s].pid)
    BY <1>4 DEF SendTerm, SendKill
  <2>3. stops[s].pid \in Pids
    BY <2>1 DEF TypeOK, StopCommand, Idle
  <2> QED  BY <1>1, <2>1, <2>2, <2>3, DiesTyped DEF TypeOK, Past
<1>5. CASE Remove(s)
  BY <1>1, <1>5 DEF Remove, TypeOK, StopSteps, Past, PidFile, NoFile
<1>6. CASE StopReturns(s)
  BY <1>6 DEF StopReturns, TypeOK, StopCommand, Past
<1> QED  BY <1>2, <1>3, <1>4, <1>5, <1>6 DEF StopStep

LEMMA InitTyped == Init => TypeOK
<1>1. NoFile \in PidFile
  BY DEF NoFile, PidFile
<1>2. Idle \in StopCommand
  BY DEF StopCommand
<1> QED  BY <1>1, <1>2 DEF Init, TypeOK, Steps, Past

THEOREM TypeCorrectness == Spec => []TypeOK
<1>1. Init => TypeOK
  BY InitTyped
<1>2. TypeOK /\ [Next]_vars => TypeOK'
  <2> SUFFICES ASSUME TypeOK, [Next]_vars PROVE TypeOK'
    OBVIOUS
  <2>1. CASE Next
    <3>1. overlap' \in BOOLEAN
      BY <2>1 DEF Next
    <3>2. CASE \E p \in Pids : DaemonStep(p) \/ StrangerStarts(p) \/ Killed(p)
      BY <3>1, <3>2, DaemonStepTyped DEF TypeOK
    <3>3. CASE \E s \in Stoppers : StopStep(s)
      BY <3>1, <3>3, StopStepTyped DEF TypeOK
    <3> QED  BY <2>1, <3>2, <3>3 DEF Next, Step
  <2>2. CASE UNCHANGED vars
    BY <2>2 DEF vars, TypeOK, Past
  <2> QED  BY <2>1, <2>2
<1> QED  BY <1>1, <1>2, PTL DEF Spec

-----------------------------------------------------------------------------
(***************************************************************************)
(* While nothing overlaps: the daemon that starts is alone in looking for  *)
(* others, so that it finds the pid file naming the daemon there is, if    *)
(* there is one; what a stop removes is no running daemon's.               *)
(***************************************************************************)

Alone   == \A p, q \in Past : p = q
Named   == \A p \in Registered : Names(p)
Filling == \A p \in Pids : step[p] = "fill" =>
             pidfile.there /\ pidfile.text = "nothing" /\ p \in pidfile.open
Bound   == \A p \in Pids : /\ step[p] = "bind" => socket = "nothing"
                           /\ step[p] = "serve" => socket = p
Removes == \A s \in Stoppers : stops[s].step \in {"remove", "ok"} => Registered = {}

Apart == ~Crowded /\ Alone /\ Named /\ Filling /\ Bound /\ Removes

IInv == TypeOK /\ (~overlap => Apart)

\* Where no daemon and no stop is left, whatever files there are are harmless.
LEMMA QuietApart == TypeOK /\ Quiet => Apart
BY DEF Quiet, Apart, Crowded, Alone, Named, Filling, Bound, Removes, Past, Registered, Stopping

\* The death of a process disturbs no other.
LEMMA DiesApart ==
  ASSUME TypeOK, Apart, NEW p \in Pids, Dies(p)
  PROVE  Alone' /\ Named' /\ Filling' /\ Bound' /\ Registered' \subseteq Registered
<1>1. \A q \in Pids : step'[q] = IF q = p THEN "free" ELSE step[q]
  BY DEF Dies, TypeOK
<1>2. Past' \subseteq Past /\ p \notin Past'
  BY <1>1 DEF Past
<1>3. Registered' \subseteq Registered \ {p}
  BY <1>1, <1>2 DEF Registered, Registering, Dies
<1>4. pidfile'.there = pidfile.there /\ pidfile'.text = pidfile.text
      /\ pidfile'.open = pidfile.open \ {p}
  BY DEF Dies, TypeOK, PidFile
<1>5. Alone'
  BY <1>2 DEF Apart, Alone
<1>6. Named'
  BY <1>3, <1>4 DEF Apart, Named, Names
<1>7. Filling'
  BY <1>1, <1>4 DEF Apart, Filling
<1>8. Bound'
  BY <1>1, PidsAssumption DEF Apart, Bound, Dies
<1> QED  BY <1>3, <1>5, <1>6, <1>7, <1>8

\* A daemon that finds no other is the only one.
LEMMA FindsNoneAlone ==
  ASSUME TypeOK, Apart, NEW p \in Pids, FindsNone(p)
  PROVE  Past = {}
<1> SUFFICES ASSUME NEW q \in Past PROVE FALSE
  OBVIOUS
<1>1. q # p /\ Unnamed = {p}
  BY DEF FindsNone, Apart, Crowded, Past, Unnamed
<1>2. q \in Registered
  BY <1>1 DEF Registered, Registering, Past, Unnamed
<1>3. Names(q)
  BY <1>2 DEF Apart, Named
<1> QED  BY <1>3 DEF FindsNone, IsRunning, Past

LEMMA DaemonStepApart ==
  ASSUME TypeOK, Apart, NEW p \in Pids, DaemonStep(p) \/ StrangerStarts(p) \/ Killed(p)
  PROVE  Alone' /\ Named' /\ Filling' /\ Bound' /\ Removes'
<1>0. \A q \in Past : p \in Past => q = p
  BY DEF Apart, Alone
<1>s. stops' = stops
  BY DaemonStepTyped
<1>1. CASE \/ Refused(p) \/ RegisterFails(p) \/ NewFails(p) \/ Exit(p)
           \/ HandlerExits(p) \/ Killed(p)
  <2>1. Dies(p)
    BY <1>1 DEF Refused, RegisterFails, NewFails, Exit, HandlerExits, Killed
  <2> QED  BY <1>s, <2>1, DiesApart DEF Apart, Removes
<1>2. CASE Launch(p) \/ StrangerStarts(p)
  <2>1. \A q \in Pids : step'[q] # step[q] => step[q] = "free" /\ step'[q] \in {"check", "stranger"}
    BY <1>2 DEF Launch, StrangerStarts, TypeOK
  <2>2. UNCHANGED <<serving, quits, pidfile, socket, stops>>
    BY <1>2 DEF Launch, StrangerStarts
  <2>3. Past' = Past /\ Registered' = Registered
    BY <2>1, <2>2 DEF Past, Registered, Registering
  <2> QED  BY <2>1, <2>2, <2>3 DEF Apart, Alone, Named, Names, Filling, Bound, Removes
<1>3. CASE FindsNone(p)
  <2>1. Past = {} /\ Past' = {p}
    BY <1>3, FindsNoneAlone DEF FindsNone, TypeOK, Past
  <2>2. Registered' = {} /\ step'[p] = "clean"
    BY <1>3, <2>1 DEF FindsNone, TypeOK, Registered, Registering
  <2> QED  BY <2>1, <2>2 DEF Alone, Named, Filling, Bound, Removes, Past
<1>4. CASE RemoveStale(p) \/ Create(p)
  <2>1. Past' = {p} /\ step'[p] \in {"create", "fill"}
    BY <1>0, <1>4 DEF RemoveStale, Create, TypeOK, Past
  <2>2. Registered' = {}
    BY <2>1 DEF Registered, Registering
  <2>3. Create(p) => pidfile'.there /\ pidfile'.text = "nothing" /\ p \in pidfile'.open
    BY DEF Create
  <2>4. RemoveStale(p) => step'[p] = "create"
    BY DEF RemoveStale, TypeOK
  <2> QED  BY <1>4, <2>1, <2>2, <2>3, <2>4 DEF Alone, Named, Filling, Bound, Removes, Past
<1>5. CASE Fill(p)
  <2>1. Past' = {p} /\ step'[p] = "init"
    BY <1>0, <1>5 DEF Fill, TypeOK, Past
  <2>2. Names(p)'
    BY <1>5 DEF Fill, Apart, Filling, Names, TypeOK, PidFile
  <2>3. Registered' \subseteq {p}
    BY <2>1 DEF Registered
  <2>4. Stopping = {}
    BY <1>5 DEF Fill, Apart, Crowded
  <2> QED  BY <1>s, <2>1, <2>2, <2>3, <2>4 DEF Alone, Named, Filling, Bound, Removes, Past, Stopping
<1>6. CASE UnlinkSocket(p) \/ Bind(p) \/ InitFails(p) \/ Close(p)
  <2>1. Past = {p} /\ Past' = {p} /\ step'[p] \in {"bind", "serve", "closing"}
    BY <1>0, <1>6 DEF UnlinkSocket, Bind, InitFails, Close, TypeOK, Past
  <2>2. Registered' = Registered
    BY <1>6, <2>1 DEF UnlinkSocket, Bind, InitFails, Close, Registered, Registering
  <2>3. pidfile' = pidfile
    BY <1>6 DEF UnlinkSocket, Bind, InitFails, Close
  <2>4. /\ step'[p] = "bind" => socket' = "nothing"
        /\ step'[p] = "serve" => socket' = p
    BY <1>6 DEF UnlinkSocket, Bind, InitFails, Close, TypeOK
  <2> QED  BY <1>s, <2>1, <2>2, <2>3, <2>4
           DEF Apart, Alone, Named, Names, Filling, Bound, Removes, Past
<1>7. CASE DropServer(p) \/ Unregister(p)
  <2>1. Past = {p} /\ Past' = {p} /\ step'[p] \in {"closing", "left"}
    BY <1>0, <1>7 DEF DropServer, Unregister, TypeOK, Past
  <2>2. Registered' \subseteq Registered
    BY <1>7, <2>1 DEF DropServer, Unregister, Registered, Registering
  <2>3. Unregister(p) => Registered' = {}
    BY <2>1 DEF Unregister, Registered, TypeOK
  <2>4. DropServer(p) => pidfile' = pidfile
    BY DEF DropServer
  <2> QED  BY <1>s, <1>7, <2>1, <2>2, <2>3, <2>4
           DEF Apart, Alone, Named, Names, Filling, Bound, Removes, Past
<1>8. CASE Interrupted(p)
  <2>1. Past = {p} /\ step' = step /\ step[p] # "fill" /\ socket' = socket
    BY <1>0, <1>8 DEF Interrupted, Past, Registering
  <2>2. Registered' = {}
    BY <1>8, <2>1 DEF Interrupted, Registered, Past
  <2> QED  BY <2>1, <2>2 DEF Apart, Alone, Named, Filling, Bound, Removes, Past
<1> QED  BY <1>1, <1>2, <1>3, <1>4, <1>5, <1>6, <1>7, <1>8 DEF DaemonStep

LEMMA StopStepApart ==
  ASSUME TypeOK, Apart, NEW s \in Stoppers, StopStep(s)
  PROVE  Alone' /\ Named' /\ Filling' /\ Bound' /\ Removes'
<1> DEFINE Same == UNCHANGED <<step, serving, quits, pidfile, socket>>
<1>1. ASSUME Same PROVE Alone' /\ Named' /\ Filling' /\ Bound' /\ Registered' = Registered
  <2>1. Past' = Past /\ Registered' = Registered
    BY <1>1 DEF Past, Registered, Registering
  <2> QED  BY <1>1, <2>1 DEF Apart, Alone, Named, Names, Filling, Bound
<1>2. ASSUME NEW to, GotoStop(s, to), Registered' \subseteq Registered,
             to \in {"remove", "ok"} => Registered' = {}
      PROVE  Removes'
  <2>1. \A t \in Stoppers : stops'[t].step = IF t = s THEN to ELSE stops[t].step
    BY <1>2 DEF TypeOK, StopCommand, Idle
  <2> QED  BY <1>2, <2>1 DEF Apart, Removes
<1>3. ~IsRunning => Registered = {}
  BY DEF Apart, Named, IsRunning, Registered, Past
<1>4. CASE BeginStop(s) \/ StopReturns(s)
  <2>1. Same /\ \A t \in Stoppers : t # s => stops'[t] = stops[t]
    BY <1>4 DEF BeginStop, StopReturns, TypeOK
  <2>2. stops'[s].step \in {"term", "idle"}
    BY <1>4 DEF BeginStop, StopReturns, Idle, TypeOK
  <2> QED  BY <1>1, <2>1, <2>2 DEF Apart, Removes
<1>5. CASE SignalFails(s) \/ TimesOut(s)
  <2>1. Same /\ \E to \in {"error", "late"} : GotoStop(s, to)
    BY <1>5 DEF SignalFails, TimesOut
  <2> QED  BY <1>1, <1>2, <2>1
<1>6. CASE SendTerm(s) \/ SendKill(s)
  <2>1. /\ stops[s].step \in {"term", "late"}
        /\ \E to \in {"poll", "after"} : GotoStop(s, to)
        /\ Same \/ Dies(stops[s].pid)
    BY <1>6 DEF SendTerm, SendKill
  <2>2. stops[s].pid \in Pids
    BY <2>1 DEF TypeOK, StopCommand, Idle
  <2> QED  BY <1>1, <1>2, <2>1, <2>2, DiesApart
<1>7. CASE PollFindsNone(s) \/ LateFindsNone(s) \/ AfterKill(s)
  <2>1. Same /\ \E to \in {"remove", "ok", "error"} :
                  GotoStop(s, to) /\ (to # "error" => ~IsRunning)
    BY <1>7 DEF PollFindsNone, LateFindsNone, AfterKill
  <2> QED  BY <1>1, <1>2, <1>3, <2>1
<1>8. CASE Remove(s)
  <2>1. Registered = {} /\ s \in Stopping
    BY <1>8 DEF Remove, Apart, Removes, Stopping
  <2>2. \A p \in Pids : step[p] # "fill"
    BY <2>1 DEF Apart, Crowded
  <2>3. UNCHANGED <<step, serving, quits, socket>>
    BY <1>8 DEF Remove
  <2>4. Past' = Past /\ Registered' = {}
    BY <2>1, <2>3 DEF Past, Registered, Registering
  <2>5. Removes'
    BY <2>4 DEF Removes
  <2> QED  BY <2>2, <2>3, <2>4, <2>5 DEF Apart, Alone, Named, Filling, Bound
<1> QED  BY <1>4, <1>5, <1>6, <1>7, <1>8 DEF StopStep

LEMMA Invariance == Spec => []IInv
<1>1. Init => IInv
  <2>1. Init => Quiet
    BY DEF Init, Quiet, Stopping, Idle
  <2>2. Init => TypeOK
    BY InitTyped
  <2> QED  BY <2>1, <2>2, QuietApart DEF IInv
<1>2. IInv /\ TypeOK' /\ [Next]_vars => IInv'
  <2> SUFFICES ASSUME IInv, TypeOK', [Next]_vars, ~overlap' PROVE Apart'
    BY DEF IInv
  <2>1. CASE Next
    <3>1. CASE Quiet'
      <4>1. (TypeOK /\ Quiet => Apart)'
        BY QuietApart, PTL
      <4> QED  BY <3>1, <4>1
    <3>2. CASE ~Quiet'
      <4>1. ~overlap /\ ~Crowded'
        BY <2>1, <3>2 DEF Next, IInv, TypeOK
      <4>2. Alone' /\ Named' /\ Filling' /\ Bound' /\ Removes'
        BY <2>1, <4>1, DaemonStepApart, StopStepApart DEF Next, Step, IInv
      <4> QED  BY <4>1, <4>2 DEF Apart
    <3> QED  BY <3>1, <3>2
  <2>2. CASE UNCHANGED vars
    BY <2>2 DEF vars, IInv, Apart, Crowded, Unnamed, Stopping, Alone, Named, Names, Filling,
                Bound, Removes, Past, Registered, Registering
  <2> QED  BY <2>1, <2>2
<1> QED  BY <1>1, <1>2, TypeCorrectness, PTL DEF Spec

-----------------------------------------------------------------------------
\* However many daemons are started and stopped one after the other, with
\* kills, failures and recycled pids at any point: there is one daemon.
THEOREM OneDaemonAtATime == Spec => []OneDaemon
<1>1. IInv => OneDaemon
  BY DEF IInv, Apart, Alone, OneDaemon
<1> QED  BY <1>1, Invariance, PTL

\* ... the pid file names it from its registration to its end,
THEOREM PidFileIsKept == Spec => []PidFileNamesDaemon
<1>1. IInv => PidFileNamesDaemon
  BY DEF IInv, Apart, Named, PidFileNamesDaemon
<1> QED  BY <1>1, Invariance, PTL

\* ... it finds the socket path free and keeps it,
THEOREM SocketIsKept == Spec => []SocketIsServed
<1>1. IInv => SocketIsServed
  BY DEF IInv, Apart, Bound, SocketIsServed
<1> QED  BY <1>1, Invariance, PTL

\* ... and a stop that succeeds leaves none.
THEOREM StopsSucceed == Spec => []StopSucceeds
<1>1. IInv => StopSucceeds
  BY DEF IInv, Apart, Removes, StopSucceeds
<1> QED  BY <1>1, Invariance, PTL

=============================================================================
