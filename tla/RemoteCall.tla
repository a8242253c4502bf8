----------------------------- MODULE RemoteCall -----------------------------
(***************************************************************************)
(* What send_command promises, without connections, threads or daemons: a  *)
(* request has its effect only while its call lasts, again only when the   *)
(* answer to the last effect was lost, and as often as there are attempts  *)
(* at most; an answer stands for exactly one effect that was not lost, and *)
(* an error for none.                                                      *)
(***************************************************************************)
EXTENDS Naturals

CONSTANTS
    Requests, \* what is asked for, each once
    Attempts  \* how often a request is tried

VARIABLES
    asked,    \* the requests made so far
    pending,  \* the requests whose caller waits
    answered, \* the requests whose caller has an answer to return with
    failed,   \* the requests whose caller has an error to return with
    effects,  \* request -> how often it has had its effect
    lost      \* request -> how many of these effects lost their answer

vars == <<asked, pending, answered, failed, effects, lost>>

OnceMore(count, r) == [count EXCEPT ![r] = @ + 1]

-----------------------------------------------------------------------------
Init ==
    /\ asked = {} /\ pending = {} /\ answered = {} /\ failed = {}
    /\ effects = [r \in Requests |-> 0]
    /\ lost = [r \in Requests |-> 0]

Ask(r) ==
    /\ r \notin asked
    /\ asked' = asked \cup {r}
    /\ pending' = pending \cup {r}
    /\ UNCHANGED <<answered, failed, effects, lost>>

MayRun(r) == r \in pending /\ effects[r] = lost[r] /\ effects[r] < Attempts

Run(r) ==
    /\ MayRun(r)
    /\ effects' = OnceMore(effects, r)
    /\ UNCHANGED <<asked, pending, answered, failed, lost>>

RunAndLose(r) ==
    /\ MayRun(r)
    /\ effects' = OnceMore(effects, r)
    /\ lost' = OnceMore(lost, r)
    /\ UNCHANGED <<asked, pending, answered, failed>>

Lose(r) ==
    /\ r \in pending
    /\ effects[r] = lost[r] + 1
    /\ lost' = OnceMore(lost, r)
    /\ UNCHANGED <<asked, pending, answered, failed, effects>>

Answer(r) ==
    /\ r \in pending
    /\ effects[r] = lost[r] + 1
    /\ pending' = pending \ {r}
    /\ answered' = answered \cup {r}
    /\ UNCHANGED <<asked, failed, effects, lost>>

Fail(r) ==
    /\ r \in pending
    /\ effects[r] = lost[r]
    /\ pending' = pending \ {r}
    /\ failed' = failed \cup {r}
    /\ UNCHANGED <<asked, answered, effects, lost>>

Return(r) ==
    /\ r \in answered \cup failed
    /\ answered' = answered \ {r}
    /\ failed' = failed \ {r}
    /\ UNCHANGED <<asked, pending, effects, lost>>

Next ==
    \E r \in Requests :
        \/ Ask(r)
        \/ Run(r) \/ RunAndLose(r) \/ Lose(r)
        \/ Answer(r) \/ Fail(r) \/ Return(r)

Spec == Init /\ [][Next]_vars

=============================================================================
