---------------------------- MODULE RestartPolicy ----------------------------
(***************************************************************************)
(* When the daemon restarts one crashing process and how long it waits     *)
(* first (src/process/restart.rs, used by try_auto_restart): a budget of   *)
(* restarts in a sliding window of wall-clock time, and a delay that       *)
(* doubles with every restart there has ever been.  ProcessManager lets    *)
(* the window slide at will; here time is explicit, in seconds.            *)
(*                                                                         *)
(* What is abstracted: the process's other states, and who finds the crash *)
(* out.  A restart's timestamp is kept as its age, which stops growing at  *)
(* Horizon: nothing reads an age beyond it.                                *)
(***************************************************************************)
EXTENDS Integers, FiniteSets, Sequences

CONSTANTS
    Enabled,      \* autorestart
    MaxRestarts,  \* max_restarts
    Window,       \* time_window_secs
    InitialDelay, \* initial_delay_secs
    MaxDelay,     \* max_delay_secs of the exponential strategy
    MaxUint,      \* the largest value of a delay's integer type (u64)
    StepBack,     \* by how much the wall clock is set back, once; 0 for never
    CountBound    \* bound: restarts ever recorded

ASSUME PolicyAssumption ==
    /\ Enabled \in BOOLEAN
    /\ {MaxRestarts, InitialDelay, StepBack, CountBound} \subseteq Nat
    /\ {Window, MaxDelay, MaxUint} \subseteq Nat \ {0}
    /\ MaxDelay <= MaxUint

\* Arithmetic that the provers lack: they know nothing of ^.
ASSUME PowersAssumption ==
    /\ 2 ^ 0 = 1
    /\ \A n \in 0 .. CountBound - 1 : 2 ^ (n + 1) = 2 * 2 ^ n

VARIABLES
    phase,   \* what the process is doing
    wait,    \* what is left of the sleep before a restart
    ages,    \* restart_times: how long ago each restart was
    autos,   \* history: which of them were automatic
    stepped  \* how many there were when the wall clock was set back, or -1

vars == <<phase, wait, ages, autos, stepped>>

\* up: Running; dead: crashed and not yet handled; backoff: try_auto_restart
\* sleeps, with the manager's lock held; down: Errored, and left alone.
Phases == {"up", "dead", "backoff", "down"}

Horizon == Window + MaxDelay + StepBack

Restarts == DOMAIN ages

LeastOf(a, b) == IF a <= b THEN a ELSE b

-----------------------------------------------------------------------------
(* BackoffStrategy::calculate_delay, in saturating arithmetic. *)

SaturatingPow(restarts) == LeastOf(2 ^ restarts, MaxUint)

\* Mutant: the product wraps.
WrappingDelay(restarts) ==
    LeastOf((InitialDelay * SaturatingPow(restarts)) % (MaxUint + 1), MaxDelay)

\* Mutant: the delay does not grow.
FixedDelay(restarts) == LeastOf(InitialDelay, MaxDelay)

Delay(restarts) ==
    LeastOf(LeastOf(InitialDelay * SaturatingPow(restarts), MaxUint), MaxDelay)

-----------------------------------------------------------------------------
(* RestartTracker. *)

\* duration_since: the age the wall clock shows, negative once set back.
WallAge(i) == IF i <= stepped THEN ages[i] - StepBack ELSE ages[i]

\* A restart in the future of the clock is not counted.
CountRecent == Cardinality({i \in Restarts : 0 <= WallAge(i) /\ WallAge(i) < Window})

\* Mutant: one restart too many.
ShouldRestartOnce == Enabled /\ CountRecent <= MaxRestarts

ShouldRestart == Enabled /\ CountRecent < MaxRestarts

RecordRestart == ages' = Append(ages, 0)

-----------------------------------------------------------------------------
Init ==
    /\ phase = "up"
    /\ wait = 0
    /\ ages = <<>>
    /\ autos = {}
    /\ stepped = -1

\* A second passes; the sleep ends on time.
Tick ==
    /\ phase = "backoff" => wait > 0
    /\ ages' = [i \in Restarts |-> LeastOf(ages[i] + 1, Horizon)]
    /\ wait' = IF wait > 0 THEN wait - 1 ELSE 0
    /\ UNCHANGED <<phase, autos, stepped>>

\* The wall clock is corrected; the sleep runs on the monotonic clock.
ClockStepsBack ==
    /\ StepBack > 0
    /\ stepped = -1
    /\ stepped' = Len(ages)
    /\ UNCHANGED <<phase, wait, ages, autos>>

Crash ==
    /\ phase = "up"
    /\ phase' = "dead"
    /\ UNCHANGED <<wait, ages, autos, stepped>>

\* try_auto_restart up to its sleep.  Nobody looks at the entry again when the
\* policy refuses.
TryAutoRestart ==
    /\ phase = "dead"
    /\ IF ShouldRestart
       THEN phase' = "backoff" /\ wait' = Delay(Len(ages))
       ELSE phase' = "down" /\ wait' = 0
    /\ UNCHANGED <<ages, autos, stepped>>

AutoRestart ==
    /\ phase = "backoff"
    /\ wait = 0
    /\ Len(ages) < CountBound
    /\ phase' = "up"
    /\ RecordRestart
    /\ autos' = autos \cup {Len(ages) + 1}
    /\ UNCHANGED <<wait, stepped>>

\* The new child cannot be spawned; the entry stays Errored.
AutoRestartFails ==
    /\ phase = "backoff"
    /\ wait = 0
    /\ phase' = "down"
    /\ UNCHANGED <<wait, ages, autos, stepped>>

\* Mutant: the lock is not held during the sleep.
RestartMeanwhile ==
    /\ Len(ages) < CountBound
    /\ phase' = IF phase = "backoff" THEN phase ELSE "up"
    /\ RecordRestart
    /\ UNCHANGED <<wait, autos, stepped>>

\* restart on a user's command, which counts against the budget as well.
Restart ==
    /\ phase # "backoff"
    /\ Len(ages) < CountBound
    /\ phase' = "up"
    /\ RecordRestart
    /\ UNCHANGED <<wait, autos, stepped>>

Next ==
    \/ Tick
    \/ ClockStepsBack
    \/ Crash
    \/ TryAutoRestart
    \/ AutoRestart
    \/ AutoRestartFails
    \/ Restart

Spec == Init /\ [][Next]_vars

-----------------------------------------------------------------------------
(* Properties. *)

\* Every variable keeps its shape.
TypeOK ==
    /\ phase \in Phases
    /\ wait \in 0 .. MaxDelay
    /\ ages \in Seq(0 .. Horizon)
    /\ Len(ages) <= CountBound
    /\ autos \subseteq 1 .. Len(ages)
    /\ stepped \in -1 .. Len(ages)

\* The restarts of the last Window seconds, as a stopwatch would count them.
TrueRecent == Cardinality({i \in Restarts : ages[i] < Window})

\* The daemon never restarts a process by itself when that makes more than
\* max_restarts restarts, manual ones included, within the window, as long as
\* nobody has set the clock back: the budget is checked before a sleep during
\* which the window moves.
BudgetKept == [][AutoRestart /\ stepped = -1 => TrueRecent' <= MaxRestarts]_vars

\* The one process, its counted restarts, and whether one is slept for.
Entries == {1}
Spent == [e \in Entries |-> CountRecent]
Granted == {e \in Entries : phase = "backoff"}

Budget == INSTANCE RestartBudget
    WITH Limit <- MaxRestarts,
         recent <- Spent, granted <- Granted, trusted <- stepped = -1

\* What the wall clock shows of the window only slides, until the clock is set
\* back, so that a restart checked before its sleep still has room after it.
KeepsBudget == Budget!Spec

\* min(initial * 2^n, max), the delay the strategy is documented to have.
ExactDelay(restarts) == LeastOf(InitialDelay * 2 ^ restarts, MaxDelay)

\* An automatic restart comes no sooner after the restart before it than the
\* exponential backoff asks for, whatever saturates on the way and whatever
\* manual restarts there were.
BackoffKept ==
    \A i \in autos \ {1} :
        ages[i - 1] < Horizon => ages[i - 1] - ages[i] >= ExactDelay(i - 1)

\* The delays that follow the first n restarts, added up.
Delays[n \in 0 .. MaxRestarts] == IF n = 0 THEN 0 ELSE Delays[n - 1] + ExactDelay(n)

\* Once the delays before max_restarts restarts add up to the window, crashes
\* alone never exhaust the budget, however fast they come: the limit only acts
\* where it is small against the window (six restarts for the defaults).
BudgetOutOfReach ==
    /\ autos = Restarts /\ stepped = -1
    /\ MaxRestarts > 0 /\ Delays[MaxRestarts - 1] >= Window
    => CountRecent < MaxRestarts

=============================================================================
