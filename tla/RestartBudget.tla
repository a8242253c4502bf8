---------------------------- MODULE RestartBudget ----------------------------
(***************************************************************************)
(* What max_restarts promises of automatic restarts, without processes,    *)
(* locks or a clock.  A restart is granted when the entry has budget left, *)
(* and happens later; meanwhile the window may slide but no other restart  *)
(* of the entry may use the budget up, so each grant is good for one       *)
(* restart.  A user's restarts count and are not limited.                  *)
(***************************************************************************)
EXTENDS Naturals

CONSTANTS
    Entries, \* what may be restarted
    Limit    \* the restarts that the window has room for

VARIABLES
    recent,  \* entry -> its restarts that the window counts
    granted, \* the entries with a restart that is granted and has not happened
    trusted  \* the clock that the window is measured with has not been set back

vars == <<recent, granted, trusted>>

Init ==
    /\ recent = [e \in Entries |-> 0]
    /\ granted = {}
    /\ trusted = TRUE

Grant(e) ==
    /\ recent[e] < Limit
    /\ granted' = granted \cup {e}
    /\ UNCHANGED <<recent, trusted>>

RestartsOnce(e) == recent' = [recent EXCEPT ![e] = @ + 1]

AutoRestarts(e) ==
    /\ e \in granted
    /\ RestartsOnce(e)
    /\ granted' = granted \ {e}
    /\ UNCHANGED trusted

\* The restart fails and is not tried again.
GivesUp(e) ==
    /\ granted' = granted \ {e}
    /\ UNCHANGED <<recent, trusted>>

UserRestarts(e) ==
    /\ e \notin granted
    /\ RestartsOnce(e)
    /\ UNCHANGED <<granted, trusted>>

\* Restarts leave the window, by themselves or with their entry.
WindowSlides ==
    /\ recent' \in [Entries -> Nat]
    /\ \A e \in Entries : recent'[e] <= recent[e]
    /\ UNCHANGED <<granted, trusted>>

\* From here on the window may count anything.
ClockIsOff ==
    /\ trusted' = FALSE
    /\ recent' \in [Entries -> Nat]
    /\ UNCHANGED granted

Next ==
    \/ \E e \in Entries : Grant(e) \/ AutoRestarts(e) \/ GivesUp(e) \/ UserRestarts(e)
    \/ WindowSlides
    \/ ClockIsOff

Spec == Init /\ [][Next]_vars

\* What the above comes to: a restart that is still to happen has room.
GrantsHaveRoom == trusted => \A e \in granted : recent[e] < Limit

=============================================================================
