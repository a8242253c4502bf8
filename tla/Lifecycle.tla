------------------------------ MODULE Lifecycle ------------------------------
(***************************************************************************)
(* What the process table promises its users, without pids being reused,   *)
(* zombies, locks or the steps an operation is made of: an entry never has *)
(* more than one live child, is taken out of the table or shown as down    *)
(* only when it has none, and there is no live child that no entry has.    *)
(***************************************************************************)
EXTENDS Naturals

CONSTANTS
    Ids,  \* what entries are called; no id is used twice
    Pids  \* what their children are called

VARIABLES
    next,  \* the next id
    shown, \* id -> how the entry is shown, for the ids in the table
    kids,  \* which entry has which live child: a set of pairs
    live   \* all live children

vars == <<next, shown, kids, live>>

Present == DOMAIN shown

KidsOf(i) == {pid \in live : <<i, pid>> \in kids}

Show(i, how) ==
    shown' = [j \in Present \cup {i} |-> IF j = i THEN how ELSE shown[j]]

Born(i, pid) ==
    /\ pid \notin live
    /\ live' = live \cup {pid}
    /\ kids' = kids \cup {<<i, pid>>}

Die(dead) ==
    /\ live' = live \ dead
    /\ kids' = {k \in kids : k[2] \notin dead}

-----------------------------------------------------------------------------
Init ==
    /\ next = 1
    /\ shown = <<>>
    /\ kids = {}
    /\ live = {}

Create(pid) ==
    /\ next \in Ids
    /\ Show(next, "up")
    /\ Born(next, pid)
    /\ next' = next + 1

\* The entry is shown as on its way down.  A child may die at once, and not only
\* its own: a stop of an entry that is down already signals a pid that may be
\* another entry's by now.
BeginsToEnd(i) ==
    /\ Show(i, "ending")
    /\ \E dead \in SUBSET live : Die(dead)
    /\ UNCHANGED next

GoesDown(i) ==
    /\ KidsOf(i) = {}
    /\ Show(i, "down")
    /\ UNCHANGED <<next, kids, live>>

ComesUp(i, pid) ==
    /\ KidsOf(i) = {}
    /\ shown[i] = "down"
    /\ Show(i, "up")
    /\ Born(i, pid)
    /\ UNCHANGED next

Leaves(i) ==
    /\ KidsOf(i) = {}
    /\ shown[i] # "up"
    /\ shown' = [j \in Present \ {i} |-> shown[j]]
    /\ UNCHANGED <<next, kids, live>>

\* A child dies; how its entry is shown need not follow.
Dies(pid) ==
    /\ Die({pid})
    /\ UNCHANGED <<next, shown>>

Next ==
    \/ \E pid \in Pids : Create(pid) \/ Dies(pid)
    \/ \E i \in Present : \/ BeginsToEnd(i) \/ GoesDown(i) \/ Leaves(i)
                          \/ \E pid \in Pids : ComesUp(i, pid)

Spec == Init /\ [][Next]_vars

\* What the above comes to: live children and entries go together one to one,
\* and what is shown as down has none.
KidsAreKept ==
    /\ \A k \in kids : \E i \in Present, pid \in live : k = <<i, pid>>
    /\ \A pid \in live : \E k \in kids : k[2] = pid
    /\ \A k, l \in kids : k[1] = l[1] \/ k[2] = l[2] => k = l
    /\ \A k \in kids : shown[k[1]] # "down"

=============================================================================
