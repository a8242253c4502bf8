--------------------------- MODULE MCDaemonControl --------------------------
(* An instance of DaemonControl for TLC. *)
EXTENDS DaemonControl, TLC

\* No pid is told from another.
Symmetry == Permutations(Pids)

=============================================================================
