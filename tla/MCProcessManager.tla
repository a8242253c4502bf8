-------------------------- MODULE MCProcessManager --------------------------
(***************************************************************************)
(* ProcessManager on small instances: the constants TLC needs.             *)
(***************************************************************************)
EXTENDS ProcessManager

CONSTANTS p1, p2, p3

\* Two instances of one application, and the name that stands for both.
MCNames == {<<"web", "0">>, <<"web", "1">>}
OneName == {<<"web">>}

PidSymmetry == Permutations(Pids)

=============================================================================
