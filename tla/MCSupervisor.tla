---------------------------- MODULE MCSupervisor ----------------------------
(***************************************************************************)
(* Supervisor on a small instance: two instances of one application, one   *)
(* restarted and the other stopped when it is over its limit.              *)
(***************************************************************************)
EXTENDS Supervisor

CONSTANTS p1, p2

MCNames == {<<"web", "0">>, <<"web", "1">>}
OneName == {<<"web">>}

MCOnLimit == [n \in MCNames |-> IF n = <<"web", "0">> THEN "Restart" ELSE "Stop"]

=============================================================================
