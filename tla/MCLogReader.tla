----------------------------- MODULE MCLogReader -----------------------------
(***************************************************************************)
(* LogReader on a small instance: both streams without a filter, as the    *)
(* daemon asks for them, and stdout alone with one.                        *)
(***************************************************************************)
EXTENDS LogReader

MCRequests == {<<Streams, FALSE>>, <<{"out"}, TRUE>>}

=============================================================================
