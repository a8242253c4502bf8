------------------------------ MODULE MCDaemon ------------------------------
(* Instances of Daemon for TLC, and what the repository says of the daemon. *)
EXTENDS Daemon

\* An application that runs once or twice.
App == <<"app">>

MCNames == {App, <<"app", "0">>, <<"app", "1">>}

MCServices == {ServiceOf(App, 1), ServiceOf(App, 2)}

\* A file with both, which validation lets pass.
MCFiles == {<<ServiceOf(App, 1), ServiceOf(App, 2)>>}

OneName    == {App}
OneService == {ServiceOf(App, 1)}
NoFiles    == {}

-----------------------------------------------------------------------------
(* What comments and docs say and the code does not do. *)

\* The main task waits for a stop signal before it shuts the daemon down
\* (adasa-daemon.rs: "Wait for shutdown signal").
ShutsDownWhenSignalled == [][main.step = "closing" /\ main'.step = "stop" => signal]_vars

=============================================================================
