CONSTANTS
    Pids = {p1, p2, p3}
    Stoppers = {s1}
SPECIFICATION Spec
SYMMETRY Symmetry
INVARIANTS OneDaemon PidFileNamesDaemon SocketIsServed StopSucceeds
