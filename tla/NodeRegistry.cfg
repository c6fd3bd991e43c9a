\* A supervisor and a coordinator with equal heartbeat periods, as in the default
\* configurations; the window is as long as the supervisor's ttl.
SPECIFICATION Spec
CONSTANTS
    s1 = s1
    c1 = c1
    Nodes = {s1, c1}
    Supervisors = {s1}
    HeartbeatInterval = 1
    HeartbeatTTL = 2
    Window = 3
    MaxNow = 4
INVARIANTS
    Reported
    NoResurrection
    Indexed
PROPERTY Recovers
