---------------------------- MODULE NodeRegistry ----------------------------
(***************************************************************************)
(* How nodes report that they are up: supervisors and coordinators, which  *)
(* register their node, send heartbeats while they run and deregister when *)
(* they stop, and ListNodes, over the nodes table of driver/sqldriver or   *)
(* the node keys and the nodes set of driver/redisdriver.  Every process   *)
(* has an id of its own, which it keeps when it is started again.          *)
(*                                                                         *)
(* A heartbeat reaches the store in the tick in which it was sent, or is   *)
(* lost; only the heartbeat of a process that has stopped may come later.  *)
(***************************************************************************)
EXTENDS Naturals

CONSTANTS
    Nodes,             \* the reporting processes, each with its own id
    Supervisors,       \* those that are supervisors; the others are coordinators
    HeartbeatInterval, \* of a supervisor
    HeartbeatTTL,      \* of a coordinator
    Window,            \* NodeLivenessWindow
    MaxNow             \* how long the model runs

ASSUME RegistryAssumption ==
    /\ Supervisors \subseteq Nodes
    /\ HeartbeatInterval \in Nat \ {0}
    /\ HeartbeatTTL \in Nat /\ HeartbeatTTL >= 2
    /\ Window \in Nat \ {0}
    /\ MaxNow \in Nat

VARIABLES
    driver,     \* "sql" or "redis"; it does not change
    now,        \* the clock
    rows,       \* the ids in the nodes table, or in the nodes set
    until,      \* when a node's row becomes too old, or its key expires
    up,         \* the processes that run
    registered, \* those whose last RegisterNode reached the store
    due,        \* when each process's ticker fires next
    flight,     \* the heartbeats on their way
    missed,     \* heartbeats lost since the last that arrived
    worst,      \* the largest value of missed since the last Start
    gone,       \* those whose DeregisterNode reached the store last
    lister,     \* a call of ListNodes: the ids to read and the stale ones
    unlisted    \* ids that ListNodes removed though they were alive again

vars == <<driver, now, rows, until, up, registered, due, flight, missed, worst, gone,
          lister, unlisted>>

process == <<up, registered, due, missed, worst>>
listing == <<lister, unlisted>>

Interval(n) == IF n \in Supervisors THEN HeartbeatInterval ELSE HeartbeatTTL \div 2

TTL(n) == IF n \in Supervisors THEN 3 * HeartbeatInterval ELSE HeartbeatTTL

(* How long a report keeps its node alive: Redis expires the key after the  *)
(* ttl it came with, the SQL driver ignores the ttl.                        *)
Life(n) == IF driver = "redis" THEN TTL(n) ELSE Window

Alive(n) == until[n] > now

Idle == [pc |-> "idle", todo |-> {}, stale |-> {}]

TypeOK ==
    /\ driver \in {"sql", "redis"}
    /\ now \in Nat
    /\ until \in [Nodes -> Nat]
    /\ rows \subseteq Nodes /\ up \subseteq Nodes /\ registered \subseteq Nodes
    /\ flight \subseteq Nodes /\ gone \subseteq Nodes /\ unlisted \subseteq Nodes
    /\ due \in [Nodes -> Nat]
    /\ missed \in [Nodes -> Nat]
    /\ worst \in [Nodes -> Nat]
    /\ lister \in [pc : {"idle", "read"}, todo : SUBSET Nodes, stale : SUBSET Nodes]

Init ==
    /\ driver \in {"sql", "redis"}
    /\ now = 0
    /\ until = [n \in Nodes |-> 0]
    /\ rows = {} /\ up = {} /\ registered = {} /\ flight = {} /\ gone = {} /\ unlisted = {}
    /\ due = [n \in Nodes |-> 0]
    /\ missed = [n \in Nodes |-> 0]
    /\ worst = [n \in Nodes |-> 0]
    /\ lister = Idle

-----------------------------------------------------------------------------
(* Faulty: registerNodeScript sets the key but does not add the id. *)
RegisterNodeKeyOnly(n) ==
    /\ rows' = IF driver = "redis" THEN rows ELSE rows \cup {n}
    /\ until' = [until EXCEPT ![n] = now + Life(n)]
    /\ registered' = registered \cup {n}
    /\ gone' = gone \ {n}
    /\ unlisted' = unlisted \ {n}

(* RegisterNode writes the row or the key anew and adds the id. *)
RegisterNode(n) ==
    /\ rows' = rows \cup {n}
    /\ until' = [until EXCEPT ![n] = now + Life(n)]
    /\ registered' = registered \cup {n}
    /\ gone' = gone \ {n}
    /\ unlisted' = unlisted \ {n}

(* Supervisor.Start only logs an error of RegisterNode, Coordinator.Start   *)
(* gives up; the error may be a lost answer.                                *)
Start(n) ==
    /\ n \notin up
    /\ \E stored, ok \in BOOLEAN :
          /\ ok => stored
          /\ IF stored THEN RegisterNode(n)
                       ELSE /\ registered' = registered \ {n}
                            /\ UNCHANGED <<rows, until, gone, unlisted>>
          /\ up' = IF ok \/ n \in Supervisors THEN up \cup {n} ELSE up
    /\ due' = [due EXCEPT ![n] = now + Interval(n)]
    /\ missed' = [missed EXCEPT ![n] = 0]
    /\ worst' = [worst EXCEPT ![n] = 0]
    /\ UNCHANGED <<driver, now, flight, lister>>

(* The heartbeat ticker fires and the loop calls Heartbeat. *)
SendHeartbeat(n) ==
    /\ n \in up /\ now = due[n]
    /\ flight' = flight \cup {n}
    /\ due' = [due EXCEPT ![n] = now + Interval(n)]
    /\ UNCHANGED <<driver, now, rows, until, up, registered, missed, worst, gone, lister, unlisted>>

(* Faulty: a heartbeat makes the record if there is none. *)
FoundAlways(n) == TRUE

(* UPDATE nodes ... WHERE node_id = n; GET in heartbeatScript. *)
Found(n) == IF driver = "redis" THEN Alive(n) ELSE n \in rows

(* Faulty: heartbeatScript stores the node without a new ttl. *)
HeartbeatWithoutTTL(n) ==
    /\ n \in flight
    /\ flight' = flight \ {n}
    /\ until' = IF Found(n) /\ driver = "sql" THEN [until EXCEPT ![n] = now + Life(n)] ELSE until
    /\ missed' = IF Found(n) THEN [missed EXCEPT ![n] = 0] ELSE missed
    /\ UNCHANGED <<driver, now, rows, up, registered, due, worst, gone, lister, unlisted>>

(* Heartbeat refreshes a record that is there, and otherwise answers        *)
(* ErrNodeNotFound, which the loops log.                                    *)
Heartbeat(n) ==
    /\ n \in flight
    /\ flight' = flight \ {n}
    /\ until' = IF Found(n) THEN [until EXCEPT ![n] = now + Life(n)] ELSE until
    /\ missed' = IF Found(n) THEN [missed EXCEPT ![n] = 0] ELSE missed
    /\ UNCHANGED <<driver, now, rows, up, registered, due, worst, gone, lister, unlisted>>

HeartbeatLost(n) ==
    /\ n \in flight
    /\ flight' = flight \ {n}
    /\ missed' = [missed EXCEPT ![n] = @ + 1]
    /\ worst' = [worst EXCEPT ![n] = IF @ > missed[n] THEN @ ELSE missed[n] + 1]
    /\ UNCHANGED <<driver, now, rows, until, up, registered, due, gone, lister, unlisted>>

(* Stop cancels the loop and calls DeregisterNode, an error of which is     *)
(* only logged.  The loop's last heartbeat may still be on its way.         *)
Stop(n) ==
    /\ n \in up
    /\ up' = up \ {n}
    /\ \/ /\ rows' = rows \ {n}
          /\ until' = [until EXCEPT ![n] = 0]
          /\ gone' = gone \cup {n}
          /\ unlisted' = unlisted \ {n}
       \/ UNCHANGED <<rows, until, gone, unlisted>>
    /\ UNCHANGED <<driver, now, registered, due, flight, missed, worst, lister>>

Crash(n) ==
    /\ n \in up
    /\ up' = up \ {n}
    /\ UNCHANGED <<driver, now, rows, until, registered, due, flight, missed, worst, gone, lister,
                   unlisted>>

-----------------------------------------------------------------------------
(* ListNodes.  With SQL it is one SELECT of the rows that are not too old,  *)
(* which changes nothing.  With Redis it reads the set, then key after key, *)
(* and at last removes the ids whose key it did not find.                   *)
ListNodes ==
    /\ driver = "redis" /\ lister.pc = "idle"
    /\ lister' = [pc |-> "read", todo |-> rows, stale |-> {}]
    /\ UNCHANGED <<driver, now, rows, until, process, flight, gone, unlisted>>

ListGet(n) ==
    /\ n \in lister.todo
    /\ lister' = [lister EXCEPT !.todo = @ \ {n},
                                !.stale = IF Alive(n) THEN @ ELSE @ \cup {n}]
    /\ UNCHANGED <<driver, now, rows, until, process, flight, gone, unlisted>>

ListRemove ==
    /\ lister.pc = "read" /\ lister.todo = {}
    /\ \/ /\ rows' = rows \ lister.stale
          /\ unlisted' = unlisted \cup {n \in lister.stale : Alive(n)}
       \/ UNCHANGED <<rows, unlisted>>
    /\ lister' = Idle
    /\ UNCHANGED <<driver, now, until, process, flight, gone>>

ListError ==
    /\ lister.pc = "read"
    /\ lister' = Idle
    /\ UNCHANGED <<driver, now, rows, until, process, flight, gone, unlisted>>

-----------------------------------------------------------------------------
(* Running processes get their ticks, and their calls through, in time. *)
Tick ==
    /\ now < MaxNow
    /\ \A n \in up : now < due[n] /\ n \notin flight
    /\ now' = now + 1
    /\ UNCHANGED <<driver, rows, until, process, flight, gone, listing>>

Next ==
    \/ \E n \in Nodes : \/ Start(n) \/ Stop(n) \/ Crash(n)
                        \/ SendHeartbeat(n) \/ Heartbeat(n) \/ HeartbeatLost(n)
                        \/ ListGet(n)
    \/ ListNodes \/ ListRemove \/ ListError
    \/ Tick

Spec == Init /\ [][Next]_vars

-----------------------------------------------------------------------------
Serving(n) == n \in up /\ n \in registered

(* No run of lost heartbeats since the Start was so long that the next one  *)
(* came too late.                                                           *)
Tolerable(n) == (worst[n] + 1) * Interval(n) < Life(n)

(* A process that runs and was registered is alive to the others as long as *)
(* it has not lost too many heartbeats in a row: with Redis none in the     *)
(* case of a coordinator and one in that of a supervisor.                   *)
Reported == \A n \in Nodes : Serving(n) /\ Tolerable(n) => Alive(n)

(* A node that was deregistered stays so until it registers again, although *)
(* a heartbeat it had sent may come after the deregistration.               *)
NoResurrection == \A n \in gone : ~Alive(n) /\ n \notin rows

(* ListNodes finds every node that is alive, except one that registered     *)
(* again between a ListNodes' GET of its key and the SREM that followed.    *)
Indexed == \A n \in Nodes : Alive(n) => n \in rows \cup unlisted

(* With SQL an outage of any length ends with the next heartbeat that       *)
(* arrives; with Redis the key is gone and only a Start brings it back.     *)
Recovers ==
    [][\A n \in Nodes : Serving(n) /\ Heartbeat(n) =>
          (Alive(n)' <=> driver = "sql" \/ Alive(n))]_vars
=============================================================================
