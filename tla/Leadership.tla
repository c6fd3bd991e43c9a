----------------------------- MODULE Leadership -----------------------------
(***************************************************************************)
(* The coordinators of several nodes and what they compete for: the single *)
(* row of the leader table of driver/sqldriver, or the leader key of       *)
(* driver/redisdriver.  On each leader tick a coordinator asks IsLeader    *)
(* and, if the answer is no, calls LeaderElection, which runs up to three  *)
(* statements, or renewScript; the stamp of the leader is its last         *)
(* heartbeat.  A tick may come at any time: the ticker's period is not     *)
(* relied on.                                                              *)
(***************************************************************************)
EXTENDS LeaseCalls

CONSTANT Window \* the 15 seconds of the SQL driver's IsLeader

ASSUME WindowAssumption == Window \in Nat

VARIABLE running \* the coordinators that are running

vars == <<driver, now, owner, stamp, running, pc, at, lease>>

Init == NoCalls /\ running = {}

-----------------------------------------------------------------------------
(* Coordinator.Start, Coordinator.Stop and the end of the process.  Neither *)
(* of the last two touches the leader row; both end a running election.     *)
Start(n) ==
    /\ n \notin running
    /\ running' = running \cup {n}
    /\ UNCHANGED <<driver, now, owner, stamp, pc, at, lease>>

Stop(n) ==
    /\ n \in running
    /\ running' = running \ {n}
    /\ GoTo(n, "idle")
    /\ lease' = [lease EXCEPT ![n] = 0]
    /\ UNCHANGED <<driver, now, owner, stamp, at>>

(* Redis forgets a key whose ttl is over; a row stays. *)
Current == IF driver = "redis" /\ stamp + TTL <= now THEN NoNode ELSE owner

(* SELECT EXISTS ... WHERE node_id = n AND last_heartbeat > now - 15s; GET. *)
IsLeader(n) == Current = n /\ (driver = "redis" \/ stamp + Window > now)

(* The leader does not renew while IsLeader answers true; otherwise          *)
(* LeaderElection is called and reads the clock.                             *)
TryBecomeLeader(n) ==
    /\ n \in running /\ pc[n] = "idle"
    /\ ~IsLeader(n)
    /\ at' = [at EXCEPT ![n] = now]
    /\ GoTo(n, IF driver = "redis" THEN "renew" ELSE "update")
    /\ UNCHANGED <<driver, now, owner, stamp, running, lease>>

(* Faulty: the row is taken from a leader that has not renewed it since the *)
(* election began.                                                          *)
TakesEarly(n) == owner # NoNode /\ stamp < at[n]

(* UPDATE ... WHERE node_id = n OR last_heartbeat <= at - ttl. *)
Takes(n) == owner # NoNode /\ (owner = n \/ stamp + TTL <= at[n])

(* Faulty: taking or renewing the row does not refresh its heartbeat. *)
UpdateKeepingBeat(n) ==
    /\ pc[n] = "update"
    /\ IF Takes(n)
          THEN owner' = n /\ UNCHANGED stamp /\ AnswerTrue(n)
          ELSE UNCHANGED <<owner, stamp, lease>> /\ GoTo(n, "insert")
    /\ UNCHANGED <<driver, now, running, at>>

Update(n) ==
    /\ pc[n] = "update"
    /\ IF Takes(n) THEN owner' = n /\ stamp' = Stored(driver, at[n]) ELSE UNCHANGED <<owner, stamp>>
    /\ IF Takes(n) /\ (CountsMatched(driver) \/ <<owner', stamp'>> # <<owner, stamp>>)
          THEN AnswerTrue(n)
          ELSE GoTo(n, "insert") /\ UNCHANGED lease
    /\ UNCHANGED <<driver, now, running, at>>

(* INSERT ... ON CONFLICT (id) DO NOTHING. *)
Insert(n) ==
    /\ pc[n] = "insert"
    /\ IF owner = NoNode
          THEN owner' = n /\ stamp' = Stored(driver, at[n]) /\ AnswerTrue(n)
          ELSE UNCHANGED <<owner, stamp, lease>> /\ GoTo(n, "select")
    /\ UNCHANGED <<driver, now, running, at>>

Select(n) ==
    /\ pc[n] = "select"
    /\ IF owner = n THEN AnswerTrue(n) ELSE GoTo(n, "idle") /\ UNCHANGED lease
    /\ UNCHANGED <<driver, now, owner, stamp, running, at>>

(* renewScript. *)
Renew(n) ==
    /\ pc[n] = "renew"
    /\ IF Current \in {n, NoNode}
          THEN owner' = n /\ stamp' = now /\ AnswerTrue(n)
          ELSE GoTo(n, "idle") /\ UNCHANGED <<owner, stamp, lease>>
    /\ UNCHANGED <<driver, now, running, at>>

StatementFails(n) ==
    /\ pc[n] # "idle"
    /\ GoTo(n, "idle")
    /\ UNCHANGED <<driver, now, owner, stamp, running, at, lease>>

(* Faulty: any node's resignation removes the row. *)
ResignAnyone(n) ==
    /\ n \in running /\ pc[n] = "idle"
    /\ lease' = [lease EXCEPT ![n] = 0]
    /\ owner' \in {owner, NoNode}
    /\ UNCHANGED <<driver, now, stamp, running, pc, at>>

(* DELETE ... WHERE node_id = n, or ownerDeleteScript, or an error and no   *)
(* change.                                                                  *)
ResignLeadership(n) ==
    /\ n \in running /\ pc[n] = "idle"
    /\ lease' = [lease EXCEPT ![n] = 0]
    /\ owner' \in {owner, IF Current = n THEN NoNode ELSE owner}
    /\ UNCHANGED <<driver, now, stamp, running, pc, at>>

Tick ==
    /\ now < MaxNow
    /\ now' = now + 1
    /\ UNCHANGED <<driver, owner, stamp, running, pc, at, lease>>

Next ==
    \/ Tick
    \/ \E n \in Nodes : \/ Start(n) \/ Stop(n) \/ TryBecomeLeader(n) \/ Update(n) \/ Insert(n)
                        \/ Select(n) \/ Renew(n) \/ StatementFails(n) \/ ResignLeadership(n)

Spec == Init /\ [][Next]_vars

-----------------------------------------------------------------------------
(* A node that won an election is told by IsLeader that it leads until its  *)
(* ttl is over, with SQL provided the ttl is at most the window IsLeader    *)
(* looks at.                                                                *)
Recognised ==
    driver = "redis" \/ TTL <= Window => \A n \in Nodes : Held(n) => IsLeader(n)
=============================================================================
