-------------------------------- MODULE Locks --------------------------------
(***************************************************************************)
(* AcquireLock and ReleaseLock for one lock key, with each of the drivers. *)
(* AcquireLock runs up to four statements, or renewScript; the stamp of a  *)
(* lock is when it expires.                                                *)
(***************************************************************************)
EXTENDS LeaseCalls

vars == <<driver, now, owner, stamp, pc, at, lease>>

Init == NoCalls

-----------------------------------------------------------------------------
AcquireLock(n) ==
    /\ pc[n] = "idle"
    /\ at' = [at EXCEPT ![n] = now]
    /\ GoTo(n, IF driver = "redis" THEN "renew" ELSE "update")
    /\ UNCHANGED <<driver, now, owner, stamp, lease>>

(* UPDATE ... WHERE node_id = n AND expires_at > at. *)
Renews(n) == owner = n /\ stamp > at[n]

Update(n) ==
    /\ pc[n] = "update"
    /\ stamp' = IF Renews(n) THEN Stored(driver, at[n] + TTL) ELSE stamp
    /\ IF Renews(n) /\ (CountsMatched(driver) \/ stamp' # stamp)
          THEN AnswerTrue(n)
          ELSE GoTo(n, "delete") /\ UNCHANGED lease
    /\ UNCHANGED <<driver, now, owner, at>>

(* Faulty: the row of another node is removed whether it has expired or not. *)
ExpiredAlways(n) == owner # n

(* DELETE ... WHERE expires_at <= at. *)
Expired(n) == stamp <= at[n]

Delete(n) ==
    /\ pc[n] = "delete"
    /\ owner' = IF Expired(n) THEN NoNode ELSE owner
    /\ GoTo(n, "insert")
    /\ UNCHANGED <<driver, now, stamp, at, lease>>

(* INSERT, which fails when there is a row.  Any error, a lost answer       *)
(* included, makes the call look who owns the row.                          *)
Insert(n) ==
    /\ pc[n] = "insert"
    /\ \/ /\ owner = NoNode
          /\ owner' = n
          /\ stamp' = Stored(driver, at[n] + TTL)
          /\ AnswerTrue(n) \/ (GoTo(n, "select") /\ UNCHANGED lease)
       \/ GoTo(n, "select") /\ UNCHANGED <<owner, stamp, lease>>
    /\ UNCHANGED <<driver, now, at>>

Select(n) ==
    /\ pc[n] = "select"
    /\ IF owner = n THEN AnswerTrue(n) ELSE GoTo(n, "idle") /\ UNCHANGED lease
    /\ UNCHANGED <<driver, now, owner, stamp, at>>

(* The owner that the store has at this moment: Redis forgets a key that    *)
(* has expired, a row stays until a statement deletes it.                   *)
Current == IF driver = "redis" /\ stamp <= now THEN NoNode ELSE owner

(* renewScript. *)
Renew(n) ==
    /\ pc[n] = "renew"
    /\ IF Current \in {n, NoNode}
          THEN owner' = n /\ stamp' = now + TTL /\ AnswerTrue(n)
          ELSE GoTo(n, "idle") /\ UNCHANGED <<owner, stamp, lease>>
    /\ UNCHANGED <<driver, now, at>>

(* A statement fails, or the script never runs, and the call returns the    *)
(* error.                                                                   *)
StatementFails(n) ==
    /\ pc[n] \in {"update", "delete", "select", "renew"}
    /\ GoTo(n, "idle")
    /\ UNCHANGED <<driver, now, owner, stamp, at, lease>>

(* Faulty: a release removes the row whoever owns it. *)
ReleaseLockOfAnyone(n) ==
    /\ pc[n] = "idle"
    /\ lease' = [lease EXCEPT ![n] = 0]
    /\ owner' \in {owner, NoNode}
    /\ UNCHANGED <<driver, now, stamp, pc, at>>

(* DELETE ... WHERE node_id = n, or ownerDeleteScript, or an error and no   *)
(* change; the node has let go of the lock either way.                      *)
ReleaseLock(n) ==
    /\ pc[n] = "idle"
    /\ lease' = [lease EXCEPT ![n] = 0]
    /\ owner' \in {owner, IF Current = n THEN NoNode ELSE owner}
    /\ UNCHANGED <<driver, now, stamp, pc, at>>

Tick ==
    /\ now < MaxNow
    /\ now' = now + 1
    /\ UNCHANGED <<driver, owner, stamp, pc, at, lease>>

Next ==
    \/ Tick
    \/ \E n \in Nodes : \/ AcquireLock(n) \/ Update(n) \/ Delete(n) \/ Insert(n) \/ Select(n)
                        \/ Renew(n) \/ StatementFails(n) \/ ReleaseLock(n)

Spec == Init /\ [][Next]_vars
=============================================================================
