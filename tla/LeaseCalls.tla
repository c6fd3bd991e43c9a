----------------------------- MODULE LeaseCalls -----------------------------
(***************************************************************************)
(* What the two leases of a cluster have in common: a lock key, which      *)
(* AcquireLock asks for, and the leadership, which LeaderElection asks for *)
(* (Locks, Leadership).  Both are one row of a SQL table or one key of     *)
(* Redis.  With a SQL driver a call reads the clock once and then runs     *)
(* several statements, each a transaction of its own, so that those of     *)
(* several nodes interleave and the clock moves on between them.  With     *)
(* Redis it is one script, renewScript, which runs some time after the     *)
(* call was made and counts the ttl from then.  A node has one call at a   *)
(* time; its id is unique to its process, and the nodes' clocks agree.     *)
(***************************************************************************)
EXTENDS StoredTimes

CONSTANTS
    Nodes,
    NoNode,
    TTL,           \* the ttl every caller gives: the lock's, or Config.LeaderTTL
    MaxNow         \* how long the model runs

ASSUME CallsAssumption ==
    /\ NoNode \notin Nodes
    /\ TTL \in Nat /\ TTL >= Resolution
    /\ MaxNow \in Nat

VARIABLES
    driver,  \* the driver in use, which does not change
    now,     \* the clock
    owner,   \* the row's node_id or the key's value, NoNode when there is none
    stamp,   \* the time in the row, a lock's expires_at or the leader's last_heartbeat;
             \* in Redis when the lock's key expires or the leader's got its ttl
    pc,      \* the next statement of each node's call
    at,      \* when the call was made, which is what time.Now() gave it
    lease    \* until when the last answer makes each node the owner

PCs == {"idle", "update", "delete", "insert", "select", "renew"}

CallTypes ==
    /\ driver \in Drivers
    /\ now \in Nat
    /\ owner \in Nodes \cup {NoNode}
    /\ stamp \in Nat
    /\ pc \in [Nodes -> PCs]
    /\ at \in [Nodes -> Nat]
    /\ lease \in [Nodes -> Nat]

NoCalls ==
    /\ driver \in Drivers
    /\ now = 0
    /\ owner = NoNode
    /\ stamp = 0
    /\ pc = [n \in Nodes |-> "idle"]
    /\ at = [n \in Nodes |-> 0]
    /\ lease = [n \in Nodes |-> 0]

GoTo(n, statement) == pc' = [pc EXCEPT ![n] = statement]

(* Faulty: the lease is taken to start when the answer comes. *)
AnswerTrueFromNow(n) ==
    /\ GoTo(n, "idle")
    /\ lease' \in {lease, [lease EXCEPT ![n] = now + TTL - Slack(driver)]}

(* The call answers true; the answer may be lost on its way.  The caller    *)
(* counts on its ttl from the moment it made the call, less what its store  *)
(* rounds off.                                                              *)
AnswerTrue(n) ==
    /\ GoTo(n, "idle")
    /\ lease' \in {lease, [lease EXCEPT ![n] = at[n] + TTL - Slack(driver)]}

-----------------------------------------------------------------------------
Held(n) == lease[n] > now

(* No two nodes own the lock, or have won an election, at once, whatever    *)
(* the order of the calls' statements and however late they run.            *)
Exclusive == \A m, n \in Nodes : Held(m) /\ Held(n) => m = n

(* Why: an unexpired answer is backed by the row, which nobody but its      *)
(* owner can have removed or shortened.  The row is good until term after   *)
(* its stamp.                                                               *)
Backed(term) == \A n \in Nodes : Held(n) => owner = n /\ stamp + term >= lease[n]

(* A call's clock reading is never ahead, and its answer never takes back   *)
(* an earlier one.                                                          *)
CallTimes ==
    \A n \in Nodes :
        /\ lease[n] <= now + TTL - Slack(driver)
        /\ pc[n] # "idle" => at[n] <= now /\ lease[n] <= at[n] + TTL - Slack(driver)

(* A call that got past its UPDATE and meets its own node in the row has    *)
(* written that row, unless it is about to delete it, so that its SELECT    *)
(* may answer true.                                                         *)
OwnRow(term) ==
    \A n \in Nodes : owner = n =>
        LET own == stamp = Stored(driver, at[n] + TTL - term) IN
            /\ pc[n] = "delete" => own \/ stamp + term <= at[n]
            /\ pc[n] \in {"insert", "select"} => own

(* A call runs the statements of its driver. *)
CallKind == \A n \in Nodes : pc[n] # "idle" => (pc[n] = "renew" <=> driver = "redis")

LeaseInv(term) == CallTypes /\ Backed(term) /\ CallTimes /\ OwnRow(term) /\ CallKind

(* What keeps AcquireLock's answers exclusive: a lock's stamp is its expiry. *)
LockInv == LeaseInv(0)

(* What keeps LeaderElection's answers exclusive: the leader's stamp is its *)
(* last heartbeat, and its row is good for the ttl after it.                *)
LeaderInv == LeaseInv(TTL)

Abstract == INSTANCE Lease

(* The calls that acquire and give up a lock or the leadership implement a  *)
(* lease, with every driver.                                                *)
ImplementsLease == Abstract!Spec
=============================================================================
