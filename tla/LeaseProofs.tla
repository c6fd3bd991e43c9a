----------------------------- MODULE LeaseProofs -----------------------------
(***************************************************************************)
(* The two leases of a cluster, leadership and a lock key, implement Lease *)
(* with each of the drivers, and Lease excludes.  LeaderInv and LockInv    *)
(* are inductive; both say that a row or key in the store backs every      *)
(* unexpired answer, and both rest on how far a store may round the times  *)
(* it keeps (StoredLate).                                                  *)
(***************************************************************************)
EXTENDS Leadership, TLAPS

(* The locks, with the constants and variables of LeaseCalls; a theorem     *)
(* about Lock!Spec is one about Locks alone.                                *)
Lock == INSTANCE Locks

(* What a lease needs to know of the times its store keeps. *)
LEMMA Division ==
    ASSUME NEW a \in Nat, NEW b \in Nat \ {0}
    PROVE  a \div b \in Nat /\ (a \div b) * b <= a /\ a < (a \div b) * b + b
OBVIOUS

(* A store never moves a time forward or back by more than half a second:   *)
(* here, that what it keeps is at most Slack early.                         *)
LEMMA StoredLate ==
    ASSUME NEW d \in Drivers, NEW t \in Nat
    PROVE  /\ Stored(d, t) \in Nat
           /\ Slack(d) \in 0..Resolution
           /\ Stored(d, t) + Slack(d) >= t
<1> DEFINE q == (2 * t + Resolution) \div (2 * Resolution)
           h == Resolution \div 2
<1>0. 2 * t + Resolution \in Nat /\ 2 * Resolution \in Nat \ {0}
    BY ResolutionAssumption
<1>1. q \in Nat /\ 2 * t + Resolution < q * (2 * Resolution) + 2 * Resolution
    BY <1>0, Division
<1>2. h \in Nat /\ h * 2 <= Resolution /\ Resolution < h * 2 + 2
    BY ResolutionAssumption, Division
<1> HIDE DEF q, h
<1>3. q * (2 * Resolution) = 2 * (q * Resolution) /\ q * Resolution \in Nat
    BY ResolutionAssumption, <1>1
<1>4. Rounded(t) \in Nat /\ Rounded(t) + h >= t
    BY <1>1, <1>2, <1>3, ResolutionAssumption DEF Rounded, q
<1> QED BY <1>2, <1>4, ResolutionAssumption DEF Stored, Slack, h

-----------------------------------------------------------------------------
(* What Lease promises excludes: a grant finds nobody else holding the      *)
(* lease, and neither time nor a drop makes a holder.  So whatever          *)
(* implements Lease never makes two nodes the owner at once.                *)
THEOREM LeaseExcludes == ImplementsLease => []Exclusive
  <1> DEFINE Inv == now \in Nat /\ lease \in [Nodes -> Nat] /\ Exclusive
  <1>1. Abstract!Init => Inv
    BY DEF Abstract!Init, Exclusive, Held
  <1>2. Inv /\ [Abstract!Next]_<<now, lease>> => Inv'
    <2> SUFFICES ASSUME Inv, [Abstract!Next]_<<now, lease>> PROVE Inv'
      OBVIOUS
    <2>1. CASE Abstract!Tick
      BY <2>1 DEF Abstract!Tick, Exclusive, Held
    <2>2. ASSUME NEW n \in Nodes, Abstract!Grant(n) PROVE Inv'
      <3>1. \A m \in Nodes \ {n} : lease[m] <= now /\ lease'[m] = lease[m]
        BY <2>2 DEF Abstract!Grant, Abstract!Held
      <3> QED
        BY <2>2, <3>1 DEF Abstract!Grant, Exclusive, Held
    <2>3. ASSUME NEW n \in Nodes, Abstract!Drop(n) PROVE Inv'
      BY <2>3 DEF Abstract!Drop, Exclusive, Held
    <2>4. CASE UNCHANGED <<now, lease>>
      BY <2>4 DEF Exclusive, Held
    <2> QED
      BY <2>1, <2>2, <2>3, <2>4 DEF Abstract!Next
  <1>3. Inv => Exclusive
    OBVIOUS
  <1> QED
    BY <1>1, <1>2, <1>3, PTL DEF ImplementsLease, Abstract!Spec

-----------------------------------------------------------------------------
(* Leadership.  The invariant holds at the start. *)
LEMMA LeaderInvInit == Init => LeaderInv
  <1>1. Init => \A n \in Nodes : lease[n] <= now + TTL - Slack(driver)
    BY CallsAssumption, ResolutionAssumption, StoredLate DEF Init, NoCalls
  <1> QED
    BY <1>1, CallsAssumption
    DEF Init, NoCalls, LeaderInv, LeaseInv, CallTypes, Backed, CallTimes, OwnRow, CallKind, PCs, Held

(* One step per statement of an election. *)
LEMMA LeaderInvStep == LeaderInv /\ [Next]_vars => LeaderInv'
  <1> SUFFICES ASSUME LeaderInv, [Next]_vars PROVE LeaderInv'
    OBVIOUS
  <1> USE CallsAssumption, ResolutionAssumption
      DEF LeaderInv, LeaseInv, CallTypes, PCs, CallKind
  <1>a. /\ Slack(driver) \in Nat /\ Slack(driver) <= TTL
        /\ \A n \in Nodes : /\ Stored(driver, at[n]) \in Nat
                            /\ Stored(driver, at[n]) >= at[n] - Slack(driver)
    BY StoredLate
  <1>1. CASE Tick
    BY <1>1, <1>a DEF Tick, Backed, CallTimes, OwnRow, Held
  <1>2. ASSUME NEW n \in Nodes, Start(n) \/ StatementFails(n) PROVE LeaderInv'
    BY <1>2, <1>a DEF Start, StatementFails, GoTo, Backed, CallTimes, OwnRow, Held
  <1>3. ASSUME NEW n \in Nodes, Stop(n) PROVE LeaderInv'
    BY <1>3, <1>a DEF Stop, GoTo, Backed, CallTimes, OwnRow, Held
  <1>4. ASSUME NEW n \in Nodes, TryBecomeLeader(n) PROVE LeaderInv'
    BY <1>4, <1>a
    DEF TryBecomeLeader, GoTo, Backed, CallTimes, OwnRow, Held, Drivers
  <1>5. ASSUME NEW n \in Nodes, Update(n) PROVE LeaderInv'
    BY <1>5, <1>a DEF Update, Takes, AnswerTrue, GoTo, Backed, CallTimes, OwnRow, Held
  <1>6. ASSUME NEW n \in Nodes, Insert(n) PROVE LeaderInv'
    BY <1>6, <1>a DEF Insert, AnswerTrue, GoTo, Backed, CallTimes, OwnRow, Held
  <1>7. ASSUME NEW n \in Nodes, Select(n) PROVE LeaderInv'
    BY <1>7, <1>a DEF Select, AnswerTrue, GoTo, Backed, CallTimes, OwnRow, Held
  <1>8. ASSUME NEW n \in Nodes, ResignLeadership(n) PROVE LeaderInv'
    BY <1>8, <1>a DEF ResignLeadership, Current, Backed, CallTimes, OwnRow, Held
  <1>9. ASSUME NEW n \in Nodes, Renew(n) PROVE LeaderInv'
    <2>1. driver = "redis" /\ pc[n] # "idle" /\ \A m \in Nodes : pc[m] \in {"idle", "renew"}
      BY <1>9 DEF Renew
    <2>2. Current \in {n, NoNode} => \A m \in Nodes \ {n} : lease[m] <= now
      BY <2>1 DEF Current, Backed, Held
    <2> QED
      BY <1>9, <1>a, <2>1, <2>2
      DEF Renew, AnswerTrue, GoTo, Backed, CallTimes, OwnRow, Held
  <1>10. CASE UNCHANGED vars
    BY <1>10 DEF vars, Backed, CallTimes, OwnRow, Held
  <1> QED
    BY <1>1, <1>2, <1>3, <1>4, <1>5, <1>6, <1>7, <1>8, <1>9, <1>10 DEF Next

(* The invariant behind elections holds in every reachable state. *)
THEOREM LeaderInvariant == Spec => []LeaderInv
  BY LeaderInvInit, LeaderInvStep, PTL DEF Spec

(* IsLeader answers true to a winner for the whole of its term when the     *)
(* term is no longer than IsLeader's window.                                *)
THEOREM WinnerRecognised == Spec => []Recognised
  <1>1. LeaderInv => Recognised
    BY CallsAssumption, WindowAssumption
    DEF LeaderInv, LeaseInv, CallTypes, Backed, Recognised, Held, IsLeader, Current
  <1> QED
    BY <1>1, LeaderInvariant, PTL

(* Leadership is a lease: a won election is a grant, which finds nobody     *)
(* else holding it; stopping and resigning drop it.                         *)
THEOREM LeaderRefinement == Spec => ImplementsLease
  <1>1. Init => Abstract!Init
    BY DEF Init, NoCalls, Abstract!Init
  <1>2. LeaderInv /\ [Next]_vars => [Abstract!Next]_<<now, lease>>
    <2> SUFFICES ASSUME LeaderInv, [Next]_vars PROVE [Abstract!Next]_<<now, lease>>
      OBVIOUS
    <2> USE CallsAssumption, ResolutionAssumption
    DEF LeaderInv, LeaseInv, CallTypes, Abstract!Next
    <2>a. Slack(driver) \in Nat /\ Slack(driver) <= TTL
      BY StoredLate
    <2>1. ASSUME NEW n \in Nodes, AnswerTrue(n), now' = now, pc[n] # "idle",
                 Takes(n) \/ Current \in {n, NoNode}
          PROVE [Abstract!Next]_<<now, lease>>
      <3>1. \A m \in Nodes \ {n} : ~Abstract!Held(m)
        BY <2>1 DEF Takes, Current, Backed, CallTimes, Held, Abstract!Held
      <3>2. at[n] + TTL - Slack(driver) \in Nat
        BY <2>a
      <3> QED
        BY <2>1, <3>1, <3>2 DEF AnswerTrue, Abstract!Grant
    <2>2. CASE Tick
      BY <2>2 DEF Tick, Abstract!Tick
    <2>3. ASSUME NEW n \in Nodes, Start(n) \/ TryBecomeLeader(n) \/ StatementFails(n)
          PROVE UNCHANGED <<now, lease>>
      BY <2>3 DEF Start, TryBecomeLeader, StatementFails
    <2>4. ASSUME NEW n \in Nodes, Update(n) PROVE [Abstract!Next]_<<now, lease>>
      BY <2>1, <2>4 DEF Update
    <2>5. ASSUME NEW n \in Nodes, Insert(n) PROVE [Abstract!Next]_<<now, lease>>
      BY <2>1, <2>5 DEF Insert, Current
    <2>6. ASSUME NEW n \in Nodes, Select(n) PROVE [Abstract!Next]_<<now, lease>>
      BY <2>1, <2>6 DEF Select, Current
    <2>7. ASSUME NEW n \in Nodes, Stop(n) \/ ResignLeadership(n) PROVE Abstract!Drop(n)
      BY <2>7 DEF Stop, ResignLeadership, Abstract!Drop
    <2>8. ASSUME NEW n \in Nodes, Renew(n) PROVE [Abstract!Next]_<<now, lease>>
      BY <2>1, <2>8 DEF Renew
    <2>9. CASE UNCHANGED vars
      BY <2>9 DEF vars
    <2> QED
      BY <2>2, <2>3, <2>4, <2>5, <2>6, <2>7, <2>8, <2>9 DEF Next
  <1> QED
    BY <1>1, <1>2, LeaderInvariant, PTL DEF Spec, ImplementsLease, Abstract!Spec

(* LeaderElection never has two winners whose terms overlap. *)
THEOREM OneLeader == Spec => []Exclusive
  BY LeaderRefinement, LeaseExcludes, PTL

-----------------------------------------------------------------------------
(* Locks.  A lock's expiry is stored as a leader's heartbeat is. *)
LEMMA LockTimes ==
    /\ \A d, t : Lock!Stored(d, t) = Stored(d, t)
    /\ \A d : Lock!Slack(d) = Slack(d)
    /\ Lock!Drivers = Drivers
BY DEF Lock!Stored, Stored, Lock!Slack, Slack, Lock!Rounded, Rounded, Lock!Drivers, Drivers

(* The invariant holds when there is no row. *)
LEMMA LockInvInit == Lock!Init => LockInv
  <1>1. Lock!Init => driver \in Drivers
    BY LockTimes DEF Lock!Init, Lock!NoCalls
  <1>2. Lock!Init => \A n \in Nodes : lease[n] <= now + TTL - Slack(driver)
    BY <1>1, CallsAssumption, ResolutionAssumption, StoredLate DEF Lock!Init, Lock!NoCalls
  <1> QED
    BY <1>1, <1>2, CallsAssumption
    DEF Lock!Init, Lock!NoCalls, LockInv, LeaseInv, CallTypes, Backed, CallTimes,
        OwnRow, CallKind, PCs, Held

(* One step per statement: every statement keeps the row that backs an      *)
(* unexpired answer.                                                        *)
LEMMA LockInvStep == LockInv /\ [Lock!Next]_Lock!vars => LockInv'
  <1> SUFFICES ASSUME LockInv, [Lock!Next]_Lock!vars PROVE LockInv'
    OBVIOUS
  <1> USE CallsAssumption, ResolutionAssumption
      DEF LockInv, LeaseInv, CallTypes, PCs, CallKind
  <1>a. /\ Lock!Slack(driver) = Slack(driver)
        /\ Slack(driver) \in Nat /\ Slack(driver) <= TTL
        /\ \A n \in Nodes : /\ Lock!Stored(driver, at[n] + TTL) = Stored(driver, at[n] + TTL)
                            /\ Stored(driver, at[n] + TTL) \in Nat
                            /\ Stored(driver, at[n] + TTL) >= at[n] + TTL - Slack(driver)
    BY LockTimes, StoredLate
  <1>1. CASE Lock!Tick
    BY <1>1, <1>a
    DEF Lock!Tick, Backed, CallTimes, OwnRow, Held, Lock!Expired
  <1>2. ASSUME NEW n \in Nodes, Lock!AcquireLock(n) PROVE LockInv'
    BY <1>2, <1>a
    DEF Lock!AcquireLock, Lock!GoTo, Backed, CallTimes, OwnRow, Held,
        Lock!Expired, Lock!Drivers
  <1>3. ASSUME NEW n \in Nodes, Lock!Update(n) PROVE LockInv'
    BY <1>3, <1>a
    DEF Lock!Update, Lock!Renews, Lock!AnswerTrue, Lock!GoTo, Backed,
        CallTimes, OwnRow, Held, Lock!Expired
  <1>4. ASSUME NEW n \in Nodes, Lock!Delete(n) PROVE LockInv'
    BY <1>4, <1>a
    DEF Lock!Delete, Lock!GoTo, Backed, CallTimes, OwnRow, Held,
        Lock!Expired
  <1>5. ASSUME NEW n \in Nodes, Lock!Insert(n) PROVE LockInv'
    BY <1>5, <1>a
    DEF Lock!Insert, Lock!AnswerTrue, Lock!GoTo, Backed, CallTimes,
        OwnRow, Held, Lock!Expired
  <1>6. ASSUME NEW n \in Nodes, Lock!Select(n) PROVE LockInv'
    BY <1>6, <1>a
    DEF Lock!Select, Lock!AnswerTrue, Lock!GoTo, Backed, CallTimes,
        OwnRow, Held, Lock!Expired
  <1>7. ASSUME NEW n \in Nodes, Lock!Renew(n) PROVE LockInv'
    <2>1. driver = "redis" /\ pc[n] # "idle" /\ \A m \in Nodes : pc[m] \in {"idle", "renew"}
      BY <1>7 DEF Lock!Renew
    <2>2. Lock!Current \in {n, NoNode} => \A m \in Nodes \ {n} : lease[m] <= now
      BY <2>1 DEF Lock!Current, Backed, Held
    <2> QED
      BY <1>7, <1>a, <2>1, <2>2
      DEF Lock!Renew, Lock!AnswerTrue, Lock!GoTo, Backed, CallTimes,
          OwnRow, Held
  <1>8. ASSUME NEW n \in Nodes, Lock!StatementFails(n) PROVE LockInv'
    BY <1>8, <1>a
    DEF Lock!StatementFails, Lock!GoTo, Backed, CallTimes, OwnRow, Held,
        Lock!Expired
  <1>9. ASSUME NEW n \in Nodes, Lock!ReleaseLock(n) PROVE LockInv'
    BY <1>9, <1>a
    DEF Lock!ReleaseLock, Lock!Current, Backed, CallTimes, OwnRow, Held,
        Lock!Expired
  <1>10. CASE UNCHANGED Lock!vars
    BY <1>10
    DEF Lock!vars, Backed, CallTimes, OwnRow, Held, Lock!Expired
  <1> QED
    BY <1>1, <1>2, <1>3, <1>4, <1>5, <1>6, <1>7, <1>8, <1>9, <1>10 DEF Lock!Next

(* The invariant behind the lock holds in every reachable state, for any    *)
(* nodes, ttl, driver and resolution of its stored times.                   *)
THEOREM LockInvariant == Lock!Spec => []LockInv
  BY LockInvInit, LockInvStep, PTL DEF Lock!Spec

(* AcquireLock and ReleaseLock implement a lease: a statement that answers  *)
(* true is a grant, which finds nobody else holding the lease, a release is *)
(* a drop, and the other statements are invisible.                          *)
THEOREM LockRefinement == Lock!Spec => ImplementsLease
  <1>1. Lock!Init => Abstract!Init
    BY DEF Lock!Init, Lock!NoCalls, Abstract!Init
  <1>2. LockInv /\ [Lock!Next]_Lock!vars => [Abstract!Next]_<<now, lease>>
    <2> SUFFICES ASSUME LockInv, [Lock!Next]_Lock!vars
                 PROVE  [Abstract!Next]_<<now, lease>>
      OBVIOUS
    <2> USE CallsAssumption, ResolutionAssumption
        DEF LockInv, LeaseInv, CallTypes, Abstract!Next
    <2>a. Lock!Slack(driver) \in Nat /\ Lock!Slack(driver) <= TTL
      BY LockTimes, StoredLate
    <2>1. ASSUME NEW n \in Nodes, Lock!Current = n \/ Lock!Current = NoNode,
                 Lock!AnswerTrue(n), now' = now
          PROVE [Abstract!Next]_<<now, lease>>
      <3>1. \A m \in Nodes \ {n} : ~Abstract!Held(m)
        BY <2>1 DEF Lock!Current, Backed, Held, Abstract!Held
      <3>2. at[n] + TTL - Lock!Slack(driver) \in Nat
        BY <2>a
      <3> QED
        BY <2>1, <3>1, <3>2 DEF Lock!AnswerTrue, Abstract!Grant
    <2>2. CASE Lock!Tick
      BY <2>2 DEF Lock!Tick, Abstract!Tick
    <2>3. ASSUME NEW n \in Nodes, Lock!AcquireLock(n) \/ Lock!Delete(n) \/ Lock!StatementFails(n)
          PROVE UNCHANGED <<now, lease>>
      BY <2>3 DEF Lock!AcquireLock, Lock!Delete, Lock!StatementFails
    <2>4. ASSUME NEW n \in Nodes, Lock!Update(n) PROVE [Abstract!Next]_<<now, lease>>
      BY <2>1, <2>4 DEF Lock!Update, Lock!Renews, Lock!Current
    <2>5. ASSUME NEW n \in Nodes, Lock!Insert(n) PROVE [Abstract!Next]_<<now, lease>>
      BY <2>1, <2>5 DEF Lock!Insert, Lock!Current
    <2>6. ASSUME NEW n \in Nodes, Lock!Select(n) PROVE [Abstract!Next]_<<now, lease>>
      BY <2>1, <2>6 DEF Lock!Select, Lock!Current
    <2>7. ASSUME NEW n \in Nodes, Lock!Renew(n) PROVE [Abstract!Next]_<<now, lease>>
      BY <2>1, <2>7 DEF Lock!Renew
    <2>8. ASSUME NEW n \in Nodes, Lock!ReleaseLock(n) PROVE Abstract!Drop(n)
      BY <2>8 DEF Lock!ReleaseLock, Abstract!Drop
    <2>9. CASE UNCHANGED Lock!vars
      BY <2>9 DEF Lock!vars
    <2> QED
      BY <2>2, <2>3, <2>4, <2>5, <2>6, <2>7, <2>8, <2>9 DEF Lock!Next
  <1> QED
    BY <1>1, <1>2, LockInvariant, PTL
    DEF Lock!Spec, ImplementsLease, Abstract!Spec

(* AcquireLock never makes two nodes the owner at the same time. *)
THEOREM LockExclusion == Lock!Spec => []Exclusive
  BY LockRefinement, LeaseExcludes, PTL
=============================================================================
