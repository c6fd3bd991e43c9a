-------------------------------- MODULE Lease --------------------------------
(***************************************************************************)
(* What a driver promises about one lease, be it a lock key or the         *)
(* leadership: a node is told until when it owns the lease, and as long as *)
(* that time has not come no other node is told that it owns it.           *)
(* Locks and Leadership are shown to implement this.                       *)
(***************************************************************************)
EXTENDS Naturals

CONSTANT Nodes

VARIABLES
    now,   \* the clock
    lease  \* lease[n]: until when node n may think that it owns the lease

Held(n) == lease[n] > now

Init == now = 0 /\ lease = [n \in Nodes |-> 0]

(* Node n obtains the lease, or a longer one, while nobody else holds it. *)
Grant(n) ==
    /\ \A m \in Nodes \ {n} : ~Held(m)
    /\ lease'[n] \in Nat
    /\ lease' = [lease EXCEPT ![n] = lease'[n]]
    /\ UNCHANGED now

(* Node n gives the lease up, or forgets about it in a crash. *)
Drop(n) == lease' = [lease EXCEPT ![n] = 0] /\ UNCHANGED now

Tick == now' = now + 1 /\ UNCHANGED lease

Next == Tick \/ \E n \in Nodes : Grant(n) \/ Drop(n)

Spec == Init /\ [][Next]_<<now, lease>>
=============================================================================
