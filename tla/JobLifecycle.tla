---------------------------- MODULE JobLifecycle ----------------------------
(***************************************************************************)
(* What a tasker driver promises about each job, whatever the storage: a   *)
(* job waits, is taken by a worker while it has attempts left, and is then *)
(* finished or released; only an operator's retry restores its attempts    *)
(* and only a finished job is purged.  A job parked behind another one of  *)
(* its chain is never taken: nothing but a cancellation moves it.  Several *)
(* jobs may change in one step (a batch, a requeue, a prune).              *)
(***************************************************************************)
EXTENDS Integers

CONSTANT Jobs

VARIABLE life \* [Jobs -> [phase, tries, max]]

Phases == {"new", "parked", "waiting", "running", "done", "gone"}

Init == \A j \in Jobs : life[j].phase = "new" /\ life[j].tries = 0

(* Moves of one job from l to m. *)
Submit(l, m) ==
    l.phase = "new" /\ m.phase \in {"parked", "waiting"} /\ m.tries = 0 /\ m.max \in Int

Take(l, m) ==
    /\ l.phase = "waiting" /\ l.tries < l.max
    /\ m = [phase |-> "running", tries |-> l.tries + 1, max |-> l.max]

Release(l, m) ==
    l.phase = "running" /\ m = [l EXCEPT !.phase = "waiting"]

Finish(l, m) ==
    l.phase \in {"parked", "waiting", "running"} /\ m = [l EXCEPT !.phase = "done"]

Reset(l, m) ==
    l.phase \in {"waiting", "done"} /\ m = [phase |-> "waiting", tries |-> 0, max |-> l.max]

Purge(l, m) ==
    l.phase = "done" /\ m.phase = "gone"

Move(l, m) ==
    \/ Submit(l, m) \/ Take(l, m)  \/ Release(l, m)
    \/ Finish(l, m) \/ Reset(l, m) \/ Purge(l, m)

Next == \A j \in Jobs : life'[j] = life[j] \/ Move(life[j], life'[j])

Spec == Init /\ [][Next]_life

-----------------------------------------------------------------------------
(* What follows from the life cycle: a running job is in one of the tries it *)
(* is allowed, and a parked one has never been tried.                        *)
WithinMax ==
    \A j \in Jobs :
        /\ life[j].phase = "running" => life[j].tries \in 1..life[j].max
        /\ life[j].phase = "parked" => life[j].tries = 0
=============================================================================
