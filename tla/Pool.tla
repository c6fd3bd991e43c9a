--------------------------------- MODULE Pool ---------------------------------
(***************************************************************************)
(* One worker pool: Start, Stop and Scale of pool.go, with the supervisor's *)
(* PauseQueue, ResumeQueue, ScaleQueue and autoscaling, which all end in    *)
(* Scale.  The operations run under the pool's mutex; the goroutines they   *)
(* start do not.                                                            *)
(*                                                                          *)
(* p.workers is a Go slice: an array and a length.  Several slices share    *)
(* one array, append writes in place while there is room, and a goroutine   *)
(* that walks a slice (here: a sweep) reads each cell when it gets there.   *)
(* A worker is alive until its done channel is closed or its context ends.  *)
(*                                                                          *)
(* Nothing keeps Scale from putting a new worker in a cell that the         *)
(* goroutine of an earlier Scale has still to read.  The worker that was    *)
(* there is then lost, since nothing will stop it, and the new one doomed,  *)
(* since the goroutine will stop it in the other's stead.  lost and doomed  *)
(* are history variables: no action reads them.                             *)
(***************************************************************************)
EXTENDS Naturals, Sequences, FiniteSets, FiniteSetsExt

CONSTANTS
    MaxWorkers, \* QueueConfig.MaxWorkers
    Targets,    \* what Scale may be asked for
    Growth(_, _), \* how large append makes an array of some capacity that is to hold
                  \* more cells than it has room for
    MaxStarts,  \* how often Start may be called
    MaxSpawned  \* how many workers may be started

ASSUME PoolAssumption ==
    /\ MaxWorkers \in Nat \ {0}
    /\ Targets \subseteq Nat
    /\ \A n \in Targets \cup {1, MaxWorkers} : \A c \in 0..(n - 1) :
          Growth(c, n) \in Nat /\ Growth(c, n) >= n
    /\ MaxStarts \in Nat /\ MaxSpawned \in Nat

VARIABLES
    running,  \* p.running
    arrays,   \* the arrays allocated so far, each a sequence of cells
    workers,  \* p.workers: [array, len]
    watched,  \* the slice that watch was started with
    sweeps,   \* goroutines that stop the workers of a slice
    alive,    \* the workers whose loop has not been told to end
    ctxEnded, \* the context given to the last Start has ended
    starts,   \* how often Start was called
    spawned,  \* how many workers were started
    asked,    \* how many workers the pool was last asked to have
    lost,     \* the workers that Scale overwrote before a sweep had read them
    doomed    \* the workers that Scale put in their cells

history == <<lost, doomed>>

vars == <<running, arrays, workers, watched, sweeps, alive, ctxEnded, starts, spawned, asked, history>>

NoSlice == [array |-> 0, len |-> 0]

NoWorker == [id |-> 0, start |-> 0, bound |-> FALSE]

Init ==
    /\ running = FALSE /\ ctxEnded = FALSE
    /\ arrays = <<>>
    /\ workers = NoSlice /\ watched = NoSlice
    /\ sweeps = {} /\ alive = {}
    /\ starts = 0 /\ spawned = 0 /\ asked = 0
    /\ lost = {} /\ doomed = {}

Cap(slice) == IF slice = NoSlice THEN 0 ELSE Len(arrays[slice.array])

Contents(slice) == {arrays[slice.array][i] : i \in 1..slice.len}

(* A worker of the pool's n-th Start; bound is whether it has Start's       *)
(* context, which the workers of Scale do not.                              *)
Worker(id, n, bound) == [id |-> id, start |-> n, bound |-> bound]

(* A goroutine over the cells from..to; spawned tells apart the sweeps of   *)
(* one region.                                                              *)
Sweep(array, from, to) ==
    [array |-> array, next |-> from, last |-> to, start |-> starts, tag |-> spawned]

-----------------------------------------------------------------------------
(* Faulty: the old array is used again, workers = p.workers[:0]. *)
StartInPlace ==
    /\ ~running
    /\ starts < MaxStarts /\ spawned + MaxWorkers <= MaxSpawned
    /\ starts' = starts + 1
    /\ spawned' = spawned + MaxWorkers
    /\ LET new == [i \in 1..MaxWorkers |-> Worker(spawned + i, starts + 1, TRUE)]
           old == workers.array
       IN /\ arrays' = IF old = 0 THEN <<new>>
                       ELSE [arrays EXCEPT ![old] =
                               [i \in 1..Len(@) |-> IF i <= MaxWorkers THEN new[i] ELSE @[i]]]
          /\ workers' = [array |-> Max({old, 1}), len |-> MaxWorkers]
          /\ alive' = alive \cup {new[i] : i \in 1..MaxWorkers}
    /\ watched' = workers'
    /\ running' = TRUE /\ ctxEnded' = FALSE
    /\ asked' = MaxWorkers
    /\ UNCHANGED <<sweeps, history>>

Start ==
    /\ ~running
    /\ starts < MaxStarts /\ spawned + MaxWorkers <= MaxSpawned
    /\ starts' = starts + 1
    /\ spawned' = spawned + MaxWorkers
    /\ LET new == [i \in 1..MaxWorkers |-> Worker(spawned + i, starts + 1, TRUE)] IN
          /\ arrays' = Append(arrays, new)
          /\ workers' = [array |-> Len(arrays) + 1, len |-> MaxWorkers]
          /\ alive' = alive \cup {new[i] : i \in 1..MaxWorkers}
    /\ watched' = workers'
    /\ running' = TRUE /\ ctxEnded' = FALSE
    /\ asked' = MaxWorkers
    /\ UNCHANGED <<sweeps, history>>

(* Faulty: the workers are left to watch, which knows only the first ones. *)
StopByWatch ==
    /\ running
    /\ running' = FALSE
    /\ sweeps' = sweeps \cup {Sweep(watched.array, 1, watched.len)}
    /\ UNCHANGED <<arrays, workers, watched, alive, ctxEnded, starts, spawned, asked, history>>

(* Stop tells every worker of p.workers to end before it returns; closing   *)
(* p.stop sets watch off over the slice it was started with.                *)
Stop ==
    /\ running
    /\ running' = FALSE
    /\ alive' = alive \ Contents(workers)
    /\ sweeps' = sweeps \cup {Sweep(watched.array, 1, watched.len)}
    /\ UNCHANGED <<arrays, workers, watched, ctxEnded, starts, spawned, asked, history>>

-----------------------------------------------------------------------------
(* The cells that append is going to write and a sweep has still to read. *)
Unread(target) ==
    {i \in (workers.len + 1)..target :
        \E s \in sweeps : s.array = workers.array /\ i \in s.next..s.last}

(* Appending one worker at a time: the room in the old array is used up     *)
(* before a new one is allocated.                                           *)
ScaleUp(target) ==
    LET len   == workers.len
        cap   == Cap(workers)
        count == target - len
        fresh == [i \in 1..count |-> Worker(spawned + i, starts, FALSE)]
        cell(i) == IF i <= len THEN arrays[workers.array][i] ELSE fresh[i - len]
        filled == IF cap = 0 THEN arrays
                  ELSE [arrays EXCEPT ![workers.array] =
                           [i \in 1..cap |-> IF i <= target THEN cell(i) ELSE @[i]]]
    IN /\ spawned + count <= MaxSpawned
       /\ spawned' = spawned + count
       /\ alive' = alive \cup {fresh[i] : i \in 1..count}
       /\ IF target <= cap
             THEN /\ arrays' = filled
                  /\ workers' = [workers EXCEPT !.len = target]
             ELSE /\ arrays' = Append(filled, [i \in 1..Growth(cap, target) |->
                                                 IF i <= target THEN cell(i) ELSE NoWorker])
                  /\ workers' = [array |-> Len(arrays) + 1, len |-> target]
       /\ lost' = lost \cup {arrays[workers.array][i] : i \in Unread(target)}
       /\ doomed' = doomed \cup {fresh[i - len] : i \in Unread(target)}
       /\ UNCHANGED sweeps

(* Faulty: the first worker to be removed is kept. *)
ScaleDownOffByOne(target) ==
    /\ workers' = [workers EXCEPT !.len = target]
    /\ sweeps' = sweeps \cup {Sweep(workers.array, target + 2, workers.len)}
    /\ UNCHANGED <<arrays, alive, spawned, history>>

(* toRemove := p.workers[target:], left to a goroutine. *)
ScaleDown(target) ==
    /\ workers' = [workers EXCEPT !.len = target]
    /\ sweeps' = sweeps \cup {Sweep(workers.array, target + 1, workers.len)}
    /\ UNCHANGED <<arrays, alive, spawned, history>>

(* Faulty: a pool may be left without workers. *)
ClampNot(target) == target

Clamp(target) == IF target < 1 THEN 1 ELSE target

(* ScalePool finds a pool from its Start to its Stop. *)
Scale(target) ==
    /\ running
    /\ asked' = target
    /\ LET t == Clamp(target) IN
          \/ t > workers.len /\ ScaleUp(t)
          \/ t < workers.len /\ ScaleDown(t)
          \/ t = workers.len /\ UNCHANGED <<arrays, workers, sweeps, alive, spawned, history>>
    /\ UNCHANGED <<running, watched, ctxEnded, starts>>

PauseQueue == Scale(0)

ResumeQueue == Scale(MaxWorkers)

-----------------------------------------------------------------------------
(* A sweep reads its next cell and tells the worker it finds there to end. *)
SweepStep(s) ==
    /\ s.next <= s.last
    /\ alive' = alive \ {arrays[s.array][s.next]}
    /\ sweeps' = (sweeps \ {s}) \cup {[s EXCEPT !.next = @ + 1]}
    /\ UNCHANGED <<running, arrays, workers, watched, ctxEnded, starts, spawned, asked, history>>

SweepEnds(s) ==
    /\ s.next > s.last
    /\ sweeps' = sweeps \ {s}
    /\ UNCHANGED <<running, arrays, workers, watched, alive, ctxEnded, starts, spawned, asked, history>>

(* The context given to Start ends, as when the supervisor stops. *)
CtxEnds ==
    /\ starts > 0 /\ ~ctxEnded
    /\ ctxEnded' = TRUE
    /\ alive' = {w \in alive : ~w.bound}
    /\ UNCHANGED <<running, arrays, workers, watched, sweeps, starts, spawned, asked, history>>

Next ==
    \/ Start \/ Stop \/ PauseQueue \/ ResumeQueue \/ CtxEnds
    \/ \E target \in Targets : Scale(target)
    \/ \E s \in sweeps : SweepStep(s) \/ SweepEnds(s)

Spec == Init /\ [][Next]_vars

-----------------------------------------------------------------------------
Settled == sweeps = {} /\ ~ctxEnded

Kept == IF running THEN Contents(workers) ELSE {}

(* With no goroutine at work, the workers that are alive are those of       *)
(* p.workers while the pool runs and none after Stop, but for the overlap   *)
(* of Scales, and with that exactly: only an overwritten worker goes on     *)
(* claiming jobs unseen, and the workers of p.workers that do not work are  *)
(* those written over one.                                                  *)
Tracked ==
    Settled => /\ alive \ Kept \subseteq lost
               /\ Kept \ alive = Kept \cap doomed

(* A running pool has, once it has settled, as many workers as it was last  *)
(* asked for, but at least one: not counting the lost ones, and short of    *)
(* those of p.workers that were doomed.                                     *)
HonoursTarget ==
    Settled /\ running =>
        Cardinality(alive \ lost) + Cardinality(Contents(workers) \cap doomed) = Max({asked, 1})

(* However Pause, Resume and Scale overlap with the goroutines of earlier   *)
(* ones, with the watch of an earlier Start included, the first worker of a *)
(* running pool keeps working, so that its queue never goes unserved.       *)
KeepsOne == running /\ ~ctxEnded => arrays[workers.array][1] \in alive

(* Once the goroutines are done, the workers alive are those of p.workers   *)
(* while the pool runs and none after Stop.                                 *)
NoneLost == Settled => alive = Kept

(* What is left over from before a restart, the watch goroutine of the      *)
(* earlier Start or one of its Scales, never stops a worker of the          *)
(* restarted pool.                                                          *)
RestartIsolated ==
    [][\A s \in sweeps : SweepStep(s) => \A w \in alive \ alive' : w.start = s.start]_vars
=============================================================================
