-------------------------- MODULE SchedulerProofs --------------------------
(***************************************************************************)
(* ContextsCancelled is inductive, and with it a run that outlives Stop    *)
(* enqueues nothing.                                                       *)
(***************************************************************************)
EXTENDS Scheduler, TLAPS

LEMMA ContextsStep == ContextsCancelled /\ [Next]_vars => ContextsCancelled'
  <1> SUFFICES ASSUME ContextsCancelled, [Next]_vars PROVE ContextsCancelled'
    OBVIOUS
  <1> USE SchedulerAssumption DEF ContextsCancelled, TypeOK
  <1>1. ASSUME NEW l \in Listeners, Observe(l) PROVE ContextsCancelled'
    BY <1>1 DEF Observe
  <1>2. ASSUME NEW j \in Jobs, Register(j) \/ Remove(j) PROVE ContextsCancelled'
    <2>1. CASE Register(j)
      BY <2>1 DEF Register
    <2>2. CASE Remove(j)
      BY <2>2 DEF Remove
    <2> QED
      BY <1>2, <2>1, <2>2
  <1>3. CASE Start
    BY <1>3 DEF Start
  <1>4. CASE Stop
    BY <1>4 DEF Stop
  <1>5. CASE Stopped \/ StopGivesUp
    <2>1. CASE Stopped
      BY <2>1 DEF Stopped
    <2>2. CASE StopGivesUp
      BY <2>2 DEF StopGivesUp
    <2> QED
      BY <1>5, <2>1, <2>2
  <1>6. ASSUME NEW r \in Runs, Fire(r) PROVE ContextsCancelled'
    BY <1>6 DEF Fire, Run, NoRun
  <1>7. ASSUME NEW r \in Runs, Lock(r) PROVE ContextsCancelled'
    <2>1. UNCHANGED <<running, stopping, ctx, cancelled, jobs, listeners, cronRunning>>
      BY <1>7 DEF Lock
    <2>2. ctx \in 1..ctx
      BY <1>7 DEF Lock
    <2>3. /\ runs' \in [Runs -> Run]
          /\ \A q \in Runs : /\ runs'[q].pc = "lock" => runs[q].pc = "lock"
                             /\ runs'[q].pc = "dispatch" => runs'[q].ctx \in 1..ctx
      <3> DEFINE locked == [runs[r] EXCEPT !.pc = "dispatch", !.ctx = ctx, !.due = listeners]
      <3>1. runs' \in [Runs -> Run]
        <4>1. locked \in Run
          BY DEF Run
        <4>2. runs' = [runs EXCEPT ![r] = locked]
          BY <1>7 DEF Lock
        <4> HIDE DEF locked
        <4> QED
          BY <4>1, <4>2
      <3>2. runs'[r].pc = "dispatch" /\ runs'[r].ctx = ctx
        BY <1>7 DEF Lock, Run
      <3>3. \A q \in Runs \ {r} : runs'[q] = runs[q]
        BY <1>7 DEF Lock
      <3> QED
        BY <2>2, <3>1, <3>2, <3>3
    <2> QED
      BY <2>1, <2>3
  <1>8. ASSUME NEW r \in Runs, Enqueue(r) \/ DispatchFails(r) PROVE ContextsCancelled'
    BY <1>8 DEF Enqueue, DispatchFails, Run
  <1>9. ASSUME NEW r \in Runs, NEW l \in Listeners, Deliver(r, l) PROVE ContextsCancelled'
    BY <1>9 DEF Deliver, Run
  <1>10. ASSUME NEW r \in Runs, End(r) PROVE ContextsCancelled'
    BY <1>10 DEF End, Run, NoRun
  <1>11. CASE UNCHANGED vars
    BY <1>11 DEF vars
  <1> QED
    BY <1>1, <1>2, <1>3, <1>4, <1>5, <1>6, <1>7, <1>8, <1>9, <1>10, <1>11 DEF Next, RunStep

(* Of all contexts only the current one is alive, and only while the        *)
(* scheduler runs.                                                          *)
THEOREM ContextsInvariant == Spec => []ContextsCancelled
  <1>1. Init => ContextsCancelled
    <2>1. Init => TypeOK
      <3>1. Init => running \in BOOLEAN /\ stopping \in BOOLEAN /\ cronRunning \in BOOLEAN
        BY DEF Init
      <3>2. Init => /\ ctx \in Nat /\ cancelled \subseteq Nat /\ runs \in [Runs -> Run]
                    /\ jobs \subseteq Jobs /\ listeners \subseteq Listeners
        BY DEF Init, Run, NoRun
      <3> QED
        BY <3>1, <3>2 DEF TypeOK
    <2>2. Init => \A c \in 1..ctx : c \notin cancelled => c = ctx /\ running
      BY DEF Init
    <2>3. Init => (cronRunning => ctx # 0)
      BY DEF Init
    <2>4. Init => \A r \in Runs : runs[r].pc = "idle"
      BY DEF Init, NoRun
    <2> QED
      BY <2>1, <2>2, <2>3, <2>4 DEF ContextsCancelled
  <1> QED
    BY <1>1, ContextsStep, PTL DEF Spec

(* No run enqueues a job after Stop, however late it is: in particular not  *)
(* one that Stop gave up waiting for.                                       *)
THEOREM NoLateEnqueue == Spec => EnqueuesWhileRunning
  <1>1. ContextsCancelled /\ [Next]_vars => [\A r \in Runs : Enqueue(r) => running]_vars
    <2> SUFFICES ASSUME ContextsCancelled, NEW r \in Runs, Enqueue(r) PROVE running
      OBVIOUS
    <2> QED
      BY DEF Enqueue, ContextsCancelled
  <1> QED
    BY <1>1, ContextsInvariant, PTL DEF Spec, EnqueuesWhileRunning
-----------------------------------------------------------------------------
(* A run that waits for the mutex will read at least the listeners it has   *)
(* seen, because none is ever removed; after that it owes each of them a    *)
(* report or has made it.                                                   *)
Owed ==
    \A r \in Runs :
        /\ runs[r].pc = "lock" => runs[r].seen \subseteq listeners
        /\ runs[r].pc \in {"dispatch", "deliver"} => runs[r].seen \subseteq runs[r].due \cup runs[r].told

(* What a run was told of stays owed whatever any other goroutine does.     *)
LEMMA OwedStep == ContextsCancelled /\ Owed /\ [Next]_vars => Owed'
  <1> SUFFICES ASSUME TypeOK, Owed, [Next]_vars PROVE Owed'
    BY DEF ContextsCancelled
  <1> USE DEF Owed, TypeOK
  <1>1. ASSUME NEW l \in Listeners, Observe(l) PROVE Owed'
    BY <1>1 DEF Observe
  <1>2. ASSUME NEW j \in Jobs, Register(j) \/ Remove(j) PROVE Owed'
    BY <1>2 DEF Register, Remove
  <1>3. CASE Start \/ Stop \/ Stopped \/ StopGivesUp
    BY <1>3 DEF Start, Stop, Stopped, StopGivesUp
  <1>4. ASSUME NEW r \in Runs, Fire(r) PROVE Owed'
    BY <1>4 DEF Fire, NoRun, Run
  <1>5. ASSUME NEW r \in Runs, Lock(r) PROVE Owed'
    BY <1>5 DEF Lock, Run
  <1>6. ASSUME NEW r \in Runs, Enqueue(r) \/ DispatchFails(r) PROVE Owed'
    BY <1>6 DEF Enqueue, DispatchFails, Run
  <1>7. ASSUME NEW r \in Runs, NEW l \in Listeners, Deliver(r, l) PROVE Owed'
    BY <1>7 DEF Deliver, Run
  <1>8. ASSUME NEW r \in Runs, End(r) PROVE Owed'
    BY <1>8 DEF End, NoRun, Run
  <1>9. CASE UNCHANGED vars
    BY <1>9 DEF vars
  <1> QED
    BY <1>1, <1>2, <1>3, <1>4, <1>5, <1>6, <1>7, <1>8, <1>9 DEF Next, RunStep

(* When a run ends it has told every listener there was when its entry      *)
(* fired, whether its dispatch worked or not and whatever Stop did.         *)
THEOREM RunsReported == Spec => EveryRunTold
  <1>1. Init => Owed
    BY DEF Init, Owed, NoRun
  <1>2. TypeOK /\ Owed /\ [Next]_vars =>
          [\A r \in Runs : runs[r].pc # "idle" /\ runs'[r].pc = "idle"
                              => runs[r].seen \subseteq runs[r].told]_vars
    <2> SUFFICES ASSUME TypeOK, Owed, Next, NEW r \in Runs, runs[r].pc # "idle", runs'[r].pc = "idle"
                 PROVE  runs[r].seen \subseteq runs[r].told
      OBVIOUS
    <2> USE DEF TypeOK
    <2>1. ASSUME NEW q \in Runs, Fire(q) PROVE FALSE
      BY <2>1 DEF Fire, NoRun, Run
    <2>2. ASSUME NEW q \in Runs, Lock(q) \/ Enqueue(q) \/ DispatchFails(q) PROVE FALSE
      BY <2>2 DEF Lock, Enqueue, DispatchFails, Run
    <2>3. ASSUME NEW q \in Runs, NEW l \in Listeners, Deliver(q, l) PROVE FALSE
      BY <2>3 DEF Deliver, Run
    <2>4. ASSUME NEW q \in Runs, End(q) PROVE runs[r].seen \subseteq runs[r].told
      BY <2>4 DEF End, Owed, Run
    <2>5. runs' = runs => FALSE
      OBVIOUS
    <2> QED
      BY <2>1, <2>2, <2>3, <2>4, <2>5
      DEF Next, RunStep, Observe, Register, Remove, Start, Stop, Stopped, StopGivesUp
  <1>3. ContextsCancelled => TypeOK
    BY DEF ContextsCancelled
  <1> QED
    BY <1>1, <1>2, <1>3, OwedStep, ContextsInvariant, PTL DEF Spec, EveryRunTold
=============================================================================
