-------------------------- MODULE RedisStoreProofs --------------------------
(***************************************************************************)
(* No script of the Redis driver leaves an index that disagrees with the   *)
(* documents, and every script moves a job along the life cycle that the   *)
(* SQL driver implements too.                                              *)
(*                                                                         *)
(* A script changes each job on its own, so the proofs are about one job:  *)
(* StoreStep lists what a step can do to its document and index entries.   *)
(***************************************************************************)
EXTENDS RedisStore, TLAPS

(* The document of a new job. *)
LEMMA NewDocumentTypes ==
    ASSUME NEW d \in NewDocuments
    PROVE  /\ d.doc \in Document
           /\ d.doc.state \in {"pending", "scheduled", "available"} /\ d.doc.attempt = 0
           /\ d.score \in {"future", "due"}
<1>1. PICK m \in MaxAttemptsChoices, t \in {"future", "due"}, p \in Priorities, c \in BOOLEAN :
         d = [doc |-> NewDocument(m, t, p, c), score |-> t]
    BY DEF NewDocuments
<1>2. m \in Int /\ p \in Int
    BY RedisAssumption
<1>3. NoDocument \in Document /\ NoDocument.attempt = 0
    BY DEF NoDocument, Document
<1>4. ASSUME NEW s \in {"pending", "scheduled", "available"}
      PROVE  [NoDocument EXCEPT !.state = s, !.max_attempts = m, !.priority = p] \in
                {doc \in Document : doc.state = s /\ doc.attempt = 0}
    BY <1>2, <1>3 DEF Document, States
<1>5. NewDocument(m, t, p, c) \in
        {doc \in Document : doc.state \in {"pending", "scheduled", "available"} /\ doc.attempt = 0}
    BY <1>4 DEF NewDocument
<1> QED BY <1>1, <1>5

(* One job's share of the store. *)
Entry(doc, d, r, uuid, id, made) ==
    /\ doc \in Document
    /\ d \in {"absent", "future", "due"} /\ r \in {"absent", "fresh", "stale"}
    /\ r # "absent" <=> doc.state = "running"
    /\ d # "absent" => doc.state \in QueuedStates
    /\ doc.state \in QueuedStates /\ doc.attempt < doc.max_attempts => d # "absent"
    /\ uuid <=> doc.state \in States
    /\ id <=> uuid
    /\ made <=> uuid

EntryOf(j) == Entry(jobs[j], due[j], running[j], j \in uuids, j \in ids, j \in created)

(* The whole store, but for the functions' domains. *)
Shape ==
    /\ jobs = [j \in Jobs |-> jobs[j]] /\ due = [j \in Jobs |-> due[j]]
    /\ running = [j \in Jobs |-> running[j]]
    /\ uuids \subseteq Jobs /\ ids \subseteq Jobs /\ created \subseteq Jobs

StoreInv == Shape /\ \A j \in Jobs : EntryOf(j)

LEMMA StoreInvMeans == StoreInv <=> TypeOK /\ IndexesAgree
<1>1. ASSUME StoreInv PROVE TypeOK /\ IndexesAgree
    BY <1>1 DEF StoreInv, Shape, EntryOf, Entry, TypeOK, IndexesAgree, Stored
<1>2. ASSUME TypeOK, IndexesAgree PROVE StoreInv
    <2>1. Shape
        BY <1>2 DEF Shape, TypeOK
    <2>2. ASSUME NEW j \in Jobs PROVE EntryOf(j)
        BY <1>2 DEF EntryOf, Entry, TypeOK, IndexesAgree, Stored
    <2> QED BY <2>1, <2>2 DEF StoreInv
<1> QED BY <1>1, <1>2

-----------------------------------------------------------------------------
(* What a script may do to one job. *)

MembersKept(j) ==
    /\ j \in uuids' <=> j \in uuids
    /\ j \in ids' <=> j \in ids
    /\ j \in created' <=> j \in created

(* The document moves to a state and, but for that, stays as it is. *)
Moves(j, from, to) ==
    /\ jobs[j].state \in from /\ jobs'[j] \in Document /\ jobs'[j].state = to
    /\ jobs'[j].max_attempts = jobs[j].max_attempts
    /\ MembersKept(j)

Submitted(j) ==
    /\ jobs[j].state = "none"
    /\ jobs'[j] \in Document /\ jobs'[j].attempt = 0
    /\ jobs'[j].state \in {"pending", "scheduled", "available"}
    /\ j \in uuids' /\ j \in ids' /\ j \in created'
    /\ running'[j] = running[j]
    /\ IF jobs'[j].state = "pending" THEN due'[j] = due[j] ELSE due'[j] \in {"future", "due"}

Claimed(j) ==
    /\ jobs[j].attempt < jobs[j].max_attempts
    /\ Moves(j, QueuedStates, "running") /\ jobs'[j].attempt = jobs[j].attempt + 1
    /\ due'[j] = "absent" /\ running'[j] = "fresh"

Released(j) ==
    /\ \E s \in {"retryable", "available"} : Moves(j, {"running"}, s)
    /\ jobs'[j].attempt = jobs[j].attempt
    /\ running'[j] = "absent" /\ due'[j] \in {"future", "due"}

Finished(j) ==
    /\ \E s \in TerminalStates : Moves(j, {"running", "pending"} \cup QueuedStates, s)
    /\ jobs'[j].attempt = jobs[j].attempt
    /\ running'[j] = "absent" /\ due'[j] = "absent"

Retried(j) ==
    /\ Moves(j, TerminalStates \cup {"retryable"}, "available") /\ jobs'[j].attempt = 0
    /\ running'[j] = "absent" /\ due'[j] = "due"

Pruned(j) ==
    /\ jobs[j].state \in TerminalStates
    /\ jobs'[j] \in Document /\ jobs'[j].state = "gone"
    /\ j \notin uuids' /\ j \notin ids' /\ j \notin created'
    /\ running'[j] = "absent" /\ due'[j] = "absent"

(* The document stays; time passes, or an unclaimable entry is dropped. *)
Kept(j) ==
    /\ jobs'[j] = jobs[j] /\ MembersKept(j)
    /\ \/ running'[j] = running[j]
       \/ running[j] # "absent" /\ running'[j] = "stale"
    /\ \/ due'[j] = due[j]
       \/ due[j] # "absent" /\ due'[j] = "due"
       \/ /\ ~(jobs[j].state \in QueuedStates /\ jobs[j].attempt < jobs[j].max_attempts)
          /\ due'[j] = "absent"

Changes(j) ==
    \/ Submitted(j) \/ Claimed(j) \/ Released(j) \/ Finished(j)
    \/ Retried(j)   \/ Pruned(j)  \/ Kept(j)

(* Every step keeps the functions functions of the jobs. *)
LEMMA ShapeStep ==
    ASSUME Shape, [Next]_vars
    PROVE  Shape'
<1>0. CASE UNCHANGED vars
    BY <1>0 DEF Shape, vars
<1>1. ASSUME NEW batch \in SUBSET Jobs, NEW new \in [batch -> NewDocuments], EnqueueBatch(new) PROVE Shape'
    BY <1>1 DEF EnqueueBatch, Shape
<1>2. ASSUME NEW j \in Jobs, Claim(j) \/ Complete(j) \/ Fail(j) \/ ScheduleRetry(j) \/ BecomeDue(j) \/ BecomeStale(j)
      PROVE  Shape'
    BY <1>2 DEF Claim, Complete, Fail, ScheduleRetry, BecomeDue, BecomeStale, Without, Shape
<1>3. CASE ClaimNothing \/ RequeueStale
    BY <1>3 DEF ClaimNothing, RequeueStale, Without, Shape
<1>4. ASSUME NEW batch \in SUBSET Jobs, RetryBatch(batch) \/ CancelBatch(batch) \/ Prune(batch) PROVE Shape'
    BY <1>4 DEF RetryBatch, CancelBatch, Prune, Without, Shape
<1> QED BY <1>0, <1>1, <1>2, <1>3, <1>4 DEF Next

LEMMA StepChanges ==
    ASSUME StoreInv, [Next]_vars, NEW k \in Jobs
    PROVE  Changes(k)
<1> USE DEF MembersKept
<1>a. /\ EntryOf(k) /\ jobs[k] \in Document /\ Shape
      /\ \A s : [jobs EXCEPT ![k] = s][k] = s
    BY DEF StoreInv, EntryOf, Entry, Shape
<1>0. CASE UNCHANGED vars
    BY <1>0 DEF vars, Changes, Kept
<1>1. ASSUME NEW batch \in SUBSET Jobs, NEW new \in [batch -> NewDocuments], EnqueueBatch(new)
      PROVE  Changes(k)
    <2>1. CASE k \in batch
        <3>1. /\ jobs'[k] = new[k].doc /\ k \in uuids' /\ k \in ids' /\ k \in created'
              /\ jobs[k].state = "none" /\ UNCHANGED running
              /\ due'[k] = IF new[k].doc.state \in QueuedStates THEN new[k].score ELSE due[k]
            BY <1>1, <2>1 DEF EnqueueBatch
        <3> QED BY <3>1, <2>1, NewDocumentTypes DEF Changes, Submitted, QueuedStates
    <2>2. CASE k \notin batch
        BY <1>1, <2>2 DEF EnqueueBatch, Changes, Kept
    <2> QED BY <2>1, <2>2
<1>2. ASSUME NEW j \in Jobs, Claim(j) PROVE Changes(k)
    <2>1. CASE k = j
        <3>1. jobs'[k] = [jobs[k] EXCEPT !.state = "running", !.attempt = @ + 1]
            BY <1>2, <2>1, <1>a DEF Claim, Document
        <3>2. jobs[k].attempt + 1 \in Nat /\ "running" \in States
            BY <1>a DEF Document, States
        <3>3. /\ jobs'[k] \in Document
              /\ jobs'[k].state = "running" /\ jobs'[k].attempt = jobs[k].attempt + 1
              /\ jobs'[k].max_attempts = jobs[k].max_attempts
            BY <3>1, <3>2, <1>a DEF Document
        <3>4. due'[k] = "absent" /\ running'[k] = "fresh" /\ Candidate(k)
            BY <1>2, <2>1, <1>a DEF Claim, Without, Shape
        <3> QED BY <1>2, <3>3, <3>4 DEF Claim, Candidate, Changes, Claimed, Moves
    <2>2. CASE k # j
        BY <1>2, <2>2, <1>a DEF Claim, Without, Dropped, Candidate, Shape, Changes, Kept
    <2> QED BY <2>1, <2>2
<1>3. CASE ClaimNothing
    BY <1>3 DEF ClaimNothing, Without, Dropped, Candidate, Changes, Kept
<1>4. ASSUME NEW j \in Jobs, Complete(j) \/ Fail(j) \/ ScheduleRetry(j) PROVE Changes(k)
    <2>1. CASE k # j
        BY <1>4, <2>1, <1>a DEF Complete, Fail, ScheduleRetry, Without, Shape, Changes, Kept
    <2>2. CASE k = j /\ Complete(j)
        <3>1. jobs'[k] = [jobs[k] EXCEPT !.state = "completed"]
            BY <2>2, <1>a DEF Complete, Document
        <3>2. jobs'[k] \in Document /\ jobs'[k].state = "completed" /\ jobs'[k].attempt = jobs[k].attempt
              /\ jobs'[k].max_attempts = jobs[k].max_attempts
            BY <3>1, <1>a DEF Document, States
        <3>3. due'[k] = "absent" /\ running'[k] = "absent" /\ jobs[k].state = "running"
            BY <2>2, <1>a DEF Complete, Without, EntryOf, Entry, QueuedStates
        <3> QED BY <2>2, <3>2, <3>3 DEF Complete, Changes, Finished, Moves, TerminalStates
    <2>3. CASE k = j /\ Fail(j)
        <3>1. jobs'[k] = [jobs[k] EXCEPT !.state = "failed", !.errors = "list"]
            <4>1. jobs' = [jobs EXCEPT ![k].state = "failed", ![k].errors = "list"]
                BY <2>3 DEF Fail
            <4> QED BY <4>1, <1>a DEF Shape
        <3>2. jobs'[k] \in Document /\ jobs'[k].state = "failed" /\ jobs'[k].attempt = jobs[k].attempt
              /\ jobs'[k].max_attempts = jobs[k].max_attempts
            BY <3>1, <1>a DEF Document, States
        <3>3. due'[k] = "absent" /\ running'[k] = "absent" /\ jobs[k].state \in {"running", "retryable"}
            BY <2>3 DEF Fail, Without
        <3> QED BY <2>3, <3>2, <3>3 DEF Fail, Changes, Finished, Moves, TerminalStates, QueuedStates
    <2>4. CASE k = j /\ ScheduleRetry(j)
        <3>1. jobs'[k] = [jobs[k] EXCEPT !.state = "retryable", !.errors = "list"]
            <4>1. jobs' = [jobs EXCEPT ![k].state = "retryable", ![k].errors = "list"]
                BY <2>4 DEF ScheduleRetry
            <4> QED BY <4>1, <1>a DEF Shape
        <3>2. jobs'[k] \in Document /\ jobs'[k].state = "retryable" /\ jobs'[k].attempt = jobs[k].attempt
              /\ jobs'[k].max_attempts = jobs[k].max_attempts
            BY <3>1, <1>a DEF Document, States
        <3>3. due'[k] = "future" /\ running'[k] = "absent"
            BY <2>4, <1>a DEF ScheduleRetry, Without, Shape
        <3> QED BY <2>4, <3>2, <3>3 DEF ScheduleRetry, Changes, Released, Moves
    <2> QED BY <1>4, <2>1, <2>2, <2>3, <2>4
<1>5. ASSUME NEW batch \in SUBSET Jobs, RetryBatch(batch) PROVE Changes(k)
    <2>1. CASE k \in batch
        <3>1. jobs'[k] = [jobs[k] EXCEPT !.state = "available", !.attempt = 0, !.errors = "object"]
            BY <1>5, <2>1 DEF RetryBatch, EmptyTable
        <3>2. /\ jobs'[k].state = "available" /\ jobs'[k].attempt = 0
              /\ jobs'[k].max_attempts = jobs[k].max_attempts
            BY <3>1, <1>a DEF Document
        <3>3. jobs'[k] \in Document
            <4> DEFINE doc == [jobs[k] EXCEPT !.state = "available", !.errors = "object"]
            <4>1. doc \in Document
                BY <1>a DEF Document, States
            <4>2. jobs'[k] = [doc EXCEPT !.attempt = 0]
                BY <3>1, <1>a DEF Document
            <4> HIDE DEF doc
            <4> QED BY <4>1, <4>2 DEF Document
        <3> QED BY <1>5, <2>1, <3>2, <3>3 DEF RetryBatch, Without, Changes, Retried, Moves, TerminalStates
    <2>2. CASE k \notin batch
        BY <1>5, <2>2 DEF RetryBatch, Without, Changes, Kept
    <2> QED BY <2>1, <2>2
<1>6. ASSUME NEW batch \in SUBSET Jobs, CancelBatch(batch) PROVE Changes(k)
    <2>1. CASE k \in batch
        <3>1. jobs'[k] = [jobs[k] EXCEPT !.state = "cancelled"]
            BY <1>6, <2>1 DEF CancelBatch
        <3>2. jobs'[k] \in Document /\ jobs'[k].state = "cancelled" /\ jobs'[k].attempt = jobs[k].attempt
              /\ jobs'[k].max_attempts = jobs[k].max_attempts
            BY <3>1, <1>a DEF Document, States
        <3>3. due'[k] = "absent" /\ running'[k] = "absent"
            BY <1>6, <2>1, <1>a DEF CancelBatch, Without, EntryOf, Entry
        <3> QED BY <1>6, <2>1, <3>2, <3>3
                DEF CancelBatch, Changes, Finished, Moves, TerminalStates, QueuedStates
    <2>2. CASE k \notin batch
        BY <1>6, <2>2 DEF CancelBatch, Without, Changes, Kept
    <2> QED BY <2>1, <2>2
<1>7. CASE RequeueStale
    <2>1. CASE k \in StaleEntries
        <3>0. jobs[k].state = "running"
            BY <2>1, <1>a DEF StaleEntries, EntryOf, Entry
        <3>1. jobs'[k] = [jobs[k] EXCEPT !.state = "available"]
            BY <1>7, <2>1, <3>0 DEF RequeueStale
        <3>2. jobs'[k] \in Document /\ jobs'[k].state = "available" /\ jobs'[k].attempt = jobs[k].attempt
              /\ jobs'[k].max_attempts = jobs[k].max_attempts
            BY <3>1, <1>a DEF Document, States
        <3> QED BY <1>7, <2>1, <3>0, <3>2 DEF RequeueStale, Without, Changes, Released, Moves
    <2>2. CASE k \notin StaleEntries
        BY <1>7, <2>2 DEF RequeueStale, Without, Changes, Kept
    <2> QED BY <2>1, <2>2
<1>8. ASSUME NEW old \in SUBSET Jobs, Prune(old) PROVE Changes(k)
    <2>1. CASE k \in old /\ Terminal(jobs[k].state)
        <3>1. jobs'[k] = [NoDocument EXCEPT !.state = "gone"]
            BY <1>8, <2>1 DEF Prune
        <3>2. jobs'[k] \in Document /\ jobs'[k].state = "gone"
            BY <3>1 DEF NoDocument, Document
        <3> QED BY <1>8, <2>1, <3>2 DEF Prune, Without, Changes, Pruned, Terminal
    <2>2. CASE ~(k \in old /\ Terminal(jobs[k].state))
        <3>1. k \in old => Stored(k)
            BY <1>8, <1>a DEF Prune, EntryOf, Entry, Stored
        <3> QED BY <1>8, <2>2, <3>1 DEF Prune, Without, Changes, Kept
    <2> QED BY <2>1, <2>2
<1>9. ASSUME NEW j \in Jobs, BecomeDue(j) \/ BecomeStale(j) PROVE Changes(k)
    BY <1>9, <1>a DEF BecomeDue, BecomeStale, Shape, Changes, Kept
<1> QED BY <1>0, <1>1, <1>2, <1>3, <1>4, <1>5, <1>6, <1>7, <1>8, <1>9 DEF Next

-----------------------------------------------------------------------------
(* No such change leaves an index that disagrees with the document. *)
LEMMA StoreStep ==
    ASSUME StoreInv, [Next]_vars
    PROVE  StoreInv'
<1>1. Shape'
    BY ShapeStep DEF StoreInv
<1>2. ASSUME NEW j \in Jobs PROVE EntryOf(j)'
    <2>1. EntryOf(j) /\ Changes(j)
        BY StepChanges DEF StoreInv
    <2>2. Entry(jobs'[j], due'[j], running'[j], j \in uuids', j \in ids', j \in created')
        <3> USE <2>1 DEF EntryOf, Entry, MembersKept, Moves, States, QueuedStates, TerminalStates, Document
        <3>1. CASE Submitted(j)
            BY <3>1 DEF Submitted
        <3>2. CASE Claimed(j)
            BY <3>2 DEF Claimed
        <3>3. CASE Released(j)
            BY <3>3 DEF Released
        <3>4. CASE Finished(j)
            BY <3>4 DEF Finished
        <3>5. CASE Retried(j)
            BY <3>5 DEF Retried
        <3>6. CASE Pruned(j)
            BY <3>6 DEF Pruned
        <3>7. CASE Kept(j)
            BY <3>7 DEF Kept
        <3> QED BY <2>1, <3>1, <3>2, <3>3, <3>4, <3>5, <3>6, <3>7 DEF Changes
    <2> QED BY <2>2 DEF EntryOf
<1> QED BY <1>1, <1>2 DEF StoreInv

LEMMA StoreInvariant == Spec => []StoreInv
<1>1. Init => StoreInv
    <2>1. NoDocument \in Document /\ NoDocument.state = "none"
        BY DEF NoDocument, Document
    <2> QED BY <2>1 DEF Init, StoreInv, Shape, EntryOf, Entry, States, QueuedStates
<1>2. StoreInv /\ [Next]_vars => StoreInv'
    BY StoreStep
<1> QED BY <1>1, <1>2, PTL DEF Spec

(* The scripts of redisdriver keep every document and index well formed. *)
THEOREM StoreTypes == Spec => []TypeOK
BY StoreInvariant, StoreInvMeans, PTL

(* Whatever batches of scripts the clients run, in whatever order, the      *)
(* indexes agree with the documents after each: no queued job with attempts *)
(* left is missing from the due set and no running one from job:running.    *)
THEOREM IndexesConsistent == Spec => []IndexesAgree
BY StoreInvariant, StoreInvMeans, PTL

-----------------------------------------------------------------------------
(* Every such change is a move of the life cycle, or none. *)
LEMMA Phases ==
    ASSUME NEW doc \in Document
    PROVE  /\ doc.state = "none" => Phase(doc) = "new"
           /\ doc.state = "pending" => Phase(doc) = "parked"
           /\ doc.state = "running" => Phase(doc) = "running"
           /\ doc.state = "gone" => Phase(doc) = "gone"
           /\ doc.state \in TerminalStates => Phase(doc) = "done"
           /\ doc.state \in QueuedStates => Phase(doc) = "waiting"
BY DEF Phase, Terminal, TerminalStates, QueuedStates, Document, States

LEMMA LifeStep ==
    ASSUME StoreInv, [Next]_vars, NEW j \in Jobs
    PROVE  Life(jobs'[j]) = Life(jobs[j]) \/ Lifecycle!Move(Life(jobs[j]), Life(jobs'[j]))
<1>1. EntryOf(j) /\ Changes(j) /\ jobs[j] \in Document
    BY StepChanges DEF StoreInv, EntryOf, Entry
<1> DEFINE d == jobs[j]
           e == jobs'[j]
<1>2. CASE Submitted(j)
    <2>1. Phase(d) = "new" /\ Phase(e) \in {"parked", "waiting"} /\ e.attempt = 0 /\ e.max_attempts \in Int
        BY <1>1, <1>2, Phases DEF Submitted, QueuedStates, Document
    <2> QED BY <2>1 DEF Life, Lifecycle!Move, Lifecycle!Submit
<1>3. CASE Claimed(j)
    <2>1. /\ Phase(d) = "waiting" /\ Phase(e) = "running" /\ d.attempt < d.max_attempts
          /\ e.attempt = d.attempt + 1 /\ e.max_attempts = d.max_attempts
        BY <1>1, <1>3, Phases DEF Claimed, Moves, QueuedStates
    <2> QED BY <2>1 DEF Life, Lifecycle!Move, Lifecycle!Take
<1>4. CASE Released(j)
    <2>1. /\ Phase(d) = "running" /\ Phase(e) = "waiting"
          /\ e.attempt = d.attempt /\ e.max_attempts = d.max_attempts
        BY <1>1, <1>4, Phases DEF Released, Moves, QueuedStates
    <2> QED BY <2>1 DEF Life, Lifecycle!Move, Lifecycle!Release
<1>5. CASE Finished(j)
    <2>1. /\ Phase(d) \in {"parked", "waiting", "running"} /\ Phase(e) = "done"
          /\ e.attempt = d.attempt /\ e.max_attempts = d.max_attempts
        BY <1>1, <1>5, Phases DEF Finished, Moves, QueuedStates
    <2> QED BY <2>1 DEF Life, Lifecycle!Move, Lifecycle!Finish
<1>6. CASE Retried(j)
    <2>1. /\ Phase(d) \in {"waiting", "done"} /\ Phase(e) = "waiting"
          /\ e.attempt = 0 /\ e.max_attempts = d.max_attempts
        BY <1>1, <1>6, Phases DEF Retried, Moves, QueuedStates
    <2> QED BY <2>1 DEF Life, Lifecycle!Move, Lifecycle!Reset
<1>7. CASE Pruned(j)
    <2>1. Phase(d) = "done" /\ Phase(e) = "gone"
        BY <1>1, <1>7, Phases DEF Pruned
    <2> QED BY <2>1 DEF Life, Lifecycle!Move, Lifecycle!Purge
<1>8. CASE Kept(j)
    BY <1>8 DEF Kept
<1> QED BY <1>1, <1>2, <1>3, <1>4, <1>5, <1>6, <1>7, <1>8 DEF Changes

(* redisdriver implements the life cycle of JobLifecycle, as the SQL driver *)
(* does: a job runs only while it has attempts left, every try counts, and  *)
(* only a finished job is pruned.                                           *)
THEOREM RedisLifecycle == Spec => ImplementsLifecycle
<1>1. Init => Lifecycle!Init
    <2>1. NoDocument \in Document /\ NoDocument.state = "none" /\ NoDocument.attempt = 0
        BY DEF NoDocument, Document
    <2> QED BY <2>1, Phases DEF Init, Lifecycle!Init, Life
<1>2. StoreInv /\ [Next]_vars => [Lifecycle!Next]_([j \in Jobs |-> Life(jobs[j])])
    BY LifeStep DEF Lifecycle!Next
<1> QED BY <1>1, <1>2, StoreInvariant, PTL DEF Spec, ImplementsLifecycle, Lifecycle!Spec

(* The tries of a job between two moves: none, or no more than its maximum.  *)
Bounded(l) ==
    l.phase \notin {"new", "gone"} =>
        /\ l.tries \in Nat /\ l.max \in Int /\ (l.tries = 0 \/ l.tries <= l.max)
        /\ l.phase = "running" => l.tries >= 1
        /\ l.phase = "parked" => l.tries = 0

LifeInv == \A j \in Jobs : Bounded(Life(jobs[j]))

(* Whatever implements the life cycle hands a job out no more often than its *)
(* maximum says, and never while it is parked.                               *)
THEOREM LifecycleBounds == ImplementsLifecycle => []Lifecycle!WithinMax
<1> DEFINE life == [j \in Jobs |-> Life(jobs[j])]
<1>1. Lifecycle!Init => LifeInv
    BY DEF Lifecycle!Init, LifeInv, Bounded
<1>2. ASSUME LifeInv, [Lifecycle!Next]_life PROVE LifeInv'
    <2> SUFFICES ASSUME NEW j \in Jobs PROVE Bounded(Life(jobs'[j]))
        BY DEF LifeInv, Bounded, Life, Phase
    <2> DEFINE l == Life(jobs[j])
               m == Life(jobs'[j])
    <2> SUFFICES Bounded(m)
        OBVIOUS
    <2>1. m = l \/ Lifecycle!Move(l, m)
        <3>1. CASE Lifecycle!Next
            BY <3>1 DEF Lifecycle!Next
        <3>2. CASE life' = life
            <4>1. life'[j] = life[j]
                BY <3>2
            <4> QED BY <4>1
        <3> QED BY <1>2, <3>1, <3>2
    <2>2. Bounded(l)
        BY <1>2 DEF LifeInv
    <2>3. l = [phase |-> l.phase, tries |-> l.tries, max |-> l.max]
        BY DEF Life
    <2> HIDE DEF l, m
    <2>4. CASE Lifecycle!Submit(l, m)
        BY <2>4 DEF Lifecycle!Submit, Bounded
    <2>5. CASE Lifecycle!Take(l, m)
        BY <2>2, <2>5 DEF Lifecycle!Take, Bounded
    <2>6. CASE Lifecycle!Release(l, m) \/ Lifecycle!Finish(l, m)
        BY <2>2, <2>3, <2>6 DEF Lifecycle!Release, Lifecycle!Finish, Bounded
    <2>7. CASE Lifecycle!Reset(l, m)
        BY <2>2, <2>7 DEF Lifecycle!Reset, Bounded
    <2>8. CASE Lifecycle!Purge(l, m)
        BY <2>8 DEF Lifecycle!Purge, Bounded
    <2> QED BY <2>1, <2>2, <2>4, <2>5, <2>6, <2>7, <2>8 DEF Lifecycle!Move
<1>3. LifeInv => Lifecycle!WithinMax
    BY DEF LifeInv, Bounded, Lifecycle!WithinMax
<1> QED BY <1>1, <1>2, <1>3, PTL DEF ImplementsLifecycle, Lifecycle!Spec

(* So no worker is handed a Redis job more often than its max_attempts, and  *)
(* a job of a chain that is still pending has never been handed to one.      *)
THEOREM RedisWithinMax == Spec => []Lifecycle!WithinMax
BY RedisLifecycle, LifecycleBounds, PTL
=============================================================================
