-------------------------- MODULE SupervisionProofs --------------------------
(***************************************************************************)
(* What holds of the supervisor and its pools for every set of queues,     *)
(* every limits and counts, and any number of starts, requests and         *)
(* autoscaling loops.                                                      *)
(*                                                                         *)
(* SupervisionInv is inductive.  Its heart is PoolInv, what is true of one *)
(* queue's pool.  Until a StopAll fails, the pools of the map are exactly  *)
(* those of a running supervisor, so that the next Stop reaches and stops  *)
(* all of them and a Scale of a late loop finds no pool to grow; no        *)
(* goroutine is to read the first cell; and what the cells say of removed, *)
(* added and still to be read workers tells how many Scales there were.    *)
(***************************************************************************)
EXTENDS Supervision, TLAPS

CellRecord == [worker : {"bound", "free", "dead"}, reads : Nat]

CellMap == UNION {[D -> CellRecord] : D \in SUBSET Nat}

PoolRecord == [exists : BOOLEAN, running : BOOLEAN, len : Nat, cells : CellMap]

LoopRecord == [pc : {"idle", "count", "scale"}, todo : SUBSET Queues, desired : Nat,
               queue : SUBSET Queues]

Types ==
    /\ running \in BOOLEAN /\ closed \in BOOLEAN /\ panicked \in BOOLEAN
    /\ ctx \in BOOLEAN /\ aborted \in BOOLEAN
    /\ pools \in [Queues -> PoolRecord]
    /\ auto \in [Loops -> LoopRecord]
    /\ backlog \in [Queues -> Nat]
    /\ orphans \in [Queues -> SUBSET {"bound", "free"}]
    /\ resized \in [Queues -> 0..MaxResized]
    /\ asked \in [Queues -> SUBSET Int]
    /\ starts \in Nat

(* The cell i of a pool with n workers that s Scales have resized, under a *)
(* context that is alive or not: a worker beyond n was removed, a free one *)
(* added, and one that is to be stopped among the first n, or was, is in   *)
(* the place of a removed one.                                             *)
CellInv(c, i, n, s, alive) ==
    /\ i > n \/ c.reads > 0 \/ c.worker = "free" => s >= 1
    /\ i > n /\ c.worker = "free" => s >= 2
    /\ i <= n /\ c.reads > 0 => s >= 2
    /\ i <= n /\ c.worker = "dead" /\ alive => s >= 2

(* The pool p of queue q, resized s times and asked to have any of counts, *)
(* under a supervisor in the state given.                                  *)
PoolInv(p, q, s, counts, run, alive, failed) ==
    /\ ~p.exists => ~p.running /\ p.len = 0 /\ DOMAIN p.cells = {}
    /\ 1..p.len \subseteq DOMAIN p.cells
    /\ ~alive => \A i \in DOMAIN p.cells : p.cells[i].worker # "bound"
    /\ ~failed /\ ~run => ~p.exists
    /\ ~failed /\ run => /\ p.exists /\ p.running /\ p.len >= 1
                         /\ p.len <= MaxWorkers[q] \/ p.len \in counts
                         /\ p.cells[1].reads = 0
                         /\ alive => p.cells[1].worker # "dead"
    /\ ~failed => \A i \in DOMAIN p.cells : CellInv(p.cells[i], i, p.len, s, alive)

PoolsInv == \A q \in Queues : PoolInv(pools[q], q, resized[q], asked[q], running, ctx, aborted)

(* A loop never asks for more workers than the queue may have. *)
LoopInv == \A e \in Loops : auto[e].pc # "idle" =>
               \A q \in auto[e].queue : auto[e].desired <= MaxWorkers[q]

(* Start is what makes s.running true and the first Stop what closes        *)
(* s.stopped, so that one who stops a closed one has started twice.         *)
StartsInv ==
    /\ ctx => running
    /\ running \/ closed => starts >= 1
    /\ (running /\ closed) \/ panicked => starts > 1

(* The kinds of workers lost by a queue that s Scales have resized. *)
Lost(kinds, s, alive, failed) ==
    /\ "bound" \in kinds => alive
    /\ "bound" \in kinds /\ ~failed => s >= 2
    /\ "free" \in kinds /\ ~failed => s >= 3

LostInv == \A q \in Queues : Lost(orphans[q], resized[q], ctx, aborted)

SupervisionInv == Types /\ PoolsInv /\ LoopInv /\ StartsInv /\ LostInv

-----------------------------------------------------------------------------
LEMMA CellsOf ==
    ASSUME NEW f \in CellMap
    PROVE  DOMAIN f \subseteq Nat /\ \A i \in DOMAIN f : f[i] \in CellRecord
BY DEF CellMap

LEMMA CellsMade ==
    ASSUME NEW D \in SUBSET Nat, NEW f \in [D -> CellRecord]
    PROVE  f \in CellMap /\ DOMAIN f = D
BY DEF CellMap

LEMMA CellTypes ==
    /\ \A w \in {"bound", "free", "dead"}, r \in Nat :
          Cell(w, r) \in CellRecord /\ Cell(w, r).worker = w /\ Cell(w, r).reads = r
    /\ \A c \in CellRecord : c.worker \in {"bound", "free", "dead"} /\ c.reads \in Nat
BY DEF Cell, CellRecord

LEMMA NoPoolInv ==
    /\ NoPool \in PoolRecord
    /\ \A q \in Queues, s \in Nat, counts \in SUBSET Int, alive, failed \in BOOLEAN :
          PoolInv(NoPool, q, s, counts, FALSE, alive, failed)
<1>1. NoPool.exists = FALSE /\ NoPool.running = FALSE /\ NoPool.len = 0 /\ NoPool.cells = <<>>
    BY DEF NoPool
<1>2. DOMAIN NoPool.cells = {}
    BY <1>1
<1>3. <<>> \in CellMap
    <2>1. <<>> \in [{} -> CellRecord]
        OBVIOUS
    <2> QED BY <2>1, CellsMade
<1>4. NoPool \in PoolRecord
    BY <1>3 DEF NoPool, PoolRecord
<1> QED BY <1>1, <1>2, <1>4 DEF PoolInv

(* A pool that Start has made. *)
LEMMA NewPoolInv ==
    ASSUME NEW q \in Queues, NEW s \in Nat, NEW counts \in SUBSET Int, NEW failed \in BOOLEAN
    PROVE  NewPool(q) \in PoolRecord /\ PoolInv(NewPool(q), q, s, counts, TRUE, TRUE, failed)
<1> DEFINE cells == [i \in 1..MaxWorkers[q] |-> Cell("bound", 0)]
<1>1. MaxWorkers[q] \in Nat /\ 1 <= MaxWorkers[q]
    BY SupervisionAssumption
<1>2. /\ NewPool(q) = [exists |-> TRUE, running |-> TRUE, len |-> MaxWorkers[q], cells |-> cells]
      /\ cells \in [1..MaxWorkers[q] -> CellRecord]
    BY <1>1, CellTypes DEF NewPool
<1>3. \A i \in 1..MaxWorkers[q] : /\ i <= MaxWorkers[q] /\ i \in Nat
                                  /\ cells[i].worker = "bound" /\ cells[i].reads = 0
    BY <1>1, CellTypes
<1> HIDE DEF cells
<1>4. cells \in CellMap /\ DOMAIN cells = 1..MaxWorkers[q]
    BY <1>1, <1>2, CellsMade
<1>5. /\ NewPool(q) \in PoolRecord /\ NewPool(q).exists /\ NewPool(q).running
      /\ NewPool(q).len = MaxWorkers[q] /\ NewPool(q).cells = cells
    BY <1>1, <1>2, <1>4 DEF PoolRecord
<1>6. \A i \in 1..MaxWorkers[q] : CellInv(cells[i], i, MaxWorkers[q], s, TRUE)
    BY <1>1, <1>3 DEF CellInv
<1>7. 1 \in 1..MaxWorkers[q] /\ MaxWorkers[q] >= 1 /\ MaxWorkers[q] <= MaxWorkers[q]
    BY <1>1
<1> QED BY <1>3, <1>4, <1>5, <1>6, <1>7 DEF PoolInv

(* A pool after the end of its context. *)
LEMMA UnboundPool ==
    ASSUME NEW q \in Queues, NEW p \in PoolRecord, NEW s \in Nat, NEW counts \in SUBSET Int,
           NEW run, NEW alive, NEW failed,
           PoolInv(p, q, s, counts, run, alive, failed)
    PROVE  /\ Unbound(p) \in PoolRecord
           /\ PoolInv(Unbound(p), q, s, counts, run, FALSE, failed)
           /\ \A n \in Nat : PoolInv(Unbound(p), q, n, counts, FALSE, FALSE, TRUE)
<1> DEFINE cells == [i \in DOMAIN p.cells |->
                IF p.cells[i].worker = "bound" THEN Cell("dead", p.cells[i].reads) ELSE p.cells[i]]
<1>1. /\ p.cells \in CellMap /\ DOMAIN p.cells \subseteq Nat /\ p.len \in Nat
      /\ \A i \in DOMAIN p.cells : p.cells[i] \in CellRecord
    BY CellsOf DEF PoolRecord
<1>2. cells \in [DOMAIN p.cells -> CellRecord]
    BY <1>1, CellTypes
<1>3. \A i \in DOMAIN p.cells : /\ cells[i].worker # "bound" /\ cells[i].reads = p.cells[i].reads
                                /\ cells[i].worker = "free" <=> p.cells[i].worker = "free"
    BY <1>1, CellTypes
<1>4. Unbound(p) = [p EXCEPT !.cells = cells]
    BY DEF Unbound
<1> HIDE DEF cells
<1>5. cells \in CellMap /\ DOMAIN cells = DOMAIN p.cells
    BY <1>1, <1>2, CellsMade
<1>6. /\ Unbound(p) \in PoolRecord /\ Unbound(p).cells = cells /\ Unbound(p).len = p.len
      /\ Unbound(p).exists = p.exists /\ Unbound(p).running = p.running
    BY <1>4, <1>5 DEF PoolRecord
<1>7. ~failed => \A i \in DOMAIN p.cells : CellInv(cells[i], i, p.len, s, FALSE)
    BY <1>3 DEF PoolInv, CellInv
<1>8. run /\ ~failed => 1 \in DOMAIN p.cells
    BY <1>1 DEF PoolInv
<1> QED BY <1>3, <1>5, <1>6, <1>7, <1>8 DEF PoolInv

(* A pool whose Stop has returned an error. *)
LEMMA StoppedPoolInv ==
    ASSUME NEW q \in Queues, pools[q] \in PoolRecord, pools[q].exists,
           1..pools[q].len \subseteq DOMAIN pools[q].cells, NEW n \in Nat, NEW counts \in SUBSET Int
    PROVE  StoppedPool(q) \in PoolRecord /\ PoolInv(StoppedPool(q), q, n, counts, FALSE, FALSE, TRUE)
<1> DEFINE p == pools[q]
           watch == IF DOMAIN p.cells = 1..MaxWorkers[q] THEN 1 ELSE 0
           Ends(i) == i <= p.len \/ p.cells[i].worker = "bound"
           cells == [i \in DOMAIN p.cells |->
                        Cell(IF Ends(i) THEN "dead" ELSE p.cells[i].worker, p.cells[i].reads + watch)]
<1>1. /\ p.cells \in CellMap /\ DOMAIN p.cells \subseteq Nat /\ p.len \in Nat
      /\ \A i \in DOMAIN p.cells : p.cells[i] \in CellRecord
    BY CellsOf DEF PoolRecord
<1>2. StoppedPool(q) = [p EXCEPT !.running = FALSE, !.cells = cells]
    BY DEF StoppedPool
<1>3. \A i \in DOMAIN p.cells : p.cells[i].reads + watch \in Nat
    BY <1>1, CellTypes
<1>4. \A i \in DOMAIN p.cells : cells[i] \in CellRecord /\ cells[i].worker # "bound"
    <2> HIDE DEF watch
    <2> QED BY <1>1, <1>3, CellTypes
<1>5. cells \in [DOMAIN p.cells -> CellRecord]
    <2> HIDE DEF watch, Ends
    <2> QED BY <1>4
<1> HIDE DEF cells, p
<1>6. cells \in CellMap /\ DOMAIN cells = DOMAIN p.cells
    BY <1>1, <1>5, CellsMade
<1>7. /\ StoppedPool(q) \in PoolRecord /\ StoppedPool(q).cells = cells
      /\ StoppedPool(q).exists = p.exists /\ StoppedPool(q).len = p.len
    BY <1>2, <1>6 DEF PoolRecord, p
<1> QED BY <1>4, <1>6, <1>7 DEF PoolInv, p

-----------------------------------------------------------------------------
(* Scale leaves a pool that the invariant allows, and so does a goroutine   *)
(* that reads one of its cells.                                             *)
LEMMA ShrunkPool ==
    ASSUME NEW q \in Queues, NEW p \in PoolRecord, NEW s \in Nat, NEW n \in Nat, NEW t \in Nat,
           NEW counts \in SUBSET Int, NEW run, NEW alive, NEW failed,
           PoolInv(p, q, s, counts, run, alive, failed), p.exists, 1 <= t, t < p.len,
           t <= MaxWorkers[q] \/ t \in counts, n = s + 1 \/ (s >= 3 /\ n = s)
    PROVE  Shrunk(p, t) \in PoolRecord /\ PoolInv(Shrunk(p, t), q, n, counts, run, alive, failed)
<1> DEFINE cells == [i \in DOMAIN p.cells |-> IF i \in (t + 1)..p.len
                        THEN Cell(p.cells[i].worker, p.cells[i].reads + 1) ELSE p.cells[i]]
<1>1. /\ p.cells \in CellMap /\ DOMAIN p.cells \subseteq Nat /\ p.len \in Nat
      /\ \A i \in DOMAIN p.cells : p.cells[i] \in CellRecord
    BY CellsOf DEF PoolRecord
<1>2. ASSUME NEW i \in DOMAIN p.cells
      PROVE  /\ cells[i] \in CellRecord /\ cells[i].worker = p.cells[i].worker
             /\ i <= t => cells[i].reads = p.cells[i].reads
    <2>1. p.cells[i].reads + 1 \in Nat /\ p.cells[i].worker \in {"bound", "free", "dead"} /\ i \in Nat
        BY <1>1, CellTypes
    <2>2. Cell(p.cells[i].worker, p.cells[i].reads + 1) \in CellRecord
          /\ Cell(p.cells[i].worker, p.cells[i].reads + 1).worker = p.cells[i].worker
        BY <2>1, CellTypes
    <2>3. i <= t => i \notin (t + 1)..p.len
        BY <1>1, <2>1
    <2> QED BY <1>1, <2>2, <2>3
<1>3. Shrunk(p, t) = [p EXCEPT !.len = t, !.cells = cells]
    BY DEF Shrunk
<1>4. cells \in [DOMAIN p.cells -> CellRecord]
    BY <1>2
<1> HIDE DEF cells
<1>5. cells \in CellMap /\ DOMAIN cells = DOMAIN p.cells
    BY <1>1, <1>4, CellsMade
<1>6. /\ Shrunk(p, t) \in PoolRecord /\ Shrunk(p, t).cells = cells /\ Shrunk(p, t).len = t
      /\ Shrunk(p, t).exists = p.exists /\ Shrunk(p, t).running = p.running
    BY <1>3, <1>5 DEF PoolRecord
<1>7. 1..t \subseteq DOMAIN p.cells /\ 1 \in DOMAIN p.cells /\ 1 <= t
    BY <1>1 DEF PoolInv
<1>8. ASSUME ~failed, NEW i \in DOMAIN p.cells PROVE CellInv(cells[i], i, t, n, alive)
    <2>1. CellInv(p.cells[i], i, p.len, s, alive) /\ i \in Nat
        BY <1>1, <1>8 DEF PoolInv
    <2>2. /\ cells[i].worker = p.cells[i].worker /\ cells[i].reads \in Nat
          /\ i <= t => cells[i].reads = p.cells[i].reads
        BY <1>2, CellTypes
    <2>3. n >= 1 /\ n >= s /\ (s >= 1 => n >= 2)
        OBVIOUS
    <2>4. CASE i <= t
        <3>1. i <= p.len /\ ~(i > t) /\ ~(i > p.len)
            BY <1>1, <2>1, <2>4
        <3> QED BY <2>1, <2>2, <2>3, <2>4, <3>1 DEF CellInv
    <2>5. CASE ~(i <= t)
        BY <2>1, <2>2, <2>3, <2>5 DEF CellInv
    <2> QED BY <2>4, <2>5
<1> QED BY <1>2, <1>5, <1>6, <1>7, <1>8 DEF PoolInv

LEMMA GrownPool ==
    ASSUME NEW q \in Queues, NEW p \in PoolRecord, NEW s \in Nat, NEW n \in Nat, NEW t \in Nat,
           NEW counts \in SUBSET Int, NEW run, NEW alive, NEW failed,
           PoolInv(p, q, s, counts, run, alive, failed), p.exists, t > p.len,
           t <= MaxWorkers[q] \/ t \in counts, n = s + 1 \/ (s >= 3 /\ n = s)
    PROVE  Grown(p, t) \in PoolRecord /\ PoolInv(Grown(p, t), q, n, counts, run, alive, failed)
<1> DEFINE D == (1..t) \cup DOMAIN p.cells
           Left(i) == IF i \in DOMAIN p.cells THEN p.cells[i].reads ELSE 0
           cells == [i \in D |-> IF i \notin (p.len + 1)..t THEN p.cells[i] ELSE Cell("free", Left(i))]
<1>1. /\ p.cells \in CellMap /\ DOMAIN p.cells \subseteq Nat /\ p.len \in Nat /\ D \subseteq Nat
      /\ \A i \in DOMAIN p.cells : p.cells[i] \in CellRecord
    BY CellsOf DEF PoolRecord
<1>2. \A i \in D : i \in (p.len + 1)..t \/ i \in DOMAIN p.cells
    BY <1>1 DEF PoolInv
<1>3. \A i \in D : Left(i) \in Nat
    BY <1>1, CellTypes
<1>4. ASSUME NEW i \in D, i \in (p.len + 1)..t
      PROVE  cells[i] \in CellRecord /\ cells[i].worker = "free" /\ cells[i].reads = Left(i)
    BY <1>3, <1>4, CellTypes
<1>5. ASSUME NEW i \in D, i \notin (p.len + 1)..t
      PROVE  cells[i] \in CellRecord /\ cells[i] = p.cells[i] /\ i \in DOMAIN p.cells
    BY <1>1, <1>2, <1>5
<1>6. Grown(p, t) = [p EXCEPT !.len = t, !.cells = cells]
    BY DEF Grown
<1>7. cells \in [D -> CellRecord]
    <2>1. \A i \in D : cells[i] \in CellRecord
        BY <1>4, <1>5
    <2> QED BY <2>1
<1> HIDE DEF cells, D
<1>8. cells \in CellMap /\ DOMAIN cells = D
    BY <1>1, <1>7, CellsMade
<1>9. /\ Grown(p, t) \in PoolRecord /\ Grown(p, t).cells = cells /\ Grown(p, t).len = t
      /\ Grown(p, t).exists = p.exists /\ Grown(p, t).running = p.running
    BY <1>6, <1>8 DEF PoolRecord
<1>10. 1..t \subseteq D
    BY DEF D
<1>11. run /\ ~failed => 1 \in D /\ cells[1] = p.cells[1] /\ t >= 1
    <2> SUFFICES ASSUME run, ~failed PROVE 1 \in D /\ cells[1] = p.cells[1] /\ t >= 1
        OBVIOUS
    <2>1. p.len >= 1
        BY DEF PoolInv
    <2>2. 1 \in D /\ 1 \notin (p.len + 1)..t /\ t >= 1
        BY <1>1, <2>1 DEF D
    <2> QED BY <1>5, <2>2
<1>12. ASSUME ~failed, NEW i \in D PROVE CellInv(cells[i], i, t, n, alive)
    <2>0. n >= 1 /\ n >= s /\ (s >= 1 => n >= 2)
        OBVIOUS
    <2>1. n >= 1 /\ n >= s /\ (s >= 1 => n >= 2) /\ i \in Nat
        BY <1>1, <2>0
    <2>2. CASE i \in (p.len + 1)..t
        <3>1. cells[i].worker = "free" /\ cells[i].reads = Left(i) /\ i <= t /\ i > p.len /\ ~(i > t)
            BY <1>1, <1>4, <2>2
        <3>2. i \in DOMAIN p.cells => s >= 1
            BY <1>12, <3>1 DEF PoolInv, CellInv
        <3>3. cells[i].reads > 0 => n >= 2
            BY <2>1, <3>1, <3>2
        <3> QED BY <2>1, <3>1, <3>3 DEF CellInv
    <2>3. CASE i \notin (p.len + 1)..t
        <3>1. cells[i] = p.cells[i] /\ i \in DOMAIN p.cells
            BY <1>5, <2>3
        <3>2. CellInv(p.cells[i], i, p.len, s, alive)
            BY <1>12, <3>1 DEF PoolInv
        <3>3. (i <= t /\ i <= p.len) \/ (i > t /\ i > p.len)
            BY <1>1, <2>1, <2>3
        <3> QED BY <1>1, <2>1, <3>1, <3>2, <3>3 DEF CellInv
    <2> QED BY <2>2, <2>3
<1>13. ASSUME ~alive, NEW i \in D PROVE cells[i].worker # "bound"
    BY <1>4, <1>5, <1>13 DEF PoolInv
<1>14. /\ ~Grown(p, t).exists => FALSE
       /\ ~failed /\ ~run => FALSE
       /\ ~failed /\ run => Grown(p, t).running /\ p.cells[1].reads = 0 /\ (alive => p.cells[1].worker # "dead")
    BY <1>9 DEF PoolInv
<1> QED BY <1>8, <1>9, <1>10, <1>11, <1>12, <1>13, <1>14 DEF PoolInv

(* What Scale overwrites: workers that a Scale had removed. *)
LEMMA OverwrittenKinds ==
    ASSUME NEW q \in Queues, NEW p \in PoolRecord, NEW s \in Nat, NEW t \in Nat,
           NEW counts \in SUBSET Int, NEW run, NEW alive, NEW failed,
           PoolInv(p, q, s, counts, run, alive, failed)
    PROVE  /\ Overwritten(p, t) \subseteq {"bound", "free"}
           /\ "bound" \in Overwritten(p, t) => alive /\ (~failed => s >= 1)
           /\ "free" \in Overwritten(p, t) /\ ~failed => s >= 2
<1>1. /\ DOMAIN p.cells \subseteq Nat /\ p.len \in Nat
      /\ \A i \in DOMAIN p.cells : p.cells[i].worker \in {"bound", "free", "dead"}
    BY CellsOf, CellTypes DEF PoolRecord
<1>2. ASSUME NEW w \in Overwritten(p, t)
      PROVE  /\ w \in {"bound", "free"}
             /\ w = "bound" => alive /\ (~failed => s >= 1)
             /\ w = "free" /\ ~failed => s >= 2
    <2>1. PICK i \in ((p.len + 1)..t) \cap DOMAIN p.cells : w = p.cells[i].worker
        BY DEF Overwritten
    <2>2. i > p.len /\ w # "dead"
        BY <1>1 DEF Overwritten
    <2>3. ~failed => CellInv(p.cells[i], i, p.len, s, alive)
        BY DEF PoolInv
    <2>4. w = "bound" => alive
        BY <2>1 DEF PoolInv
    <2> QED BY <1>1, <2>1, <2>2, <2>3, <2>4 DEF CellInv
<1> QED BY <1>2

ReadCell(p, i) == [p EXCEPT !.cells[i] = Cell("dead", @.reads - 1)]

LEMMA ReadPool ==
    ASSUME NEW q \in Queues, NEW p \in PoolRecord, NEW s \in Nat,
           NEW counts \in SUBSET Int, NEW run, NEW alive, NEW failed,
           PoolInv(p, q, s, counts, run, alive, failed),
           NEW i \in DOMAIN p.cells, p.cells[i].reads > 0
    PROVE  ReadCell(p, i) \in PoolRecord /\ PoolInv(ReadCell(p, i), q, s, counts, run, alive, failed)
<1> DEFINE new == ReadCell(p, i)
           c == Cell("dead", p.cells[i].reads - 1)
           cells == [p.cells EXCEPT ![i] = c]
<1>1. /\ p.cells \in CellMap /\ DOMAIN p.cells \subseteq Nat /\ p.len \in Nat
      /\ \A j \in DOMAIN p.cells : p.cells[j] \in CellRecord
    BY CellsOf DEF PoolRecord
<1>2. p.cells[i].reads \in Nat /\ p.cells[i].reads - 1 \in Nat /\ i \in Nat
    BY <1>1, CellTypes
<1>3. c \in CellRecord /\ c.worker = "dead" /\ c.reads = p.cells[i].reads - 1
    BY <1>2, CellTypes
<1> HIDE DEF c
<1>4. /\ DOMAIN cells = DOMAIN p.cells /\ cells[i] = c
      /\ \A j \in DOMAIN p.cells : j # i => cells[j] = p.cells[j]
    OBVIOUS
<1>5. cells \in [DOMAIN p.cells -> CellRecord]
    BY <1>1, <1>3, <1>4
<1>6. new = [p EXCEPT !.cells = cells]
    BY DEF c, ReadCell
<1> HIDE DEF cells, new
<1>7. cells \in CellMap
    BY <1>1, <1>5, CellsMade
<1>8. /\ new \in PoolRecord /\ new.cells = cells /\ new.len = p.len
      /\ new.exists = p.exists /\ new.running = p.running
    BY <1>6, <1>7 DEF PoolRecord
<1>9. run /\ ~failed => i # 1 /\ 1 \in DOMAIN p.cells
    BY <1>1, <1>2 DEF PoolInv
<1>10. ASSUME ~failed PROVE \A j \in DOMAIN p.cells : CellInv(cells[j], j, p.len, s, alive)
    <2>1. \A j \in DOMAIN p.cells : CellInv(p.cells[j], j, p.len, s, alive)
        BY <1>10 DEF PoolInv
    <2>2. CellInv(c, i, p.len, s, alive)
        BY <1>1, <1>2, <1>3, <2>1 DEF CellInv
    <2> QED BY <1>4, <2>1, <2>2
<1>11. PoolInv(new, q, s, counts, run, alive, failed)
    BY <1>3, <1>4, <1>8, <1>9, <1>10 DEF PoolInv
<1> QED BY <1>8, <1>11 DEF new

(* ScalePool, asked for a number within the limit or among the counts. *)
LEMMA ScaleKeeps ==
    ASSUME Types, PoolsInv, LostInv, NEW q \in Queues, NEW target \in Int,
           NEW counts \in [Queues -> SUBSET Int], \A k \in Queues : asked[k] \subseteq counts[k],
           target <= MaxWorkers[q] \/ target \in counts[q], ScalePool(q, target)
    PROVE  /\ pools' \in [Queues -> PoolRecord] /\ resized' \in [Queues -> 0..MaxResized]
           /\ orphans' \in [Queues -> SUBSET {"bound", "free"}]
           /\ \A k \in Queues : /\ PoolInv(pools'[k], k, resized'[k], counts[k], running, ctx, aborted)
                                /\ Lost(orphans'[k], resized'[k], ctx, aborted)
<1> DEFINE p == pools[q]
           t == Clamp(target)
           n == IF resized[q] < MaxResized THEN resized[q] + 1 ELSE resized[q]
<1>1. ASSUME NEW k \in Queues
      PROVE  /\ PoolInv(pools[k], k, resized[k], counts[k], running, ctx, aborted)
             /\ Lost(orphans[k], resized[k], ctx, aborted) /\ resized[k] \in 0..3
             /\ pools[k] \in PoolRecord /\ resized[k] \in Nat /\ counts[k] \subseteq Int
    <2>1. /\ PoolInv(pools[k], k, resized[k], asked[k], running, ctx, aborted)
          /\ Lost(orphans[k], resized[k], ctx, aborted) /\ resized[k] \in 0..3
          /\ pools[k] \in PoolRecord
        BY DEF PoolsInv, LostInv, Types, MaxResized
    <2>2. PoolInv(pools[k], k, resized[k], counts[k], running, ctx, aborted)
        BY <2>1 DEF PoolInv
    <2> QED BY <2>1, <2>2
<1>2. CASE UNCHANGED poolVars
    BY <1>1, <1>2 DEF poolVars, Types
<1>3. CASE /\ p.exists /\ t # p.len
           /\ pools' = [pools EXCEPT ![q] = IF t < p.len THEN Shrunk(p, t) ELSE Grown(p, t)]
           /\ orphans' = [orphans EXCEPT ![q] = @ \cup Overwritten(p, t)]
           /\ resized' = [resized EXCEPT ![q] = n]
    <2>1. /\ t \in Nat /\ 1 <= t /\ (t <= MaxWorkers[q] \/ t \in counts[q]) /\ p.len \in Nat
          /\ MaxWorkers[q] \in Nat
        <3>1. 1 <= MaxWorkers[q] /\ MaxWorkers[q] \in Nat
            BY SupervisionAssumption
        <3>2. p.len \in Nat
            BY <1>1 DEF PoolRecord
        <3> QED BY <3>1, <3>2 DEF Clamp
    <2>2. /\ n \in Nat /\ n \in 0..MaxResized
          /\ n = resized[q] + 1 \/ (resized[q] >= 3 /\ n = resized[q])
        BY <1>1 DEF MaxResized
    <2>3. /\ PoolInv(p, q, resized[q], counts[q], running, ctx, aborted) /\ p \in PoolRecord
          /\ resized[q] \in Nat /\ counts[q] \in SUBSET Int
          /\ running \in BOOLEAN /\ ctx \in BOOLEAN /\ aborted \in BOOLEAN
          /\ Lost(orphans[q], resized[q], ctx, aborted)
        BY <1>1 DEF Types
    <2> HIDE DEF t, n, p
    <2>4. /\ pools'[q] \in PoolRecord
          /\ PoolInv(pools'[q], q, n, counts[q], running, ctx, aborted)
        <3>1. pools'[q] = IF t < p.len THEN Shrunk(p, t) ELSE Grown(p, t)
            BY <1>3 DEF Types
        <3>2. CASE t < p.len
            <4>1. /\ Shrunk(p, t) \in PoolRecord
                  /\ PoolInv(Shrunk(p, t), q, n, counts[q], running, ctx, aborted)
                BY <1>3, <2>1, <2>2, <2>3, <3>2, ShrunkPool
            <4> QED BY <3>1, <3>2, <4>1
        <3>3. CASE ~(t < p.len)
            <4>1. t > p.len
                BY <1>3, <2>1, <3>3
            <4>2. /\ Grown(p, t) \in PoolRecord
                  /\ PoolInv(Grown(p, t), q, n, counts[q], running, ctx, aborted)
                BY <1>3, <2>1, <2>2, <2>3, <4>1, GrownPool
            <4> QED BY <3>1, <3>3, <4>2
        <3> QED BY <3>2, <3>3
    <2>5. /\ Overwritten(p, t) \subseteq {"bound", "free"}
          /\ "bound" \in Overwritten(p, t) => ctx /\ (~aborted => resized[q] >= 1)
          /\ "free" \in Overwritten(p, t) /\ ~aborted => resized[q] >= 2
        BY <2>1, <2>3, OverwrittenKinds
    <2>6. /\ orphans' \in [Queues -> SUBSET {"bound", "free"}]
          /\ orphans'[q] = orphans[q] \cup Overwritten(p, t)
          /\ resized' \in [Queues -> 0..MaxResized] /\ resized'[q] = n
          /\ pools' \in [Queues -> PoolRecord]
        BY <1>3, <2>2, <2>4, <2>5 DEF Types
    <2>7. Lost(orphans'[q], n, ctx, aborted)
        <3>1. /\ resized[q] >= 1 => n >= 2
              /\ resized[q] >= 2 => n >= 2 /\ n >= 3
              /\ resized[q] >= 3 => n >= 3
            BY <2>2, <2>3
        <3> QED BY <2>3, <2>5, <2>6, <3>1 DEF Lost
    <2>8. \A k \in Queues : k # q => /\ pools'[k] = pools[k] /\ orphans'[k] = orphans[k]
                                     /\ resized'[k] = resized[k]
        BY <1>3 DEF Types
    <2> QED BY <1>1, <2>4, <2>6, <2>7, <2>8
<1> QED BY <1>2, <1>3 DEF ScalePool

(* A request leaves everything but the pools alone. *)
LEMMA RequestKeeps ==
    ASSUME SupervisionInv, NEW q \in Queues, NEW target \in Int, Request(q, target),
           asked' \in [Queues -> SUBSET Int], \A k \in Queues : asked[k] \subseteq asked'[k],
           target <= MaxWorkers[q] \/ target \in asked'[q]
    PROVE  SupervisionInv'
<1>1. Types /\ PoolsInv /\ LostInv /\ ScalePool(q, target)
    BY DEF SupervisionInv, Request
<1>2. /\ pools' \in [Queues -> PoolRecord] /\ resized' \in [Queues -> 0..MaxResized]
      /\ orphans' \in [Queues -> SUBSET {"bound", "free"}]
      /\ \A k \in Queues : /\ PoolInv(pools'[k], k, resized'[k], asked'[k], running, ctx, aborted)
                           /\ Lost(orphans'[k], resized'[k], ctx, aborted)
    BY <1>1, ScaleKeeps
<1>3. UNCHANGED <<running, closed, panicked, ctx, auto, backlog, aborted, starts>>
    BY DEF Request
<1> QED BY <1>2, <1>3 DEF SupervisionInv, Types, PoolsInv, LoopInv, StartsInv, LostInv

(* A step of a loop changes the pools as Scale does, or not at all. *)
LEMMA LoopKeeps ==
    ASSUME SupervisionInv, NEW e \in Loops, NEW record \in LoopRecord, Loop(e, record),
           record.pc # "idle" => \A q \in record.queue : record.desired <= MaxWorkers[q],
           pools' \in [Queues -> PoolRecord], resized' \in [Queues -> 0..MaxResized],
           orphans' \in [Queues -> SUBSET {"bound", "free"}],
           \A k \in Queues : /\ PoolInv(pools'[k], k, resized'[k], asked[k], running, ctx, aborted)
                             /\ Lost(orphans'[k], resized'[k], ctx, aborted)
    PROVE  SupervisionInv'
<1>1. UNCHANGED <<running, closed, panicked, ctx, backlog, aborted, asked, starts>>
    BY DEF Loop
<1>2. /\ auto' \in [Loops -> LoopRecord]
      /\ auto'[e] = record /\ \A f \in Loops : f # e => auto'[f] = auto[f]
    BY DEF Loop, SupervisionInv, Types
<1>3. LoopInv'
    BY <1>2 DEF LoopInv, SupervisionInv
<1> QED BY <1>1, <1>2, <1>3 DEF SupervisionInv, Types, PoolsInv, StartsInv, LostInv

LEMMA SupervisionStep ==
    ASSUME SupervisionInv, [Next]_vars
    PROVE  SupervisionInv'
<1> USE SupervisionAssumption
<1>a. /\ Types /\ PoolsInv /\ LoopInv /\ StartsInv /\ LostInv
      /\ \A q \in Queues : /\ PoolInv(pools[q], q, resized[q], asked[q], running, ctx, aborted)
                           /\ Lost(orphans[q], resized[q], ctx, aborted)
                           /\ pools[q] \in PoolRecord /\ asked[q] \in SUBSET Int
      /\ pools \in [Queues -> PoolRecord] /\ resized \in [Queues -> 0..MaxResized]
      /\ orphans \in [Queues -> SUBSET {"bound", "free"}] /\ asked \in [Queues -> SUBSET Int]
      /\ running \in BOOLEAN /\ ctx \in BOOLEAN /\ aborted \in BOOLEAN
    BY DEF SupervisionInv, Types, PoolsInv, LostInv
<1>b. \A q \in Queues : resized[q] \in Nat
    BY <1>a DEF MaxResized
<1>0. CASE UNCHANGED vars
    BY <1>0 DEF vars, poolVars, SupervisionInv, Types, PoolsInv, LoopInv, StartsInv, LostInv
<1>1. CASE Start
    <2>1. /\ ~running /\ ~ctx /\ running' = TRUE /\ ctx' = TRUE /\ starts' = starts + 1
          /\ UNCHANGED <<closed, panicked, auto, orphans, resized, asked, aborted>>
        BY <1>1, <1>a DEF Start, StartsInv
    <2>2. ASSUME NEW q \in Queues
          PROVE  /\ pools'[q] \in PoolRecord
                 /\ PoolInv(pools'[q], q, resized[q], asked[q], TRUE, TRUE, aborted)
                 /\ Lost(orphans[q], resized[q], TRUE, aborted)
        <3>1. pools'[q] = IF pools[q].exists THEN pools[q] ELSE NewPool(q)
            BY <1>1 DEF Start, StartPool
        <3>2. CASE pools[q].exists
            BY <3>1, <3>2, <2>1, <1>a DEF PoolInv, Lost
        <3>3. CASE ~pools[q].exists
            <4>1. resized[q] \in Nat /\ asked[q] \in SUBSET Int /\ aborted \in BOOLEAN
                BY <1>a, <1>b
            <4>2. /\ NewPool(q) \in PoolRecord
                  /\ PoolInv(NewPool(q), q, resized[q], asked[q], TRUE, TRUE, aborted)
                BY <4>1, NewPoolInv
            <4>3. Lost(orphans[q], resized[q], TRUE, aborted)
                BY <1>a DEF Lost
            <4> QED BY <3>1, <3>3, <4>2, <4>3
        <3> QED BY <3>2, <3>3
    <2>3. pools' \in [Queues -> PoolRecord]
        BY <1>1, <2>2 DEF Start
    <2>4. starts \in Nat /\ starts' \in Nat
        BY <2>1, <1>a DEF Types
    <2>5. StartsInv'
        BY <2>1, <2>4, <1>a DEF StartsInv
    <2>6. Types'
        BY <1>1, <2>1, <2>3, <2>4, <1>a DEF Start, Types
    <2> QED BY <2>1, <2>2, <2>5, <2>6, <1>a DEF SupervisionInv, PoolsInv, LoopInv, LostInv
<1>2. CASE CtxEnds
    <2>1. /\ ctx /\ ctx' = FALSE
          /\ orphans' = [q \in Queues |-> orphans[q] \ {"bound"}]
          /\ UNCHANGED <<running, closed, panicked, resized, asked, auto, backlog, aborted, starts>>
        BY <1>2 DEF CtxEnds
    <2>2. ASSUME NEW q \in Queues
          PROVE  /\ pools'[q] \in PoolRecord
                 /\ PoolInv(pools'[q], q, resized[q], asked[q], running, FALSE, aborted)
        <3>1. pools'[q] = Unbound(pools[q])
            BY <1>2 DEF CtxEnds
        <3>2. /\ PoolInv(pools[q], q, resized[q], asked[q], running, ctx, aborted)
              /\ pools[q] \in PoolRecord /\ resized[q] \in Nat /\ asked[q] \in SUBSET Int
              /\ running \in BOOLEAN /\ ctx \in BOOLEAN /\ aborted \in BOOLEAN
            BY <1>a, <1>b
        <3>3. /\ Unbound(pools[q]) \in PoolRecord
              /\ PoolInv(Unbound(pools[q]), q, resized[q], asked[q], running, FALSE, aborted)
            BY <3>2, UnboundPool
        <3> QED BY <3>1, <3>3
    <2>3. pools' \in [Queues -> PoolRecord]
        BY <1>2, <2>2 DEF CtxEnds
    <2>4. \A q \in Queues : Lost(orphans'[q], resized[q], FALSE, aborted)
        BY <2>1, <1>a DEF Lost
    <2>5. orphans' \in [Queues -> SUBSET {"bound", "free"}]
        BY <2>1, <1>a
    <2> QED BY <2>1, <2>2, <2>3, <2>4, <2>5, <1>a
            DEF SupervisionInv, Types, PoolsInv, LoopInv, StartsInv, LostInv
<1>3. CASE Stop
    <2>1. /\ running /\ running' = FALSE /\ ctx' = FALSE /\ closed' = TRUE /\ panicked' = closed
          /\ UNCHANGED <<auto, backlog, asked, starts>>
        BY <1>3 DEF Stop, Stopping
    <2>2. CASE StopAll(Queues, {}) /\ UNCHANGED <<aborted, resized>>
        <3>1. \A q \in Queues : pools'[q] = NoPool
            BY <2>2 DEF StopAll
        <3>2. pools' \in [Queues -> PoolRecord]
            BY <2>2, <3>1, NoPoolInv DEF StopAll
        <3>3. \A q \in Queues : PoolInv(pools'[q], q, resized[q], asked[q], FALSE, FALSE, aborted)
            BY <3>1, <1>a, <1>b, NoPoolInv
        <3>4. ~aborted => \A q \in Queues : pools[q].running
            BY <1>a, <2>1 DEF PoolInv
        <3>5. orphans' = [q \in Queues |->
                   (orphans[q] \ {"bound"})
                   \cup (IF ~pools[q].running /\ Free(q) # {} THEN {"free"} ELSE {})]
            BY <2>2 DEF StopAll
        <3>6. orphans' \in [Queues -> SUBSET {"bound", "free"}]
            BY <3>5, <1>a
        <3>7. \A q \in Queues : Lost(orphans'[q], resized[q], FALSE, aborted)
            BY <3>4, <3>5, <1>a DEF Lost
        <3> QED BY <2>1, <2>2, <3>2, <3>3, <3>6, <3>7, <1>a
                DEF SupervisionInv, Types, PoolsInv, LoopInv, StartsInv, LostInv
    <2>3. ASSUME NEW f \in Queues, NEW reached \in SUBSET (Queues \ {f}),
                 pools[f].running, StopAll(reached, {f}), aborted' = TRUE,
                 resized' = [k \in Queues |-> MaxResized]
          PROVE  SupervisionInv'
        <3>0. MaxResized \in Nat /\ MaxResized \in 0..MaxResized
            BY DEF MaxResized
        <3>1. ASSUME NEW q \in Queues
              PROVE  /\ pools'[q] \in PoolRecord
                     /\ PoolInv(pools'[q], q, MaxResized, asked[q], FALSE, FALSE, TRUE)
            <4>1. CASE q = f
                <5>1. pools'[q] = StoppedPool(q)
                    BY <2>3, <4>1 DEF StopAll
                <5>2. pools[q].exists /\ 1..pools[q].len \subseteq DOMAIN pools[q].cells
                    BY <2>3, <4>1, <1>a DEF PoolInv
                <5> QED BY <5>1, <5>2, <3>0, <1>a, StoppedPoolInv
            <4>2. CASE q \in reached
                BY <2>3, <4>2, <3>0, <1>a, NoPoolInv DEF StopAll
            <4>3. CASE q # f /\ q \notin reached
                <5>1. pools'[q] = Unbound(pools[q])
                    BY <2>3, <4>3 DEF StopAll
                <5>2. /\ PoolInv(pools[q], q, resized[q], asked[q], running, ctx, aborted)
                      /\ pools[q] \in PoolRecord /\ resized[q] \in Nat /\ asked[q] \in SUBSET Int
                      /\ running \in BOOLEAN /\ ctx \in BOOLEAN /\ aborted \in BOOLEAN
                    BY <1>a, <1>b
                <5>3. /\ Unbound(pools[q]) \in PoolRecord
                      /\ PoolInv(Unbound(pools[q]), q, MaxResized, asked[q], FALSE, FALSE, TRUE)
                    BY <5>2, <3>0, UnboundPool
                <5> QED BY <5>1, <5>3
            <4> QED BY <4>1, <4>2, <4>3
        <3>2. pools' \in [Queues -> PoolRecord]
            BY <2>3, <3>1 DEF StopAll
        <3>3. /\ orphans' \in [Queues -> SUBSET {"bound", "free"}]
              /\ \A q \in Queues : "bound" \notin orphans'[q]
            BY <2>3, <1>a DEF StopAll
        <3>4. /\ resized' \in [Queues -> 0..MaxResized] /\ \A q \in Queues : resized'[q] = MaxResized
            BY <2>3, <3>0
        <3>5. LostInv'
            BY <2>3, <3>3 DEF LostInv, Lost
        <3> QED BY <2>1, <2>3, <3>1, <3>2, <3>3, <3>4, <3>5, <1>a
                DEF SupervisionInv, Types, PoolsInv, LoopInv, StartsInv
    <2> QED BY <1>3, <2>2, <2>3 DEF Stop, Stopping
<1>4. ASSUME NEW q \in Queues, PauseQueue(q) \/ ResumeQueue(q) \/ ScaleQueue(q)
      PROVE  SupervisionInv'
    <2>1. CASE PauseQueue(q) \/ ResumeQueue(q)
        <3>1. PICK target \in 0..MaxWorkers[q] : Request(q, target) /\ UNCHANGED asked
            BY <2>1 DEF PauseQueue, ResumeQueue
        <3>2. target \in Int /\ target <= MaxWorkers[q]
            OBVIOUS
        <3> QED BY <3>1, <3>2, <1>a, RequestKeeps
    <2>2. CASE ScaleQueue(q)
        <3>1. PICK count \in Counts :
                 Request(q, count) /\ asked' = [asked EXCEPT ![q] = @ \cup {count}]
            BY <2>2 DEF ScaleQueue
        <3>2. count \in Int
            OBVIOUS
        <3>3. /\ asked' \in [Queues -> SUBSET Int] /\ count \in asked'[q]
              /\ \A k \in Queues : asked[k] \subseteq asked'[k]
            BY <3>1, <3>2, <1>a
        <3> QED BY <3>1, <3>2, <3>3, RequestKeeps
    <2> QED BY <1>4, <2>1, <2>2
<1>5. ASSUME NEW q \in Queues, RemovalReads(q) PROVE SupervisionInv'
    <2>1. PICK i \in DOMAIN pools[q].cells :
             /\ pools[q].cells[i].reads > 0
             /\ pools' = [pools EXCEPT ![q].cells[i] = Cell("dead", @.reads - 1)]
        BY <1>5 DEF RemovalReads
    <2>2. pools' = [pools EXCEPT ![q] = ReadCell(pools[q], i)]
        BY <2>1 DEF ReadCell
    <2>3. /\ ReadCell(pools[q], i) \in PoolRecord
          /\ PoolInv(ReadCell(pools[q], i), q, resized[q], asked[q], running, ctx, aborted)
        <3>1. /\ PoolInv(pools[q], q, resized[q], asked[q], running, ctx, aborted)
              /\ pools[q] \in PoolRecord /\ resized[q] \in Nat /\ asked[q] \in SUBSET Int
              /\ running \in BOOLEAN /\ ctx \in BOOLEAN /\ aborted \in BOOLEAN
            BY <1>a, <1>b
        <3> QED BY <2>1, <3>1, ReadPool
    <2>4. /\ pools' \in [Queues -> PoolRecord]
          /\ \A k \in Queues : PoolInv(pools'[k], k, resized[k], asked[k], running, ctx, aborted)
        BY <2>2, <2>3, <1>a
    <2>5. UNCHANGED <<running, closed, panicked, ctx, orphans, resized, auto, backlog, aborted, asked, starts>>
        BY <1>5 DEF RemovalReads
    <2> QED BY <2>4, <2>5, <1>a DEF SupervisionInv, Types, PoolsInv, LoopInv, StartsInv, LostInv
<1>6. ASSUME NEW q \in Queues, BacklogChanges(q) PROVE SupervisionInv'
    <2>1. UNCHANGED <<running, closed, panicked, ctx, pools, orphans, resized, auto, aborted, asked, starts>>
        BY <1>6 DEF BacklogChanges, poolVars
    <2>2. PICK jobs \in Backlogs[q] \ {backlog[q]} : backlog' = [backlog EXCEPT ![q] = jobs]
        BY <1>6 DEF BacklogChanges
    <2>3. jobs \in Nat
        BY <2>2
    <2>4. backlog' \in [Queues -> Nat]
        BY <2>2, <2>3, <1>a DEF Types
    <2> QED BY <2>1, <2>4, <1>a DEF SupervisionInv, Types, PoolsInv, LoopInv, StartsInv, LostInv
<1>7. ASSUME NEW e \in Loops, LoopStep(e) PROVE SupervisionInv'
    <2>0. auto[e] \in LoopRecord
        BY <1>a DEF Types
    <2>1. CASE AutoscaleTick(e)
        <3>1. /\ [IdleLoop EXCEPT !.todo = Queues] \in LoopRecord
              /\ [IdleLoop EXCEPT !.todo = Queues].pc = "idle"
            BY DEF IdleLoop, LoopRecord
        <3> QED BY <2>1, <3>1, <1>a, LoopKeeps DEF AutoscaleTick, poolVars
    <2>2. CASE ReadStats(e)
        <3>1. PICK q \in auto[e].todo :
                 Loop(e, IF e = starts /\ ctx
                         THEN [pc |-> "count", todo |-> auto[e].todo \ {q},
                               desired |-> Desired(backlog[q], q), queue |-> {q}]
                         ELSE [auto[e] EXCEPT !.todo = @ \ {q}])
            BY <2>2 DEF ReadStats
        <3>2. q \in Queues /\ auto[e].todo \subseteq Queues /\ auto[e].pc = "idle"
              /\ UNCHANGED <<pools, orphans, resized>>
            BY <2>2, <2>0 DEF ReadStats, LoopRecord, poolVars
        <3>3. Desired(backlog[q], q) \in 0..MaxWorkers[q]
            <4>1. backlog[q] \in Nat /\ backlog[q] \div 2 \in Nat
                BY <3>2, <1>a DEF Types
            <4> QED BY <4>1, <3>2 DEF Desired
        <3>4. CASE e = starts /\ ctx
            <4> DEFINE r == [pc |-> "count", todo |-> auto[e].todo \ {q},
                             desired |-> Desired(backlog[q], q), queue |-> {q}]
            <4>1. /\ r \in LoopRecord /\ Loop(e, r)
                  /\ \A k \in r.queue : r.desired <= MaxWorkers[k]
                BY <3>1, <3>2, <3>3, <3>4 DEF LoopRecord
            <4> HIDE DEF r
            <4> QED BY <4>1, <3>2, <1>a, LoopKeeps
        <3>5. CASE ~(e = starts /\ ctx)
            <4> DEFINE r == [auto[e] EXCEPT !.todo = @ \ {q}]
            <4>1. r \in LoopRecord /\ r.pc = "idle" /\ Loop(e, r)
                BY <3>1, <3>2, <3>5, <2>0 DEF LoopRecord
            <4> HIDE DEF r
            <4> QED BY <4>1, <3>2, <1>a, LoopKeeps
        <3> QED BY <3>4, <3>5
    <2>3. CASE Compare(e)
        <3>1. PICK pc \in {"idle", "scale"} : Loop(e, [auto[e] EXCEPT !.pc = pc])
            BY <2>3 DEF Compare
        <3> DEFINE r == [auto[e] EXCEPT !.pc = pc]
        <3>2. r \in LoopRecord /\ r.queue = auto[e].queue /\ r.desired = auto[e].desired
            BY <2>0 DEF LoopRecord
        <3>3. auto[e].pc = "count" /\ UNCHANGED <<pools, orphans, resized>>
            BY <2>3 DEF Compare, poolVars
        <3>4. \A k \in r.queue : r.desired <= MaxWorkers[k]
            BY <3>2, <3>3, <1>a DEF LoopInv
        <3>5. Loop(e, r)
            BY <3>1
        <3> HIDE DEF r
        <3> QED BY <3>2, <3>3, <3>4, <3>5, <1>a, LoopKeeps
    <2>4. CASE Scale(e)
        <3>1. PICK q \in auto[e].queue : ScalePool(q, auto[e].desired)
            BY <2>4 DEF Scale
        <3>2. auto[e].pc = "scale" /\ Loop(e, [auto[e] EXCEPT !.pc = "idle"])
            BY <2>4 DEF Scale
        <3>3. q \in Queues /\ auto[e].desired \in 0..MaxWorkers[q]
            BY <3>1, <3>2, <2>0, <1>a DEF LoopRecord, LoopInv
        <3>4. /\ pools' \in [Queues -> PoolRecord] /\ resized' \in [Queues -> 0..MaxResized]
              /\ orphans' \in [Queues -> SUBSET {"bound", "free"}]
              /\ \A k \in Queues : /\ PoolInv(pools'[k], k, resized'[k], asked[k], running, ctx, aborted)
                                   /\ Lost(orphans'[k], resized'[k], ctx, aborted)
            <4>1. auto[e].desired \in Int /\ auto[e].desired <= MaxWorkers[q]
                BY <3>3
            <4> QED BY <3>1, <3>3, <4>1, <1>a, ScaleKeeps
        <3>5. [auto[e] EXCEPT !.pc = "idle"] \in LoopRecord /\ [auto[e] EXCEPT !.pc = "idle"].pc = "idle"
            BY <2>0 DEF LoopRecord
        <3> QED BY <3>2, <3>4, <3>5, LoopKeeps
    <2> QED BY <1>7, <2>1, <2>2, <2>3, <2>4 DEF LoopStep
<1> QED BY <1>0, <1>1, <1>2, <1>3, <1>4, <1>5, <1>6, <1>7 DEF Next

LEMMA SupervisionInvariant == Spec => []SupervisionInv
<1>1. Init => SupervisionInv
    <2> SUFFICES ASSUME Init PROVE SupervisionInv
        OBVIOUS
    <2>1. \A q \in Queues : /\ pools[q] = NoPool /\ resized[q] = 0 /\ asked[q] = {} /\ orphans[q] = {}
                            /\ PoolInv(pools[q], q, resized[q], asked[q], running, ctx, aborted)
        <3>1. \A q \in Queues : pools[q] = NoPool /\ resized[q] = 0 /\ asked[q] = {} /\ orphans[q] = {}
            BY DEF Init
        <3>2. running = FALSE /\ ctx = FALSE /\ aborted = FALSE
            BY DEF Init
        <3> QED BY <3>1, <3>2, NoPoolInv
    <2>2. Types
        <3>1. IdleLoop \in LoopRecord
            BY DEF IdleLoop, LoopRecord
        <3>2. backlog \in [Queues -> Nat]
            BY SupervisionAssumption DEF Init
        <3>3. pools \in [Queues -> PoolRecord] /\ auto \in [Loops -> LoopRecord]
            BY <3>1, NoPoolInv DEF Init
        <3>4. /\ orphans \in [Queues -> SUBSET {"bound", "free"}]
              /\ resized \in [Queues -> 0..MaxResized] /\ asked \in [Queues -> SUBSET Int]
            BY DEF Init, MaxResized
        <3> QED BY <3>2, <3>3, <3>4 DEF Init, Types
    <2>3. LoopInv /\ StartsInv
        BY DEF Init, LoopInv, StartsInv, IdleLoop
    <2> QED BY <2>1, <2>2, <2>3 DEF SupervisionInv, PoolsInv, LostInv, Lost
<1>2. SupervisionInv /\ [Next]_vars => SupervisionInv'
    BY SupervisionStep
<1> QED BY <1>1, <1>2, PTL DEF Spec

(* A Supervisor.Stop that returns no error leaves no worker in the map,     *)
(* however requests and a doAutoscale under way have resized the pools and  *)
(* whatever goroutines were still to read.  A worker that nothing stops was *)
(* lost to Scales that overlap, and then ends with its context unless Scale *)
(* had made it, or was left by an expired Stop.                             *)
THEOREM StopLeavesNone == Spec => []NoOrphans
<1>1. SupervisionInv => NoOrphans
    <2> SUFFICES ASSUME SupervisionInv, NEW q \in Queues
                 PROVE  /\ ~running /\ Alive(q) # {} => aborted /\ Alive(q) = Free(q)
                        /\ ~ctx => "bound" \notin orphans[q]
                        /\ "bound" \in orphans[q] /\ ~aborted => resized[q] >= 2
                        /\ "free" \in orphans[q] /\ ~aborted => resized[q] >= 3
        BY DEF NoOrphans
    <2>1. ASSUME ~running, Alive(q) # {} PROVE aborted /\ Alive(q) = Free(q)
        <3>1. /\ PoolInv(pools[q], q, resized[q], asked[q], running, ctx, aborted) /\ ~ctx
              /\ pools[q] \in PoolRecord
            BY <2>1 DEF SupervisionInv, PoolsInv, StartsInv, Types
        <3>2. /\ pools[q].cells \in CellMap /\ pools[q].len \in Nat
              /\ 1..pools[q].len \subseteq DOMAIN pools[q].cells
              /\ \A i \in DOMAIN pools[q].cells : pools[q].cells[i].worker # "bound"
            BY <3>1 DEF PoolInv, PoolRecord
        <3>3. \A i \in DOMAIN pools[q].cells : pools[q].cells[i].worker \in {"bound", "free", "dead"}
            BY <3>2, CellsOf, CellTypes
        <3>4. Alive(q) = Free(q)
            BY <3>2, <3>3 DEF Alive, Free
        <3>5. pools[q].exists
            BY <2>1, <3>1, <3>2 DEF PoolInv, Alive
        <3> QED BY <2>1, <3>1, <3>4, <3>5 DEF PoolInv
    <2> QED BY <2>1 DEF SupervisionInv, LostInv, Lost
<1> QED BY <1>1, SupervisionInvariant, PTL

(* While the supervisor runs and no Stop has failed, the first worker of    *)
(* every queue is alive, and the queue has no more workers than MaxWorkers  *)
(* or a count that ScaleQueue was given, at every step of PauseQueue,       *)
(* ResumeQueue, ScaleQueue, doAutoscale and the goroutines of Scale.        *)
THEOREM QueuesServed == Spec => []Served
<1>1. SupervisionInv => Served
    <2> SUFFICES ASSUME SupervisionInv, running, ctx, ~aborted, NEW q \in Queues
                 PROVE  /\ 1 \in Alive(q)
                        /\ pools[q].len <= MaxWorkers[q] \/ pools[q].len \in asked[q]
                        /\ Alive(q) # 1..pools[q].len => resized[q] >= 2
        BY DEF Served
    <2>1. /\ PoolInv(pools[q], q, resized[q], asked[q], running, ctx, aborted)
          /\ pools[q].len \in Nat
        BY DEF SupervisionInv, PoolsInv, Types, PoolRecord
    <2>2. /\ pools[q].len >= 1 /\ 1..pools[q].len \subseteq DOMAIN pools[q].cells
          /\ pools[q].cells[1].worker # "dead"
          /\ pools[q].len <= MaxWorkers[q] \/ pools[q].len \in asked[q]
          /\ \A i \in DOMAIN pools[q].cells : CellInv(pools[q].cells[i], i, pools[q].len, resized[q], ctx)
        BY <2>1 DEF PoolInv
    <2>3. 1 \in 1..pools[q].len
        BY <2>1, <2>2
    <2>4. ASSUME Alive(q) # 1..pools[q].len PROVE resized[q] >= 2
        <3>1. PICK i \in 1..pools[q].len : pools[q].cells[i].worker = "dead"
            BY <2>4 DEF Alive
        <3>2. CellInv(pools[q].cells[i], i, pools[q].len, resized[q], ctx) /\ i <= pools[q].len
            <4>1. i <= pools[q].len
                BY <2>1
            <4>2. i \in DOMAIN pools[q].cells
                BY <2>2
            <4> QED BY <2>2, <4>1, <4>2
        <3> QED BY <3>1, <3>2 DEF CellInv
    <2> QED BY <2>2, <2>3, <2>4 DEF Alive
<1> QED BY <1>1, SupervisionInvariant, PTL

(* Stop closes s.stopped, which New makes and Start does not renew, a       *)
(* second time only after a second Start.                                   *)
THEOREM PanicNeedsRestart == Spec => []PanicsOnRestartOnly
<1>1. SupervisionInv => PanicsOnRestartOnly
    BY DEF SupervisionInv, StartsInv, PanicsOnRestartOnly
<1> QED BY <1>1, SupervisionInvariant, PTL
=============================================================================
