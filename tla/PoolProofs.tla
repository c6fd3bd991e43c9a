------------------------------ MODULE PoolProofs ------------------------------
(***************************************************************************)
(* One worker pool, for any number of workers, starts and Scales and any   *)
(* growth of the slice.                                                    *)
(*                                                                         *)
(* SliceInv is about the arrays that p.workers, watch and the goroutines   *)
(* of Scale share: a goroutine's array has workers of one Start only, and  *)
(* no worker is in p.workers twice.  LiveInv says what becomes of workers  *)
(* when Scales overlap: one that is not in p.workers is still to be        *)
(* stopped by a goroutine or was overwritten, and a goroutine gets at a    *)
(* worker of p.workers only if that one was put in a cell it had still to  *)
(* read.                                                                   *)
(***************************************************************************)
EXTENDS Pool, FiniteSetTheorems, TLAPS

Cell == [id : Nat, start : Nat, bound : BOOLEAN]

SweepRecord == [array : Nat, next : Nat, last : Nat, start : Nat, tag : Nat]

Types ==
    /\ running \in BOOLEAN /\ ctxEnded \in BOOLEAN
    /\ arrays \in Seq(Seq(Cell))
    /\ workers \in [array : Nat, len : Nat] /\ watched \in [array : Nat, len : Nat]
    /\ sweeps \subseteq SweepRecord
    /\ alive \subseteq Cell
    /\ starts \in Nat /\ spawned \in Nat /\ asked \in Nat

(* The cells 1..n of an array exist and its workers are of one Start. *)
OfStart(cells, array, n, start) ==
    /\ array \in 1..Len(cells) /\ n <= Len(cells[array])
    /\ \A i \in 1..Len(cells[array]) : cells[array][i].id # 0 => cells[array][i].start = start

SweepsInv ==
    \A s \in sweeps :
        /\ OfStart(arrays, s.array, s.last, s.start) /\ s.next >= 1 /\ s.start <= starts
        /\ running /\ s.array = workers.array => s.start = starts

WorkersInv ==
    running =>
        /\ OfStart(arrays, workers.array, workers.len, starts)
        /\ OfStart(arrays, watched.array, watched.len, starts)
        /\ workers.len >= 1 /\ workers.len = Clamp(asked)
        /\ \A i \in 1..workers.len : arrays[workers.array][i].id # 0
        /\ \A i \in 1..Len(arrays[workers.array]) : arrays[workers.array][i].id <= spawned
        /\ \A i, j \in 1..Len(arrays[workers.array]) :
              arrays[workers.array][i].id = arrays[workers.array][j].id
              /\ arrays[workers.array][i].id # 0 => i = j

SliceInv == Types /\ SweepsInv /\ WorkersInv /\ \A w \in alive : w.id # 0

(* A worker that some goroutine is still to stop. *)
Pending(w) == \E s \in sweeps : \E i \in s.next..s.last : arrays[s.array][i] = w

(* No worker and no overwritten one has an id that is still to be given. *)
KnownInv ==
    /\ \A b \in 1..Len(arrays) : \A i \in 1..Len(arrays[b]) : arrays[b][i].id <= spawned
    /\ \A w \in lost \cup doomed : w \in Cell /\ w.id <= spawned

(* A worker that works is in p.workers, still to be stopped, or overwritten. *)
AliveInv ==
    \A w \in alive : (running /\ w \in Contents(workers)) \/ Pending(w) \/ w \in lost

(* A goroutine is to stop those workers of p.workers that are doomed and   *)
(* alive, and no others; the first worker is never one of them.            *)
KeptInv ==
    running =>
        /\ ~ctxEnded => Contents(workers) \ doomed \subseteq alive
        /\ \A w \in Contents(workers) : Pending(w) => w \in doomed
        /\ \A w \in Contents(workers) : w \in doomed /\ w \in alive => Pending(w)
        /\ \A w \in Contents(workers) : w \notin lost
        /\ arrays[workers.array][1] \notin doomed

LiveInv == KnownInv /\ AliveInv /\ KeptInv

-----------------------------------------------------------------------------
LEMMA WorkerTypes ==
    /\ \A id, n \in Nat, b \in BOOLEAN :
          /\ Worker(id, n, b) \in Cell
          /\ Worker(id, n, b).id = id /\ Worker(id, n, b).start = n
    /\ NoWorker \in Cell /\ NoWorker.id = 0
BY DEF Worker, NoWorker, Cell

(* Sequences that are made, extended and changed in place. *)
LEMMA MadeSeq ==
    ASSUME NEW S, NEW n \in Nat, NEW f \in [1..n -> S]
    PROVE  f \in Seq(S) /\ Len(f) = n
OBVIOUS

LEMMA AppendedSeq ==
    ASSUME NEW S, NEW s \in Seq(S), NEW e \in S
    PROVE  /\ Append(s, e) \in Seq(S) /\ Len(Append(s, e)) = Len(s) + 1
           /\ \A b \in 1..Len(s) : Append(s, e)[b] = s[b]
           /\ Append(s, e)[Len(s) + 1] = e
OBVIOUS

LEMMA ChangedSeq ==
    ASSUME NEW S, NEW s \in Seq(S), NEW a \in 1..Len(s), NEW e \in S
    PROVE  /\ [s EXCEPT ![a] = e] \in Seq(S) /\ Len([s EXCEPT ![a] = e]) = Len(s)
           /\ [s EXCEPT ![a] = e][a] = e
           /\ \A b \in 1..Len(s) : b # a => [s EXCEPT ![a] = e][b] = s[b]
OBVIOUS

(* Start allocates an array of new workers. *)
LEMMA StartArrays ==
    ASSUME Types, Start
    PROVE  /\ arrays' \in Seq(Seq(Cell)) /\ Len(arrays') = Len(arrays) + 1
           /\ \A b \in 1..Len(arrays) : arrays'[b] = arrays[b]
           /\ Len(arrays'[Len(arrays) + 1]) = MaxWorkers
           /\ \A i \in 1..MaxWorkers :
                 arrays'[Len(arrays) + 1][i] = Worker(spawned + i, starts + 1, TRUE)
           /\ alive' = alive \cup {Worker(spawned + i, starts + 1, TRUE) : i \in 1..MaxWorkers}
<1> DEFINE new == [i \in 1..MaxWorkers |-> Worker(spawned + i, starts + 1, TRUE)]
<1>1. arrays' = Append(arrays, new) /\ alive' = alive \cup {new[i] : i \in 1..MaxWorkers}
    BY DEF Start
<1>2. MaxWorkers \in Nat /\ spawned \in Nat /\ starts + 1 \in Nat /\ arrays \in Seq(Seq(Cell))
    BY PoolAssumption DEF Types
<1>3. \A i \in 1..MaxWorkers : Worker(spawned + i, starts + 1, TRUE) \in Cell
    <2>1. \A i \in 1..MaxWorkers : spawned + i \in Nat
        BY <1>2
    <2> QED BY <1>2, <2>1, WorkerTypes
<1>a. new \in [1..MaxWorkers -> Cell]
    BY <1>3
<1>4. new \in Seq(Cell) /\ Len(new) = MaxWorkers
    BY <1>2, <1>a, MadeSeq
<1>5. \A i \in 1..MaxWorkers : new[i] = Worker(spawned + i, starts + 1, TRUE)
    OBVIOUS
<1> HIDE DEF new
<1>6. {new[i] : i \in 1..MaxWorkers} = {Worker(spawned + i, starts + 1, TRUE) : i \in 1..MaxWorkers}
    BY <1>5
<1>7. /\ arrays' \in Seq(Seq(Cell)) /\ Len(arrays') = Len(arrays) + 1
      /\ \A b \in 1..Len(arrays) : arrays'[b] = arrays[b]
      /\ arrays'[Len(arrays) + 1] = new
    BY <1>1, <1>2, <1>4, AppendedSeq
<1> QED BY <1>1, <1>4, <1>5, <1>6, <1>7

(* What a Scale that adds workers makes of the arrays: the first cells stay, *)
(* new workers fill the room that is left, and if it is not enough there is  *)
(* a new array with all of them.                                             *)
NewCell(i) == IF i <= workers.len THEN arrays[workers.array][i]
              ELSE Worker(spawned + (i - workers.len), starts, FALSE)

LEMMA ScaleUpArrays ==
    ASSUME SliceInv, running, NEW t \in Nat, t > workers.len, ScaleUp(t),
           \A c \in 0..(t - 1) : Growth(c, t) \in Nat /\ Growth(c, t) >= t
    PROVE  /\ arrays' \in Seq(Seq(Cell)) /\ Len(arrays') \in {Len(arrays), Len(arrays) + 1}
           /\ \A b \in 1..Len(arrays) :
                 /\ Len(arrays'[b]) = Len(arrays[b])
                 /\ b # workers.array => arrays'[b] = arrays[b]
           /\ \A i \in 1..Len(arrays[workers.array]) :
                 arrays'[workers.array][i] = IF i <= t THEN NewCell(i) ELSE arrays[workers.array][i]
           /\ workers' \in [array : Nat, len : Nat] /\ workers'.len = t
           /\ \/ workers'.array = workers.array /\ Len(arrays') = Len(arrays)
              \/ workers'.array = Len(arrays) + 1 /\ t > Len(arrays[workers.array])
           /\ workers'.array \in 1..Len(arrays') /\ t <= Len(arrays'[workers'.array])
           /\ \A i \in 1..t : arrays'[workers'.array][i] = NewCell(i)
           /\ \A i \in 1..Len(arrays'[workers'.array]) : i > t =>
                 \/ workers'.array = workers.array
                 \/ arrays'[workers'.array][i] = NoWorker
<1> DEFINE a == workers.array
           cap == Len(arrays[a])
           cells == [i \in 1..cap |-> IF i <= t THEN NewCell(i) ELSE arrays[a][i]]
           filled == [arrays EXCEPT ![a] = cells]
           grown == [i \in 1..Growth(cap, t) |-> IF i <= t THEN NewCell(i) ELSE NoWorker]
<1>1. /\ arrays \in Seq(Seq(Cell)) /\ workers \in [array : Nat, len : Nat]
      /\ a \in 1..Len(arrays) /\ workers.len >= 1 /\ workers.len <= cap
      /\ arrays[a] \in Seq(Cell) /\ cap \in Nat /\ spawned \in Nat /\ starts \in Nat
    BY DEF SliceInv, Types, WorkersInv, OfStart
<1>2. Cap(workers) = cap /\ cap # 0
    BY <1>1 DEF Cap, NoSlice
<1>3. \A i \in 1..t : NewCell(i) \in Cell
    <2> SUFFICES ASSUME NEW i \in 1..t PROVE NewCell(i) \in Cell
        OBVIOUS
    <2>1. CASE i <= workers.len
        BY <1>1, <2>1 DEF NewCell
    <2>2. CASE i > workers.len
        <3>1. spawned + (i - workers.len) \in Nat /\ ~(i <= workers.len)
            BY <1>1, <2>2
        <3> QED BY <1>1, <3>1, WorkerTypes DEF NewCell
    <2> QED BY <1>1, <2>1, <2>2
<1>a. cells \in [1..cap -> Cell]
    BY <1>1, <1>3
<1>b. \A i \in 1..cap : cells[i] = IF i <= t THEN NewCell(i) ELSE arrays[a][i]
    OBVIOUS
<1>6. IF t <= cap
      THEN arrays' = filled /\ workers' = [workers EXCEPT !.len = t]
      ELSE arrays' = Append(filled, grown) /\ workers' = [array |-> Len(arrays) + 1, len |-> t]
    <2> DEFINE fresh == [i \in 1..(t - workers.len) |-> Worker(spawned + i, starts, FALSE)]
               cell(i) == IF i <= workers.len THEN arrays[a][i] ELSE fresh[i - workers.len]
               kept == [i \in 1..Cap(workers) |-> IF i <= t THEN cell(i) ELSE arrays[a][i]]
               moved == [i \in 1..Growth(Cap(workers), t) |-> IF i <= t THEN cell(i) ELSE NoWorker]
    <2>1. ASSUME NEW i \in 1..t PROVE cell(i) = NewCell(i)
        <3>1. CASE ~(i <= workers.len)
            <4>1. i - workers.len \in 1..(t - workers.len)
                BY <1>1, <3>1
            <4> QED BY <3>1, <4>1 DEF NewCell
        <3>2. CASE i <= workers.len
            BY <3>2 DEF NewCell
        <3> QED BY <3>1, <3>2
    <2>2. IF t <= Cap(workers)
          THEN /\ arrays' = IF Cap(workers) = 0 THEN arrays ELSE [arrays EXCEPT ![a] = kept]
               /\ workers' = [workers EXCEPT !.len = t]
          ELSE /\ arrays' = Append(IF Cap(workers) = 0 THEN arrays ELSE [arrays EXCEPT ![a] = kept], moved)
               /\ workers' = [array |-> Len(arrays) + 1, len |-> t]
        BY DEF ScaleUp
    <2> HIDE DEF fresh, cell
    <2>3. kept = cells
        BY <1>1, <1>2, <2>1
    <2>4. t > cap => moved = grown
        <3>1. t > cap => Growth(cap, t) \in Nat
            BY <1>1
        <3> QED BY <1>2, <2>1, <3>1
    <2> HIDE DEF cells, grown, kept, moved
    <2> QED BY <1>1, <1>2, <2>2, <2>3, <2>4
<1> HIDE DEF cells, cap
<1>4. cells \in Seq(Cell) /\ Len(cells) = cap
    BY <1>1, <1>a, MadeSeq
<1>5. /\ filled \in Seq(Seq(Cell)) /\ Len(filled) = Len(arrays)
      /\ filled[a] = cells /\ \A b \in 1..Len(arrays) : b # a => filled[b] = arrays[b]
    BY <1>1, <1>4, ChangedSeq
<1>9. Len(arrays[workers.array]) = cap
    BY DEF cap
<1> HIDE DEF cells, filled
<1>7. CASE t <= cap
    <2>1. arrays' = filled /\ workers' = [workers EXCEPT !.len = t]
        BY <1>6, <1>7
    <2>2. workers' \in [array : Nat, len : Nat] /\ workers'.len = t /\ workers'.array = a
        BY <1>1, <2>1
    <2>3. \A i \in 1..t : i \in 1..cap
        BY <1>1, <1>7
    <2>4. /\ arrays' \in Seq(Seq(Cell)) /\ Len(arrays') = Len(arrays) /\ arrays'[a] = cells
          /\ \A b \in 1..Len(arrays) : b # a => arrays'[b] = arrays[b]
        BY <1>5, <2>1
    <2>5. \A b \in 1..Len(arrays) : Len(arrays'[b]) = Len(arrays[b])
        BY <1>4, <1>9, <2>4
    <2>6. /\ \A i \in 1..Len(arrays[a]) :
                arrays'[a][i] = IF i <= t THEN NewCell(i) ELSE arrays[a][i]
          /\ \A i \in 1..t : arrays'[a][i] = NewCell(i)
        BY <1>9, <1>b, <2>3, <2>4
    <2>7. a \in 1..Len(arrays') /\ t <= Len(arrays'[a])
        BY <1>1, <1>4, <1>7, <2>4
    <2> QED BY <2>2, <2>4, <2>5, <2>6, <2>7
<1>8. CASE ~(t <= cap)
    <2>1. cap \in 0..(t - 1) /\ Growth(cap, t) \in Nat /\ Growth(cap, t) >= t
        BY <1>1, <1>8
    <2>2. grown \in [1..Growth(cap, t) -> Cell]
        BY <1>3, <2>1, WorkerTypes
    <2>3. grown \in Seq(Cell) /\ Len(grown) = Growth(cap, t)
        BY <2>1, <2>2, MadeSeq
    <2>4. /\ \A i \in 1..t : grown[i] = NewCell(i)
          /\ \A i \in 1..Len(grown) : i > t => grown[i] = NoWorker
        BY <2>1, <2>3
    <2>5. arrays' = Append(filled, grown) /\ workers' = [array |-> Len(arrays) + 1, len |-> t]
        BY <1>6, <1>8
    <2> HIDE DEF grown
    <2>6. /\ arrays' \in Seq(Seq(Cell)) /\ Len(arrays') = Len(arrays) + 1
          /\ arrays'[Len(arrays) + 1] = grown /\ \A b \in 1..Len(arrays) : arrays'[b] = filled[b]
        BY <1>5, <2>3, <2>5, AppendedSeq
    <2>7. /\ workers'.array = Len(arrays) + 1 /\ workers'.len = t
          /\ workers' \in [array : Nat, len : Nat]
        BY <1>1, <2>5
    <2>8. workers'.array # a /\ workers'.array \in 1..Len(arrays')
        BY <1>1, <2>6, <2>7
    <2>9. /\ t > Len(arrays[workers.array]) /\ t <= Len(arrays'[workers'.array])
          /\ Len(arrays') = Len(arrays) + 1
        BY <1>1, <1>8, <1>9, <2>1, <2>3, <2>6, <2>7
    <2>10. \A b \in 1..Len(arrays) :
              /\ Len(arrays'[b]) = Len(arrays[b])
              /\ b # workers.array => arrays'[b] = arrays[b]
        BY <1>1, <1>4, <1>5, <1>9, <2>6
    <2>11. \A i \in 1..Len(arrays[workers.array]) :
              arrays'[workers.array][i] = IF i <= t THEN NewCell(i) ELSE arrays[workers.array][i]
        BY <1>1, <1>5, <1>9, <1>b, <2>6
    <2>12. /\ \A i \in 1..t : arrays'[workers'.array][i] = NewCell(i)
           /\ \A i \in 1..Len(arrays'[workers'.array]) : i > t => arrays'[workers'.array][i] = NoWorker
        BY <2>4, <2>6, <2>7
    <2> QED BY <2>6, <2>7, <2>8, <2>9, <2>10, <2>11, <2>12
<1> QED BY <1>7, <1>8

LEMMA NewCells ==
    ASSUME SliceInv, running, NEW t \in Nat, t > workers.len, NEW i \in 1..t
    PROVE  /\ NewCell(i).id # 0 /\ NewCell(i).id \in Nat /\ NewCell(i).start = starts
           /\ IF i <= workers.len THEN NewCell(i) = arrays[workers.array][i]
                                  ELSE NewCell(i).id = spawned + (i - workers.len)
           /\ NewCell(i).id <= spawned + (t - workers.len)
<1>1. /\ workers.array \in 1..Len(arrays) /\ workers.len \in Nat /\ spawned \in Nat /\ starts \in Nat
      /\ workers.len <= Len(arrays[workers.array]) /\ Len(arrays[workers.array]) \in Nat
      /\ \A k \in 1..Len(arrays[workers.array]) : arrays[workers.array][k] \in Cell
    BY DEF SliceInv, Types, WorkersInv, OfStart
<1>2. CASE i <= workers.len
    <2>1. NewCell(i) = arrays[workers.array][i] /\ i \in 1..workers.len /\ i \in 1..Len(arrays[workers.array])
        BY <1>1, <1>2 DEF NewCell
    <2>2. /\ NewCell(i).id # 0 /\ NewCell(i).start = starts /\ NewCell(i).id <= spawned
          /\ NewCell(i).id \in Nat
        BY <1>1, <2>1 DEF SliceInv, WorkersInv, OfStart, Cell
    <2> QED BY <1>1, <1>2, <2>1, <2>2
<1>3. CASE ~(i <= workers.len)
    <2>1. spawned + (i - workers.len) \in Nat /\ spawned + (i - workers.len) > 0
        BY <1>1, <1>3
    <2>2. NewCell(i).id = spawned + (i - workers.len) /\ NewCell(i).start = starts
        BY <1>1, <1>3, <2>1, WorkerTypes DEF NewCell
    <2> QED BY <1>1, <1>3, <2>1, <2>2
<1> QED BY <1>2, <1>3

-----------------------------------------------------------------------------
(* Steps that leave the arrays, or add one to them. *)
LEMMA KeptArrays ==
    ASSUME NEW old \in Seq(Seq(Cell)), NEW new \in Seq(Seq(Cell)), Len(old) <= Len(new),
           \A b \in 1..Len(old) : new[b] = old[b],
           NEW array, NEW n, NEW start, OfStart(old, array, n, start)
    PROVE  OfStart(new, array, n, start)
BY DEF OfStart

LEMMA NextActions ==
    ASSUME Next
    PROVE  \/ Start \/ Stop \/ CtxEnds
           \/ \E target \in Targets \cup {0, MaxWorkers} : Scale(target)
           \/ \E s \in sweeps : SweepStep(s) \/ SweepEnds(s)
BY DEF Next, PauseQueue, ResumeQueue

(* Scale is asked for a number that the growth of arrays is known for. *)
LEMMA ScaleTargets ==
    ASSUME NEW target \in Targets \cup {0, MaxWorkers}
    PROVE  /\ target \in Nat /\ Clamp(target) \in Nat /\ Clamp(target) >= 1
           /\ \A c \in 0..(Clamp(target) - 1) :
                 Growth(c, Clamp(target)) \in Nat /\ Growth(c, Clamp(target)) >= Clamp(target)
<1>1. target \in Nat /\ MaxWorkers \in Nat \ {0}
    BY PoolAssumption
<1>2. Clamp(target) \in Targets \cup {1, MaxWorkers} /\ Clamp(target) \in Nat /\ Clamp(target) >= 1
    BY <1>1 DEF Clamp
<1> QED BY <1>1, <1>2, PoolAssumption

LEMMA SweepTypes ==
    ASSUME Types, NEW array \in Nat, NEW from \in Nat, NEW to \in Nat
    PROVE  /\ Sweep(array, from, to) \in SweepRecord
           /\ Sweep(array, from, to).array = array /\ Sweep(array, from, to).next = from
           /\ Sweep(array, from, to).last = to /\ Sweep(array, from, to).start = starts
BY DEF Sweep, SweepRecord, Types

LEMMA SliceStep ==
    ASSUME SliceInv, [Next]_vars
    PROVE  SliceInv'
<1>a. Types /\ SweepsInv /\ WorkersInv /\ (\A w \in alive : w.id # 0)
    BY DEF SliceInv
<1>b. /\ starts \in Nat /\ spawned \in Nat /\ MaxWorkers \in Nat /\ MaxWorkers >= 1
      /\ arrays \in Seq(Seq(Cell)) /\ Len(arrays) \in Nat
      /\ \A b \in 1..Len(arrays) : arrays[b] \in Seq(Cell) /\ Len(arrays[b]) \in Nat
      /\ alive \subseteq Cell /\ sweeps \subseteq SweepRecord
    BY <1>a, PoolAssumption DEF Types
<1>0. CASE UNCHANGED vars
    BY <1>0 DEF vars, SliceInv, Types, SweepsInv, WorkersInv, OfStart
<1>1. CASE Start
    <2> DEFINE n == Len(arrays) + 1
    <2>1. /\ arrays' \in Seq(Seq(Cell)) /\ Len(arrays') = n
          /\ \A b \in 1..Len(arrays) : arrays'[b] = arrays[b]
          /\ Len(arrays'[n]) = MaxWorkers
          /\ \A i \in 1..MaxWorkers : arrays'[n][i] = Worker(spawned + i, starts + 1, TRUE)
          /\ alive' = alive \cup {Worker(spawned + i, starts + 1, TRUE) : i \in 1..MaxWorkers}
        BY <1>1, <1>a, StartArrays
    <2>2. \A i \in 1..MaxWorkers : /\ Worker(spawned + i, starts + 1, TRUE) \in Cell
                                   /\ Worker(spawned + i, starts + 1, TRUE).id = spawned + i
                                   /\ Worker(spawned + i, starts + 1, TRUE).start = starts + 1
        <3>1. starts + 1 \in Nat /\ \A i \in 1..MaxWorkers : spawned + i \in Nat
            BY <1>b
        <3> QED BY <3>1, WorkerTypes
    <2>3. /\ workers' = [array |-> n, len |-> MaxWorkers] /\ watched' = workers'
          /\ running' = TRUE /\ ctxEnded' = FALSE /\ asked' = MaxWorkers
          /\ starts' = starts + 1 /\ spawned' = spawned + MaxWorkers /\ UNCHANGED sweeps
          /\ ~running
        BY <1>1 DEF Start
    <2> HIDE DEF n
    <2>4. n \in Nat /\ n >= 1
        BY <1>b DEF n
    <2>5. /\ workers'.array = n /\ workers'.len = MaxWorkers
          /\ workers' \in [array : Nat, len : Nat] /\ watched' \in [array : Nat, len : Nat]
        BY <2>3, <2>4, <1>b
    <2>6. alive' \subseteq Cell /\ \A w \in alive' : w.id # 0
        <3>1. \A i \in 1..MaxWorkers : spawned + i # 0
            BY <1>b
        <3>2. \A i \in 1..MaxWorkers : /\ Worker(spawned + i, starts + 1, TRUE) \in Cell
                                       /\ Worker(spawned + i, starts + 1, TRUE).id # 0
            BY <2>2, <3>1
        <3> HIDE DEF n
        <3> QED BY <2>1, <3>2, <1>a, <1>b
    <2>7. Types'
        <3>1. starts' \in Nat /\ spawned' \in Nat /\ asked' \in Nat
            BY <2>3, <1>b
        <3> QED BY <2>1, <2>3, <2>5, <2>6, <3>1, <1>a DEF Types
    <2>8. SweepsInv'
        <3> SUFFICES ASSUME NEW s \in sweeps
                     PROVE  /\ OfStart(arrays', s.array, s.last, s.start) /\ s.next >= 1
                            /\ s.start <= starts' /\ s.array # n
            BY <2>3, <2>5 DEF SweepsInv
        <3>1. OfStart(arrays, s.array, s.last, s.start) /\ s.next >= 1 /\ s.start <= starts
            BY <1>a DEF SweepsInv
        <3>2. s.start <= starts' /\ s.array # n
            <4>1. s.start \in Nat
                BY <1>a DEF Types, SweepRecord
            <4> QED BY <3>1, <4>1, <2>3, <1>b DEF OfStart, n
        <3>3. OfStart(arrays', s.array, s.last, s.start)
            <4>1. Len(arrays) <= Len(arrays')
                BY <2>1, <1>b DEF n
            <4> QED BY <3>1, <4>1, <2>1, <1>b, KeptArrays
        <3> QED BY <3>1, <3>2, <3>3
    <2>9. WorkersInv'
        <3>1. OfStart(arrays', n, MaxWorkers, starts')
            <4>1. n \in 1..Len(arrays') /\ MaxWorkers <= Len(arrays'[n])
                BY <2>1, <2>4, <1>b
            <4>2. \A i \in 1..Len(arrays'[n]) : arrays'[n][i].start = starts'
                BY <2>1, <2>2, <2>3
            <4> QED BY <4>1, <4>2 DEF OfStart
        <3>2. MaxWorkers = Clamp(MaxWorkers) /\ MaxWorkers >= 1
            BY <1>b DEF Clamp
        <3>3. \A i \in 1..MaxWorkers : /\ arrays'[n][i].id # 0 /\ arrays'[n][i].id = spawned + i
                                       /\ arrays'[n][i].id <= spawned'
            <4>1. \A i \in 1..MaxWorkers : arrays'[n][i].id = spawned + i
                BY <2>1, <2>2
            <4> QED BY <4>1, <2>3, <1>b
        <3>4. \A i, j \in 1..MaxWorkers : arrays'[n][i].id = arrays'[n][j].id => i = j
            BY <3>3, <1>b
        <3> QED BY <2>1, <2>3, <2>5, <3>1, <3>2, <3>3, <3>4 DEF WorkersInv
    <2> QED BY <2>6, <2>7, <2>8, <2>9 DEF SliceInv
<1>2. CASE Stop
    <2> DEFINE new == Sweep(watched.array, 1, watched.len)
    <2>1. /\ running /\ running' = FALSE /\ alive' \subseteq alive /\ sweeps' = sweeps \cup {new}
          /\ UNCHANGED <<arrays, workers, watched, ctxEnded, starts, spawned, asked>>
        BY <1>2 DEF Stop
    <2>2. watched.array \in Nat /\ watched.len \in Nat /\ starts \in Nat
        BY <1>a DEF Types
    <2>3. /\ new \in SweepRecord /\ new.array = watched.array /\ new.next = 1
          /\ new.last = watched.len /\ new.start = starts
        BY <2>2, <1>a, SweepTypes
    <2> HIDE DEF new
    <2>4. OfStart(arrays, new.array, new.last, new.start)
        BY <2>1, <2>3, <1>a DEF WorkersInv
    <2>5. Types'
        BY <2>1, <2>3, <1>a DEF Types
    <2>6. SweepsInv'
        BY <2>1, <2>2, <2>3, <2>4, <1>a DEF SweepsInv
    <2> QED BY <2>1, <2>5, <2>6, <1>a DEF SliceInv, WorkersInv
<1>3. ASSUME NEW target \in Targets \cup {0, MaxWorkers}, Scale(target) PROVE SliceInv'
    <2> DEFINE t == Clamp(target)
    <2>1. /\ running /\ asked' = target /\ UNCHANGED <<running, watched, ctxEnded, starts>>
          /\ \/ t > workers.len /\ ScaleUp(t)
             \/ t < workers.len /\ ScaleDown(t)
             \/ t = workers.len /\ UNCHANGED <<arrays, workers, sweeps, alive, spawned>>
        BY <1>3 DEF Scale
    <2>2. /\ target \in Nat /\ t \in Nat /\ t >= 1 /\ t = Clamp(asked')
          /\ \A c \in 0..(t - 1) : Growth(c, t) \in Nat /\ Growth(c, t) >= t
        BY <2>1, ScaleTargets
    <2> HIDE DEF t
    <2>3. CASE t = workers.len /\ UNCHANGED <<arrays, workers, sweeps, alive, spawned>>
        BY <2>1, <2>2, <2>3, <1>a DEF SliceInv, Types, SweepsInv, WorkersInv
    <2>4. CASE t < workers.len /\ ScaleDown(t)
        <3> DEFINE new == Sweep(workers.array, t + 1, workers.len)
        <3>1. /\ workers' = [workers EXCEPT !.len = t] /\ sweeps' = sweeps \cup {new}
              /\ UNCHANGED <<arrays, alive, spawned>>
            BY <2>4 DEF ScaleDown
        <3>2. /\ workers \in [array : Nat, len : Nat] /\ workers.array \in Nat /\ workers.len \in Nat
              /\ starts \in Nat /\ t + 1 \in Nat
            BY <2>2, <1>a DEF Types
        <3>3. /\ new \in SweepRecord /\ new.array = workers.array /\ new.next = t + 1
              /\ new.last = workers.len /\ new.start = starts
            BY <3>2, <1>a, SweepTypes
        <3> HIDE DEF new
        <3>4. /\ workers' \in [array : Nat, len : Nat]
              /\ workers'.array = workers.array /\ workers'.len = t
            BY <3>1, <3>2, <2>2
        <3>5. OfStart(arrays, workers.array, workers.len, starts)
            BY <2>1, <1>a DEF WorkersInv
        <3>6. Types'
            BY <2>1, <2>2, <3>1, <3>3, <3>4, <1>a DEF Types
        <3>7. SweepsInv'
            BY <2>1, <2>2, <3>1, <3>2, <3>3, <3>4, <3>5, <1>a DEF SweepsInv
        <3>8. OfStart(arrays, workers.array, t, starts)
            BY <3>5, <3>2, <2>2, <2>4, <1>a DEF OfStart, Types
        <3>9. \A i \in 1..t : i \in 1..workers.len
            BY <2>2, <2>4, <3>2
        <3> QED BY <2>1, <2>2, <3>1, <3>4, <3>6, <3>7, <3>8, <3>9, <1>a DEF SliceInv, WorkersInv
    <2>5. CASE t > workers.len /\ ScaleUp(t)
        <3> DEFINE a == workers.array
                   new == workers'.array
        <3>1. /\ arrays' \in Seq(Seq(Cell)) /\ Len(arrays') \in {Len(arrays), Len(arrays) + 1}
              /\ \A b \in 1..Len(arrays) : /\ Len(arrays'[b]) = Len(arrays[b])
                                           /\ b # a => arrays'[b] = arrays[b]
              /\ \A i \in 1..Len(arrays[a]) :
                    arrays'[a][i] = IF i <= t THEN NewCell(i) ELSE arrays[a][i]
              /\ workers' \in [array : Nat, len : Nat] /\ workers'.len = t
              /\ new = a \/ new = Len(arrays) + 1
              /\ new \in 1..Len(arrays') /\ t <= Len(arrays'[new])
              /\ \A i \in 1..t : arrays'[new][i] = NewCell(i)
              /\ \A i \in 1..Len(arrays'[new]) : i > t => new = a \/ arrays'[new][i] = NoWorker
            BY <2>1, <2>2, <2>5, ScaleUpArrays
        <3>2. \A i \in 1..t :
                 /\ NewCell(i).id # 0 /\ NewCell(i).id \in Nat /\ NewCell(i).start = starts
                 /\ IF i <= workers.len THEN NewCell(i) = arrays[a][i]
                                        ELSE NewCell(i).id = spawned + (i - workers.len)
                 /\ NewCell(i).id <= spawned + (t - workers.len)
            BY <2>1, <2>2, <2>5, NewCells
        <3>3. /\ spawned' = spawned + (t - workers.len) /\ UNCHANGED sweeps
              /\ alive' = alive \cup {Worker(spawned + k, starts, FALSE) : k \in 1..(t - workers.len)}
            BY <2>5 DEF ScaleUp
        <3>4. /\ OfStart(arrays, a, workers.len, starts) /\ a \in 1..Len(arrays) /\ Len(arrays) \in Nat
              /\ Len(arrays[a]) \in Nat /\ workers.len <= Len(arrays[a])
              /\ workers.len \in Nat /\ spawned \in Nat /\ starts \in Nat /\ spawned' \in Nat
            <4>1. OfStart(arrays, a, workers.len, starts) /\ workers.len \in Nat
                BY <2>1, <1>a DEF WorkersInv, Types
            <4> QED BY <4>1, <1>b, <2>2, <2>5, <3>3 DEF OfStart
        <3> HIDE DEF new, a
        <3>5. alive' \subseteq Cell /\ \A w \in alive' : w.id # 0
            <4>1. \A k \in 1..(t - workers.len) : spawned + k \in Nat /\ spawned + k # 0
                BY <3>4, <2>2
            <4>2. \A k \in 1..(t - workers.len) : /\ Worker(spawned + k, starts, FALSE) \in Cell
                                                  /\ Worker(spawned + k, starts, FALSE).id # 0
                BY <4>1, <3>4, WorkerTypes
            <4> QED BY <3>3, <4>2, <1>a DEF Types
        <3>6. Types'
            BY <2>1, <2>2, <3>1, <3>3, <3>4, <3>5, <1>a DEF Types
        <3>7. ASSUME NEW b, NEW m, NEW st, OfStart(arrays, b, m, st), b = a => st = starts
              PROVE  OfStart(arrays', b, m, st)
            <4>0. b \in 1..Len(arrays) /\ b \in 1..Len(arrays')
                BY <3>1, <3>4, <3>7 DEF OfStart
            <4>1. CASE b # a
                BY <3>1, <3>4, <3>7, <4>0, <4>1 DEF OfStart
            <4>2. CASE b = a
                <5>1. ASSUME NEW i \in 1..Len(arrays[a]), arrays'[a][i].id # 0
                      PROVE  arrays'[a][i].start = starts
                    <6>1. CASE i <= t
                        BY <3>1, <3>2, <5>1, <6>1, <2>2
                    <6>2. CASE ~(i <= t)
                        BY <3>1, <3>4, <5>1, <6>2 DEF OfStart
                    <6> QED BY <6>1, <6>2
                <5>2. m <= Len(arrays'[a]) /\ Len(arrays'[a]) = Len(arrays[a]) /\ st = starts
                    BY <3>1, <3>7, <4>0, <4>2 DEF OfStart
                <5> QED BY <4>0, <4>2, <5>1, <5>2 DEF OfStart
            <4> QED BY <4>1, <4>2
        <3>8. SweepsInv'
            <4> SUFFICES ASSUME NEW s \in sweeps
                         PROVE  /\ OfStart(arrays', s.array, s.last, s.start) /\ s.next >= 1
                                /\ s.start <= starts /\ (s.array = new => s.start = starts)
                BY <2>1, <3>3 DEF SweepsInv, new
            <4>1. /\ OfStart(arrays, s.array, s.last, s.start) /\ s.next >= 1 /\ s.start <= starts
                  /\ (s.array = a => s.start = starts)
                BY <2>1, <1>a DEF SweepsInv, a
            <4>2. s.array \in 1..Len(arrays)
                BY <4>1 DEF OfStart
            <4>3. s.array = new => s.array = a
                BY <3>1, <3>4, <4>2
            <4> QED BY <4>1, <4>3, <3>7
        <3>9. WorkersInv'
            <4> DEFINE c(i) == arrays'[new][i]
            <4>1. \A i \in 1..Len(arrays'[new]) :
                     IF i <= t THEN c(i) = NewCell(i)
                     ELSE (new = a /\ i \in 1..Len(arrays[a]) /\ c(i) = arrays[a][i]) \/ c(i) = NoWorker
                <5> SUFFICES ASSUME NEW i \in 1..Len(arrays'[new]), ~(i <= t), new = a
                             PROVE  i \in 1..Len(arrays[a]) /\ c(i) = arrays[a][i]
                    <6>1. \A i \in 1..Len(arrays'[new]) : i <= t => i \in 1..t
                        BY <2>2
                    <6>2. \A i \in 1..Len(arrays'[new]) : i <= t \/ i > t
                        BY <2>2
                    <6> QED BY <3>1, <6>1, <6>2
                <5>1. Len(arrays'[new]) = Len(arrays[a])
                    BY <3>1, <3>4
                <5> QED BY <3>1, <5>1
            <4>2. \A i \in 1..Len(arrays[a]) :
                     /\ arrays[a][i] \in Cell /\ arrays[a][i].id <= spawned /\ arrays[a][i].id \in Nat
                     /\ arrays[a][i].id # 0 => arrays[a][i].start = starts
                <5>1. \A i \in 1..Len(arrays[a]) : arrays[a][i] \in Cell
                    BY <3>4, <1>b
                <5>2. \A i \in 1..Len(arrays[a]) : arrays[a][i].id <= spawned
                    BY <2>1, <1>a DEF WorkersInv, a
                <5> QED BY <5>1, <5>2, <3>4 DEF OfStart, Cell
            <4>3. \A i, j \in 1..Len(arrays[a]) :
                     arrays[a][i].id = arrays[a][j].id /\ arrays[a][i].id # 0 => i = j
                BY <2>1, <1>a DEF WorkersInv, a
            <4>4. OfStart(arrays', new, t, starts)
                <5>1. ASSUME NEW i \in 1..Len(arrays'[new]), c(i).id # 0 PROVE c(i).start = starts
                    <6>1. CASE i <= t
                        BY <3>2, <4>1, <6>1, <2>2
                    <6>2. CASE ~(i <= t)
                        BY <4>1, <4>2, <5>1, <6>2, WorkerTypes
                    <6> QED BY <6>1, <6>2
                <5> QED BY <3>1, <5>1 DEF OfStart
            <4>5. OfStart(arrays', watched.array, watched.len, starts)
                BY <3>7, <2>1, <1>a DEF WorkersInv
            <4>6. \A i \in 1..Len(arrays'[new]) : c(i).id <= spawned'
                <5> SUFFICES ASSUME NEW i \in 1..Len(arrays'[new]) PROVE c(i).id <= spawned'
                    OBVIOUS
                <5>1. spawned <= spawned' /\ 0 <= spawned'
                    BY <3>3, <3>4, <2>2, <2>5
                <5>2. CASE i <= t
                    BY <3>2, <3>3, <4>1, <5>2, <2>2
                <5>3. CASE ~(i <= t)
                    <6>1. c(i).id = 0 \/ (c(i).id \in Nat /\ c(i).id <= spawned)
                        BY <4>1, <4>2, <5>3, WorkerTypes
                    <6> QED BY <5>1, <6>1, <3>4
                <5> QED BY <5>2, <5>3
            <4>7. ASSUME NEW i \in 1..Len(arrays'[new]), NEW j \in 1..Len(arrays'[new]),
                         c(i).id = c(j).id, c(i).id # 0
                  PROVE  i = j
                <5> DEFINE Fresh(k) == k > workers.len /\ c(k).id = spawned + (k - workers.len)
                           Old(k) == k \in 1..Len(arrays[a]) /\ c(k) = arrays[a][k]
                <5>1. ASSUME NEW k \in 1..Len(arrays'[new]), c(k).id # 0 PROVE Fresh(k) \/ Old(k)
                    <6>1. CASE ~(k <= t)
                        BY <4>1, <5>1, <6>1, WorkerTypes
                    <6>2. CASE k <= t
                        <7>1. c(k) = NewCell(k) /\ k \in 1..t /\ k \in Nat
                            BY <4>1, <6>2, <2>2
                        <7>2. CASE k <= workers.len
                            BY <7>1, <7>2, <3>2, <3>4
                        <7>3. CASE ~(k <= workers.len)
                            BY <7>1, <7>3, <3>2, <3>4
                        <7> QED BY <7>2, <7>3
                    <6> QED BY <6>1, <6>2
                <5>2. (Fresh(i) \/ Old(i)) /\ (Fresh(j) \/ Old(j))
                    BY <5>1, <4>7
                <5>3. /\ Old(i) => c(i).id <= spawned /\ c(i).id \in Nat
                      /\ Old(j) => c(j).id <= spawned /\ c(j).id \in Nat
                    BY <4>2
                <5>4. Old(i) /\ Old(j) => i = j
                    BY <4>3, <4>7
                <5>5. i \in Nat /\ j \in Nat
                    OBVIOUS
                <5> HIDE DEF c
                <5>6. CASE Fresh(i) /\ Fresh(j)
                    BY <5>5, <5>6, <4>7, <3>4
                <5>7. CASE Fresh(i) /\ Old(j)
                    BY <5>3, <5>5, <5>7, <4>7, <3>4
                <5>8. CASE Old(i) /\ Fresh(j)
                    BY <5>3, <5>5, <5>8, <4>7, <3>4
                <5> QED BY <5>2, <5>4, <5>6, <5>7, <5>8
            <4> QED BY <2>1, <2>2, <3>1, <3>2, <4>4, <4>5, <4>6, <4>7 DEF WorkersInv, new
        <3> QED BY <3>5, <3>6, <3>8, <3>9 DEF SliceInv
    <2> QED BY <2>1, <2>3, <2>4, <2>5
<1>4. ASSUME NEW s \in sweeps, SweepStep(s) PROVE SliceInv'
    <2> DEFINE new == [s EXCEPT !.next = @ + 1]
    <2>1. /\ alive' \subseteq alive /\ sweeps' = (sweeps \ {s}) \cup {new}
          /\ UNCHANGED <<running, arrays, workers, watched, ctxEnded, starts, spawned, asked>>
        BY <1>4 DEF SweepStep
    <2>2. /\ new \in SweepRecord /\ new.array = s.array /\ new.last = s.last /\ new.start = s.start
          /\ new.next = s.next + 1 /\ s.next \in Nat
        BY <1>b DEF SweepRecord
    <2> HIDE DEF new
    <2>3. Types'
        BY <2>1, <2>2, <1>a DEF Types
    <2>4. SweepsInv'
        BY <2>1, <2>2, <1>a DEF SweepsInv
    <2> QED BY <2>1, <2>3, <2>4, <1>a DEF SliceInv, WorkersInv
<1>5. ASSUME NEW s \in sweeps, SweepEnds(s) PROVE SliceInv'
    BY <1>5, <1>a DEF SweepEnds, SliceInv, Types, SweepsInv, WorkersInv
<1>6. CASE CtxEnds
    BY <1>6, <1>a DEF CtxEnds, SliceInv, Types, SweepsInv, WorkersInv
<1> QED BY <1>0, <1>1, <1>2, <1>3, <1>4, <1>5, <1>6, NextActions

LEMMA SliceInvariant == Spec => []SliceInv
<1>1. Init => SliceInv
    <2> SUFFICES ASSUME Init PROVE SliceInv
        OBVIOUS
    <2>1. NoSlice \in [array : Nat, len : Nat] /\ <<>> \in Seq(Seq(Cell))
        BY DEF NoSlice
    <2>2. Types
        BY <2>1 DEF Init, Types
    <2> QED BY <2>2 DEF Init, SliceInv, SweepsInv, WorkersInv
<1>2. SliceInv /\ [Next]_vars => SliceInv'
    BY SliceStep
<1> QED BY <1>1, <1>2, PTL DEF Spec

(* The goroutine of a Scale, and the watch of an earlier Start, go on after *)
(* the pool was restarted and read an array that append may still write to; *)
(* what they stop is of their own Start all the same, however Scales        *)
(* overlap.                                                                 *)
THEOREM RestartsIsolated == Spec => RestartIsolated
<1>1. SliceInv => \A s \in sweeps : SweepStep(s) => \A w \in alive \ alive' : w.start = s.start
    <2> SUFFICES ASSUME SliceInv, NEW s \in sweeps, SweepStep(s), NEW w \in alive \ alive'
                 PROVE  w.start = s.start
        OBVIOUS
    <2>1. w = arrays[s.array][s.next] /\ s.next <= s.last /\ w.id # 0
        BY DEF SweepStep, SliceInv
    <2>2. OfStart(arrays, s.array, s.last, s.start) /\ s.next >= 1 /\ s \in SweepRecord
        BY DEF SliceInv, SweepsInv, Types
    <2>3. s.next \in Nat /\ s.last \in Nat /\ Len(arrays[s.array]) \in Nat
        BY <2>2 DEF SweepRecord, SliceInv, Types, OfStart
    <2>4. s.next \in 1..Len(arrays[s.array])
        BY <2>1, <2>2, <2>3 DEF OfStart
    <2> QED BY <2>1, <2>2, <2>4 DEF OfStart
<1> QED BY <1>1, SliceInvariant, PTL DEF RestartIsolated, Spec

-----------------------------------------------------------------------------
(* Overlapping Scales. *)

(* A worker is in the array of p.workers only once. *)
LEMMA OneCell ==
    ASSUME SliceInv, running, NEW i \in 1..workers.len, NEW j \in 1..Len(arrays[workers.array]),
           arrays[workers.array][i] = arrays[workers.array][j]
    PROVE  i = j
<1>1. /\ workers.len \in Nat /\ Len(arrays[workers.array]) \in Nat
      /\ workers.len <= Len(arrays[workers.array])
    BY DEF SliceInv, Types, WorkersInv, OfStart
<1>2. i \in 1..Len(arrays[workers.array])
    BY <1>1
<1> QED BY <1>2 DEF SliceInv, WorkersInv

(* The cells that a goroutine is to read are cells of its array. *)
LEMMA SweptCells ==
    ASSUME SliceInv, NEW s \in sweeps, NEW i \in s.next..s.last
    PROVE  s.array \in 1..Len(arrays) /\ i \in 1..Len(arrays[s.array])
<1>1. OfStart(arrays, s.array, s.last, s.start) /\ s.next >= 1 /\ s \in SweepRecord
    BY DEF SliceInv, SweepsInv, Types
<1>2. s.next \in Nat /\ s.last \in Nat /\ s.array \in 1..Len(arrays)
      /\ Len(arrays[s.array]) \in Nat /\ s.last <= Len(arrays[s.array])
    BY <1>1 DEF SweepRecord, SliceInv, Types, OfStart
<1> QED BY <1>1, <1>2

(* A worker that a goroutine is to stop is a known one. *)
LEMMA PendingKnown ==
    ASSUME SliceInv, KnownInv, NEW w, Pending(w)
    PROVE  w \in Cell /\ w.id <= spawned
<1>1. PICK s \in sweeps : \E i \in s.next..s.last : arrays[s.array][i] = w
    BY DEF Pending
<1>2. PICK i \in s.next..s.last : arrays[s.array][i] = w
    BY <1>1
<1>3. s.array \in 1..Len(arrays) /\ i \in 1..Len(arrays[s.array])
    BY SweptCells
<1> QED BY <1>2, <1>3 DEF KnownInv, SliceInv, Types

(* The workers that Scale adds are new, and what it does to the cells that  *)
(* the goroutines have still to read.                                       *)
LEMMA ScaleUpCells ==
    ASSUME SliceInv, KnownInv, running, NEW t \in Nat, t > workers.len, ScaleUp(t),
           \A c \in 0..(t - 1) : Growth(c, t) \in Nat /\ Growth(c, t) >= t
    PROVE  /\ \A i \in 1..workers.len : i \in 1..t /\ NewCell(i) = arrays[workers.array][i]
           /\ \A i \in 1..t : i > workers.len => NewCell(i) \in Cell /\ NewCell(i).id > spawned
           /\ \A w \in Contents(workers)' :
                 \/ w \in Contents(workers)
                 \/ \E i \in 1..t : i > workers.len /\ w = NewCell(i)
           /\ Contents(workers) \subseteq Contents(workers)'
           /\ alive' = alive \cup {NewCell(i) : i \in (workers.len + 1)..t}
           /\ \A i \in (workers.len + 1)..t : NewCell(i) \in Contents(workers)'
           /\ lost' = lost \cup {arrays[workers.array][i] : i \in Unread(t)}
           /\ doomed' = doomed \cup {NewCell(i) : i \in Unread(t)}
           /\ UNCHANGED sweeps
           /\ \A s \in sweeps, i \in Nat : i \in s.next..s.last =>
                 IF s.array = workers.array /\ i \in Unread(t)
                 THEN arrays'[s.array][i] = NewCell(i)
                 ELSE arrays'[s.array][i] = arrays[s.array][i]
<1>1. /\ workers'.len = t /\ \A i \in 1..t : arrays'[workers'.array][i] = NewCell(i)
      /\ \A b \in 1..Len(arrays) : b # workers.array => arrays'[b] = arrays[b]
      /\ \A i \in 1..Len(arrays[workers.array]) :
            arrays'[workers.array][i] = IF i <= t THEN NewCell(i) ELSE arrays[workers.array][i]
    BY ScaleUpArrays
<1>2. workers.len \in Nat /\ spawned \in Nat /\ starts \in Nat /\ t \in Nat
    BY DEF SliceInv, Types
<1>3. \A i \in 1..workers.len : i \in 1..t /\ NewCell(i) = arrays[workers.array][i]
    <2>1. \A i \in 1..workers.len : i \in 1..t /\ i <= workers.len
        BY <1>2
    <2> QED BY <2>1 DEF NewCell
<1>4. ASSUME NEW i \in 1..t, i > workers.len
      PROVE  /\ NewCell(i) = Worker(spawned + (i - workers.len), starts, FALSE)
             /\ NewCell(i) \in Cell /\ NewCell(i).id > spawned
    <2>1. ~(i <= workers.len) /\ spawned + (i - workers.len) \in Nat
          /\ spawned + (i - workers.len) > spawned
        BY <1>2, <1>4
    <2> QED BY <1>2, <2>1, WorkerTypes DEF NewCell
<1>5. Contents(workers)' = {NewCell(i) : i \in 1..t}
    BY <1>1 DEF Contents
<1>6. ASSUME NEW i \in 1..t, ~(i > workers.len) PROVE NewCell(i) \in Contents(workers)
    <2>1. i \in 1..workers.len
        BY <1>2, <1>6
    <2> QED BY <1>3, <2>1 DEF Contents
<1>7. \A i \in (workers.len + 1)..t : i \in 1..t /\ i > workers.len
    BY <1>2
<1> DEFINE count == t - workers.len
           fresh == [i \in 1..count |-> Worker(spawned + i, starts, FALSE)]
<1>8. \A i \in (workers.len + 1)..t : fresh[i - workers.len] = NewCell(i)
    <2> SUFFICES ASSUME NEW i \in (workers.len + 1)..t PROVE fresh[i - workers.len] = NewCell(i)
        OBVIOUS
    <2>1. i - workers.len \in 1..count
        BY <1>2
    <2> QED BY <1>4, <1>7, <2>1
<1>9. /\ alive' = alive \cup {fresh[i] : i \in 1..count} /\ UNCHANGED sweeps
      /\ lost' = lost \cup {arrays[workers.array][i] : i \in Unread(t)}
      /\ doomed' = doomed \cup {fresh[i - workers.len] : i \in Unread(t)}
    BY DEF ScaleUp
<1> HIDE DEF fresh
<1>10. {fresh[i] : i \in 1..count} = {NewCell(i) : i \in (workers.len + 1)..t}
    <2>1. ASSUME NEW i \in 1..count
          PROVE  i + workers.len \in (workers.len + 1)..t /\ (i + workers.len) - workers.len = i
        BY <1>2
    <2>2. ASSUME NEW i \in (workers.len + 1)..t PROVE i - workers.len \in 1..count
        BY <1>2
    <2> HIDE DEF count
    <2>3. ASSUME NEW i \in 1..count
          PROVE  \E j \in (workers.len + 1)..t : fresh[i] = NewCell(j)
        BY <1>8, <2>1
    <2> QED BY <1>8, <2>2, <2>3
<1> HIDE DEF count
<1>11. Unread(t) \subseteq (workers.len + 1)..t
    BY DEF Unread
<1>12. {fresh[i - workers.len] : i \in Unread(t)} = {NewCell(i) : i \in Unread(t)}
    BY <1>8, <1>11
<1>13. ASSUME NEW s \in sweeps, NEW i \in Nat, i \in s.next..s.last
       PROVE  IF s.array = workers.array /\ i \in Unread(t)
              THEN arrays'[s.array][i] = NewCell(i)
              ELSE arrays'[s.array][i] = arrays[s.array][i]
    <2>1. s.array \in 1..Len(arrays) /\ i \in 1..Len(arrays[s.array])
        BY <1>13, SweptCells
    <2>2. CASE s.array # workers.array
        BY <1>1, <2>1, <2>2
    <2>3. CASE s.array = workers.array /\ i \in Unread(t)
        BY <1>1, <1>2, <1>7, <1>11, <2>1, <2>3
    <2>4. CASE s.array = workers.array /\ i \notin Unread(t)
        <3>1. i \in 1..Len(arrays[workers.array])
            BY <2>1, <2>4
        <3>2. i \notin (workers.len + 1)..t
            BY <1>13, <2>4 DEF Unread
        <3>3. CASE i <= workers.len
            <4>1. i \in 1..workers.len /\ i <= t
                BY <1>2, <3>1, <3>3
            <4> QED BY <1>1, <1>3, <2>4, <3>1, <4>1
        <3>4. CASE ~(i <= t)
            BY <1>1, <2>4, <3>1, <3>4
        <3> QED BY <1>2, <3>1, <3>2, <3>3, <3>4
    <2> QED BY <2>2, <2>3, <2>4
<1>14. /\ \A i \in 1..t : i > workers.len => NewCell(i) \in Cell /\ NewCell(i).id > spawned
       /\ \A w \in Contents(workers)' :
             \/ w \in Contents(workers)
             \/ \E i \in 1..t : i > workers.len /\ w = NewCell(i)
       /\ \A i \in (workers.len + 1)..t : NewCell(i) \in Contents(workers)'
    BY <1>4, <1>5, <1>6, <1>7
<1>15. Contents(workers) \subseteq Contents(workers)'
    BY <1>3, <1>5 DEF Contents
<1> QED BY <1>3, <1>9, <1>10, <1>12, <1>13, <1>14, <1>15

(* What a Scale that adds workers makes of the workers known so far. *)
LEMMA ScaleUpKnown ==
    ASSUME SliceInv, KnownInv, running, NEW t \in Nat, t > workers.len, ScaleUp(t),
           \A c \in 0..(t - 1) : Growth(c, t) \in Nat /\ Growth(c, t) >= t
    PROVE  KnownInv'
<1>1. /\ arrays' \in Seq(Seq(Cell)) /\ Len(arrays') \in {Len(arrays), Len(arrays) + 1}
      /\ \A b \in 1..Len(arrays) :
            /\ Len(arrays'[b]) = Len(arrays[b])
            /\ b # workers.array => arrays'[b] = arrays[b]
      /\ \A i \in 1..Len(arrays[workers.array]) :
            arrays'[workers.array][i] = IF i <= t THEN NewCell(i) ELSE arrays[workers.array][i]
      /\ \/ workers'.array = workers.array /\ Len(arrays') = Len(arrays)
         \/ workers'.array = Len(arrays) + 1
      /\ workers'.array \in 1..Len(arrays')
      /\ \A i \in 1..t : arrays'[workers'.array][i] = NewCell(i)
      /\ \A i \in 1..Len(arrays'[workers'.array]) : i > t =>
            \/ workers'.array = workers.array
            \/ arrays'[workers'.array][i] = NoWorker
    BY ScaleUpArrays
<1>2. /\ workers.len \in Nat /\ spawned \in Nat /\ Len(arrays) \in Nat
      /\ workers.array \in 1..Len(arrays) /\ Len(arrays[workers.array]) \in Nat
    BY DEF SliceInv, Types, WorkersInv, OfStart
<1>3. spawned' = spawned + (t - workers.len) /\ spawned' \in Nat /\ spawned <= spawned'
    BY <1>2 DEF ScaleUp
<1>4. \A i \in 1..t : NewCell(i) \in Cell /\ NewCell(i).id \in Nat /\ NewCell(i).id <= spawned'
    <2>1. \A i \in 1..t : NewCell(i).id \in Nat /\ NewCell(i).id <= spawned'
        BY <1>3, NewCells
    <2>2. ASSUME NEW i \in 1..t PROVE NewCell(i) \in Cell
        <3>1. CASE i > workers.len
            BY <3>1, ScaleUpCells
        <3>2. CASE ~(i > workers.len)
            <4>1. i \in 1..workers.len /\ i \in 1..Len(arrays[workers.array])
                BY <1>2, <3>2 DEF SliceInv, WorkersInv, OfStart
            <4>2. NewCell(i) = arrays[workers.array][i]
                BY <4>1, ScaleUpCells
            <4>3. arrays[workers.array][i] \in Cell
                BY <1>2, <4>1 DEF SliceInv, Types
            <4> QED BY <4>2, <4>3
        <3> QED BY <3>1, <3>2
    <2> QED BY <2>1, <2>2
<1>5. ASSUME NEW b \in 1..Len(arrays), NEW i \in 1..Len(arrays[b])
      PROVE  arrays[b][i] \in Cell /\ arrays[b][i].id \in Nat /\ arrays[b][i].id <= spawned'
    <2>1. arrays[b][i] \in Cell
        BY DEF SliceInv, Types
    <2>2. arrays[b][i].id \in Nat
        BY <2>1 DEF Cell
    <2>3. arrays[b][i].id <= spawned
        BY DEF KnownInv
    <2> QED BY <1>2, <1>3, <2>1, <2>2, <2>3
<1>6. ASSUME NEW b \in 1..Len(arrays'), NEW i \in 1..Len(arrays'[b])
      PROVE  arrays'[b][i].id <= spawned'
    <2>1. CASE b \in 1..Len(arrays)
        <3>1. i \in 1..Len(arrays[b])
            BY <1>1, <2>1
        <3>2. CASE b # workers.array
            BY <1>1, <1>5, <2>1, <3>1, <3>2
        <3>3. CASE b = workers.array /\ i <= t
            <4>1. i \in 1..t /\ arrays'[b][i] = NewCell(i)
                BY <1>1, <3>1, <3>3
            <4> QED BY <1>4, <4>1
        <3>4. CASE b = workers.array /\ ~(i <= t)
            BY <1>1, <1>5, <2>1, <3>1, <3>4
        <3> QED BY <3>2, <3>3, <3>4
    <2>2. CASE b \notin 1..Len(arrays)
        <3>1. b = Len(arrays) + 1 /\ Len(arrays') = Len(arrays) + 1
            BY <1>1, <1>2, <2>2
        <3>2. CASE workers'.array = b
            <4>1. CASE i <= t
                <5>1. i \in 1..t
                    BY <4>1
                <5> QED BY <1>1, <1>4, <3>2, <5>1
            <4>2. CASE ~(i <= t)
                <5>1. i > t /\ workers'.array # workers.array
                    BY <1>2, <3>1, <3>2, <4>2
                <5>2. arrays'[b][i] = NoWorker
                    BY <1>1, <3>2, <5>1
                <5> QED BY <1>3, <5>2, WorkerTypes
            <4> QED BY <4>1, <4>2
        <3>3. CASE workers'.array # b
            BY <1>1, <1>2, <3>1, <3>3
        <3> QED BY <3>2, <3>3
    <2> QED BY <2>1, <2>2
<1>7. ASSUME NEW w \in lost' \cup doomed' PROVE w \in Cell /\ w.id <= spawned'
    <2>1. /\ lost' = lost \cup {arrays[workers.array][i] : i \in Unread(t)}
          /\ doomed' = doomed \cup {NewCell(i) : i \in Unread(t)}
        BY ScaleUpCells
    <2>2. CASE w \in lost \cup doomed
        <3>1. w \in Cell /\ w.id <= spawned /\ w.id \in Nat
            BY <2>2 DEF KnownInv, Cell
        <3> QED BY <1>2, <1>3, <3>1
    <2>3. ASSUME NEW i \in Unread(t)
          PROVE  i \in 1..t /\ i \in 1..Len(arrays[workers.array])
        <3>1. i \in 1..t
            BY <1>2 DEF Unread
        <3>2. PICK s \in sweeps : s.array = workers.array /\ i \in s.next..s.last
            BY DEF Unread
        <3> QED BY <3>1, <3>2, SweptCells
    <2> QED BY <1>2, <1>4, <1>5, <2>1, <2>2, <2>3
<1> QED BY <1>6, <1>7 DEF KnownInv

(* A Scale that adds workers: what it overwrites is lost, what it writes    *)
(* there is doomed, and every other worker stays what it was.               *)
LEMMA ScaleUpLive ==
    ASSUME SliceInv, LiveInv, running, UNCHANGED <<running, ctxEnded>>,
           NEW t \in Nat, t > workers.len, ScaleUp(t),
           \A c \in 0..(t - 1) : Growth(c, t) \in Nat /\ Growth(c, t) >= t
    PROVE  LiveInv'
<1>a. KnownInv /\ AliveInv /\ KeptInv
    BY DEF LiveInv
<1>1. /\ \A i \in 1..workers.len : i \in 1..t /\ NewCell(i) = arrays[workers.array][i]
      /\ \A i \in 1..t : i > workers.len => NewCell(i) \in Cell /\ NewCell(i).id > spawned
      /\ \A w \in Contents(workers)' :
            \/ w \in Contents(workers)
            \/ \E i \in 1..t : i > workers.len /\ w = NewCell(i)
      /\ Contents(workers) \subseteq Contents(workers)'
      /\ alive' = alive \cup {NewCell(i) : i \in (workers.len + 1)..t}
      /\ \A i \in (workers.len + 1)..t : NewCell(i) \in Contents(workers)'
      /\ lost' = lost \cup {arrays[workers.array][i] : i \in Unread(t)}
      /\ doomed' = doomed \cup {NewCell(i) : i \in Unread(t)}
      /\ UNCHANGED sweeps
      /\ \A s \in sweeps, i \in Nat : i \in s.next..s.last =>
            IF s.array = workers.array /\ i \in Unread(t)
            THEN arrays'[s.array][i] = NewCell(i)
            ELSE arrays'[s.array][i] = arrays[s.array][i]
    BY <1>a, ScaleUpCells
<1>2. workers.len \in Nat /\ spawned \in Nat /\ workers.len >= 1
    BY DEF SliceInv, Types, WorkersInv
<1>3. ASSUME NEW i \in Unread(t)
      PROVE  /\ i \in 1..t /\ i > workers.len /\ i \in (workers.len + 1)..t
             /\ \E s \in sweeps : s.array = workers.array /\ i \in s.next..s.last
    BY <1>2 DEF Unread
(* What stood in a cell that is overwritten is not in p.workers. *)
<1>4. ASSUME NEW i \in Unread(t) PROVE arrays[workers.array][i] \notin Contents(workers)
    <2> SUFFICES ASSUME NEW j \in 1..workers.len, arrays[workers.array][j] = arrays[workers.array][i]
                 PROVE  FALSE
        BY DEF Contents
    <2>1. i \in 1..Len(arrays[workers.array]) /\ i > workers.len /\ i \in Nat
        BY <1>3, SweptCells
    <2>2. j = i
        BY <2>1, OneCell
    <2> QED BY <1>2, <2>1, <2>2
(* A worker known so far is not a new one. *)
<1>5. ASSUME NEW w \in Contents(workers)', w \in Cell, w.id <= spawned PROVE w \in Contents(workers)
    <2> SUFFICES ASSUME NEW i \in 1..t, i > workers.len, w = NewCell(i) PROVE FALSE
        BY <1>1
    <2>1. NewCell(i).id > spawned /\ w.id \in Nat
        BY <1>1, <1>5 DEF Cell
    <2> QED BY <1>2, <1>5, <2>1
<1>6. \A s \in sweeps : s.next \in Nat /\ s.last \in Nat
    BY DEF SliceInv, Types, SweepRecord
<1>7. ASSUME NEW w, Pending(w)
      PROVE  Pending(w)' \/ \E i \in Unread(t) : w = arrays[workers.array][i]
    <2>1. PICK s \in sweeps : \E i \in s.next..s.last : arrays[s.array][i] = w
        BY <1>7 DEF Pending
    <2>2. PICK i \in s.next..s.last : arrays[s.array][i] = w
        BY <2>1
    <2>3. i \in Nat
        BY <1>6
    <2>4. CASE s.array = workers.array /\ i \in Unread(t)
        BY <2>2, <2>4
    <2>5. CASE ~(s.array = workers.array /\ i \in Unread(t))
        <3>1. arrays'[s.array][i] = w /\ s \in sweeps'
            BY <1>1, <2>2, <2>3, <2>5
        <3> QED BY <3>1 DEF Pending
    <2> QED BY <2>4, <2>5
<1>8. ASSUME NEW w, Pending(w)'
      PROVE  Pending(w) \/ \E i \in Unread(t) : w = NewCell(i)
    <2>1. PICK s \in sweeps : \E i \in s.next..s.last : arrays'[s.array][i] = w
        BY <1>1, <1>8 DEF Pending
    <2>2. PICK i \in s.next..s.last : arrays'[s.array][i] = w
        BY <2>1
    <2>3. i \in Nat
        BY <1>6
    <2>4. CASE s.array = workers.array /\ i \in Unread(t)
        BY <1>1, <2>2, <2>3, <2>4
    <2>5. CASE ~(s.array = workers.array /\ i \in Unread(t))
        <3>1. arrays[s.array][i] = w
            BY <1>1, <2>2, <2>3, <2>5
        <3> QED BY <3>1 DEF Pending
    <2> QED BY <2>4, <2>5
<1>9. ASSUME NEW w, NEW i \in Unread(t), w = NewCell(i) PROVE Pending(w)'
    <2>1. PICK s \in sweeps : s.array = workers.array /\ i \in s.next..s.last
        BY <1>3
    <2>2. arrays'[s.array][i] = w /\ s \in sweeps'
        BY <1>1, <1>3, <1>9, <2>1
    <2> QED BY <2>1, <2>2 DEF Pending
<1>10. AliveInv'
    <2> SUFFICES ASSUME NEW w \in alive'
                 PROVE  w \in Contents(workers)' \/ Pending(w)' \/ w \in lost'
        BY DEF AliveInv
    <2>1. CASE w \in alive
        <3>1. w \in Contents(workers) \/ Pending(w) \/ w \in lost
            BY <1>a, <2>1 DEF AliveInv
        <3>2. CASE Pending(w)
            BY <1>1, <1>7, <3>2
        <3> QED BY <1>1, <3>1, <3>2
    <2>2. CASE w \notin alive
        BY <1>1, <2>2
    <2> QED BY <2>1, <2>2
<1>11. ASSUME ~ctxEnded PROVE Contents(workers)' \ doomed' \subseteq alive'
    <2> SUFFICES ASSUME NEW w \in Contents(workers)', w \notin doomed' PROVE w \in alive'
        OBVIOUS
    <2>1. CASE w \in Contents(workers)
        BY <1>a, <1>1, <1>11, <2>1 DEF KeptInv
    <2>2. CASE \E i \in 1..t : i > workers.len /\ w = NewCell(i)
        <3>1. PICK i \in 1..t : i > workers.len /\ w = NewCell(i)
            BY <2>2
        <3>2. i \in (workers.len + 1)..t
            BY <1>2, <3>1
        <3> QED BY <1>1, <3>1, <3>2
    <2> QED BY <1>1, <2>1, <2>2
<1>12. ASSUME NEW w \in Contents(workers)', Pending(w)' PROVE w \in doomed'
    <2>1. CASE \E i \in Unread(t) : w = NewCell(i)
        BY <1>1, <2>1
    <2>2. CASE Pending(w)
        <3>1. w \in Contents(workers)
            BY <1>a, <1>5, <2>2, PendingKnown
        <3> QED BY <1>a, <1>1, <2>2, <3>1 DEF KeptInv
    <2> QED BY <1>8, <1>12, <2>1, <2>2
<1>13. ASSUME NEW w \in Contents(workers)', w \in doomed', w \in alive' PROVE Pending(w)'
    <2>1. CASE \E i \in Unread(t) : w = NewCell(i)
        BY <1>9, <2>1
    <2>2. CASE w \in doomed
        <3>1. w \in Cell /\ w.id <= spawned
            BY <1>a, <2>2 DEF KnownInv
        <3>2. w \in Contents(workers)
            BY <1>5, <3>1
        <3>3. w \in alive
            <4> SUFFICES ASSUME NEW i \in (workers.len + 1)..t, w = NewCell(i) PROVE FALSE
                BY <1>1, <1>13
            <4>1. i \in 1..t /\ i > workers.len
                BY <1>2
            <4>2. NewCell(i).id > spawned /\ w.id \in Nat
                BY <1>1, <3>1, <4>1 DEF Cell
            <4> QED BY <1>2, <3>1, <4>2
        <3>4. Pending(w)
            BY <1>a, <2>2, <3>2, <3>3 DEF KeptInv
        <3> QED BY <1>4, <1>7, <3>2, <3>4
    <2> QED BY <1>1, <1>13, <2>1, <2>2
<1>14. ASSUME NEW w \in Contents(workers)' PROVE w \notin lost'
    <2> SUFFICES ASSUME w \in lost' PROVE FALSE
        OBVIOUS
    <2>1. CASE w \in lost
        <3>1. w \in Contents(workers)
            BY <1>a, <1>5, <2>1 DEF KnownInv
        <3> QED BY <1>a, <2>1, <3>1 DEF KeptInv
    <2>2. CASE w \notin lost
        <3>1. PICK i \in Unread(t) : w = arrays[workers.array][i]
            BY <1>1, <2>2
        <3>2. Pending(w)
            BY <1>3, <3>1 DEF Pending
        <3>3. w \in Contents(workers)
            BY <1>a, <1>5, <3>2, PendingKnown
        <3> QED BY <1>4, <3>1, <3>3
    <2> QED BY <2>1, <2>2
<1>15. arrays'[workers'.array][1] \notin doomed'
    <2>1. 1 \in 1..workers.len /\ 1 \in 1..t
        BY <1>2
    <2>2. arrays'[workers'.array][1] = arrays[workers.array][1]
        BY <1>1, <2>1, ScaleUpArrays
    <2>3. arrays[workers.array][1] \in Cell /\ arrays[workers.array][1].id <= spawned
        <3>1. workers.array \in 1..Len(arrays) /\ 1 \in 1..Len(arrays[workers.array])
            BY <1>2 DEF SliceInv, Types, WorkersInv, OfStart
        <3> QED BY <1>a, <3>1 DEF KnownInv, SliceInv, Types
    <2>4. ASSUME NEW i \in Unread(t), arrays[workers.array][1] = NewCell(i) PROVE FALSE
        <3>1. NewCell(i).id > spawned /\ arrays[workers.array][1].id \in Nat
            BY <1>1, <1>3, <2>3 DEF Cell
        <3> QED BY <1>2, <2>3, <2>4, <3>1
    <2> QED BY <1>a, <1>1, <2>2, <2>4 DEF KeptInv
<1>16. KnownInv'
    BY <1>a, ScaleUpKnown
<1>17. KeptInv'
    BY <1>11, <1>12, <1>13, <1>14, <1>15 DEF KeptInv
<1> QED BY <1>10, <1>16, <1>17 DEF LiveInv

LEMMA LiveStep ==
    ASSUME SliceInv, LiveInv, [Next]_vars
    PROVE  LiveInv'
<1>a. Types /\ SweepsInv /\ WorkersInv /\ KnownInv /\ AliveInv /\ KeptInv
    BY DEF SliceInv, LiveInv
<1>b. /\ starts \in Nat /\ spawned \in Nat /\ Len(arrays) \in Nat /\ workers.len \in Nat
      /\ MaxWorkers \in Nat /\ MaxWorkers >= 1 /\ workers \in [array : Nat, len : Nat]
      /\ \A s \in sweeps : s \in SweepRecord /\ s.next \in Nat /\ s.last \in Nat
    BY <1>a, PoolAssumption DEF Types, SweepRecord
<1>0. CASE UNCHANGED vars
    BY <1>0, <1>a DEF vars, history, LiveInv, KnownInv, AliveInv, KeptInv, Contents, Pending
<1>1. CASE Start
    <2> DEFINE n == Len(arrays) + 1
               new(i) == Worker(spawned + i, starts + 1, TRUE)
    <2>1. /\ Len(arrays') = n
          /\ \A b \in 1..Len(arrays) : arrays'[b] = arrays[b]
          /\ Len(arrays'[n]) = MaxWorkers
          /\ \A i \in 1..MaxWorkers : arrays'[n][i] = new(i)
          /\ alive' = alive \cup {new(i) : i \in 1..MaxWorkers}
        BY <1>1, <1>a, StartArrays
    <2>2. /\ workers' = [array |-> n, len |-> MaxWorkers] /\ UNCHANGED <<sweeps, lost, doomed>>
          /\ ~running /\ running' = TRUE /\ spawned' = spawned + MaxWorkers
        BY <1>1 DEF Start, history
    <2>3. \A i \in 1..MaxWorkers : new(i) \in Cell /\ new(i).id = spawned + i
        <3>1. starts + 1 \in Nat /\ \A i \in 1..MaxWorkers : spawned + i \in Nat
            BY <1>b
        <3> QED BY <3>1, WorkerTypes
    <2> HIDE DEF n, new
    <2>4. \A i \in 1..MaxWorkers : new(i).id > spawned /\ new(i).id <= spawned'
        BY <1>b, <2>2, <2>3
    <2>5. Contents(workers)' = {new(i) : i \in 1..MaxWorkers}
        BY <2>1, <2>2 DEF Contents
    <2>6. ASSUME NEW w PROVE Pending(w) <=> Pending(w)'
        <3>1. \A s \in sweeps : arrays'[s.array] = arrays[s.array]
            BY <1>a, <2>1 DEF SweepsInv, OfStart
        <3> QED BY <2>2, <3>1 DEF Pending
    <2>7. ASSUME NEW w \in Contents(workers)' PROVE ~(w \in Cell /\ w.id <= spawned)
        <3>1. PICK i \in 1..MaxWorkers : w = new(i)
            BY <2>5
        <3> QED BY <1>b, <2>3, <2>4, <3>1
    <2>8. AliveInv'
        BY <1>a, <2>1, <2>2, <2>5, <2>6 DEF AliveInv
    <2>9. KeptInv'
        <3>1. \A w \in Contents(workers)' : ~Pending(w)'
            BY <1>a, <2>6, <2>7, PendingKnown
        <3>2. \A w \in Contents(workers)' : w \notin lost' /\ w \notin doomed'
            BY <1>a, <2>2, <2>7 DEF KnownInv
        <3>3. Contents(workers)' \subseteq alive'
            BY <2>1, <2>5
        <3>4. arrays'[workers'.array][1] \in Contents(workers)'
            BY <1>b, <2>1, <2>2, <2>5
        <3> QED BY <3>1, <3>2, <3>3, <3>4 DEF KeptInv
    <2>10. KnownInv'
        <3>1. ASSUME NEW b \in 1..Len(arrays), NEW i \in 1..Len(arrays[b])
              PROVE  arrays[b][i].id <= spawned'
            <4>1. arrays[b][i] \in Cell
                BY <1>a DEF Types
            <4>2. arrays[b][i].id \in Nat /\ arrays[b][i].id <= spawned
                BY <1>a, <4>1 DEF Cell, KnownInv
            <4> QED BY <1>b, <2>2, <4>2
        <3>2. ASSUME NEW b \in 1..Len(arrays'), NEW i \in 1..Len(arrays'[b])
              PROVE  arrays'[b][i].id <= spawned'
            <4>1. CASE b = n
                BY <2>1, <2>4, <4>1
            <4>2. CASE b # n
                <5>1. b \in 1..Len(arrays)
                    BY <1>b, <2>1, <4>2 DEF n
                <5> QED BY <2>1, <3>1, <5>1
            <4> QED BY <4>1, <4>2
        <3>3. ASSUME NEW w \in lost \cup doomed PROVE w \in Cell /\ w.id <= spawned'
            <4>1. w \in Cell /\ w.id <= spawned /\ w.id \in Nat
                BY <1>a DEF KnownInv, Cell
            <4> QED BY <1>b, <2>2, <4>1
        <3> QED BY <2>2, <3>2, <3>3 DEF KnownInv
    <2> QED BY <2>8, <2>9, <2>10 DEF LiveInv
<1>2. CASE Stop
    <2>1. /\ running /\ running' = FALSE /\ alive' = alive \ Contents(workers)
          /\ sweeps' = sweeps \cup {Sweep(watched.array, 1, watched.len)}
          /\ UNCHANGED <<arrays, spawned, lost, doomed>>
        BY <1>2 DEF Stop, history
    <2>2. \A w : Pending(w) => Pending(w)'
        BY <2>1 DEF Pending
    <2>3. AliveInv'
        BY <1>a, <2>1, <2>2 DEF AliveInv
    <2> QED BY <1>a, <2>1, <2>3 DEF LiveInv, KeptInv, KnownInv
<1>3. ASSUME NEW target \in Targets \cup {0, MaxWorkers}, Scale(target) PROVE LiveInv'
    <2> DEFINE t == Clamp(target)
    <2>1. /\ running /\ UNCHANGED <<running, ctxEnded, starts>>
          /\ \/ t > workers.len /\ ScaleUp(t)
             \/ t < workers.len /\ ScaleDown(t)
             \/ t = workers.len /\ UNCHANGED <<arrays, workers, sweeps, alive, spawned, history>>
        BY <1>3 DEF Scale
    <2>2. /\ t \in Nat /\ t >= 1
          /\ \A c \in 0..(t - 1) : Growth(c, t) \in Nat /\ Growth(c, t) >= t
        BY ScaleTargets
    <2> HIDE DEF t
    <2>3. CASE t = workers.len /\ UNCHANGED <<arrays, workers, sweeps, alive, spawned, history>>
        BY <2>1, <2>3, <1>a DEF history, LiveInv, KnownInv, AliveInv, KeptInv, Contents, Pending
    <2>4. CASE t > workers.len /\ ScaleUp(t)
        BY <2>1, <2>2, <2>4, ScaleUpLive
    <2>5. CASE t < workers.len /\ ScaleDown(t)
        <3> DEFINE new == Sweep(workers.array, t + 1, workers.len)
        <3>1. /\ workers' = [workers EXCEPT !.len = t] /\ sweeps' = sweeps \cup {new}
              /\ UNCHANGED <<arrays, alive, spawned, lost, doomed>>
            BY <2>5 DEF ScaleDown, history
        <3>2. new.array = workers.array /\ new.next = t + 1 /\ new.last = workers.len
            BY DEF Sweep
        <3> HIDE DEF new
        <3>3. workers'.array = workers.array /\ workers'.len = t
            BY <1>b, <2>2, <3>1
        <3>4. Contents(workers)' \subseteq Contents(workers)
            BY <1>b, <2>2, <2>5, <3>1, <3>3 DEF Contents
        <3>5. \A w : Pending(w) => Pending(w)'
            BY <3>1 DEF Pending
        <3>6. ASSUME NEW w \in Contents(workers)', Pending(w)' PROVE Pending(w)
            <4>1. PICK j \in 1..t : w = arrays[workers.array][j]
                BY <3>1, <3>3 DEF Contents
            <4>2. PICK s \in sweeps' : \E i \in s.next..s.last : arrays[s.array][i] = w
                BY <3>1, <3>6 DEF Pending
            <4>3. CASE s = new
                <5>1. PICK i \in (t + 1)..workers.len : arrays[workers.array][i] = w
                    BY <3>2, <4>2, <4>3
                <5>2. j \in 1..workers.len /\ i \in 1..workers.len /\ i > t
                    BY <1>b, <2>2, <2>5
                <5>3. i \in 1..Len(arrays[workers.array])
                    BY <1>a, <1>b, <2>1, <5>2 DEF WorkersInv, OfStart, Types
                <5>4. j = i
                    BY <2>1, <4>1, <5>1, <5>2, <5>3, OneCell
                <5> QED BY <2>2, <4>1, <5>2, <5>4
            <4>4. CASE s \in sweeps
                BY <4>2, <4>4 DEF Pending
            <4> QED BY <3>1, <4>3, <4>4
        <3>7. AliveInv'
            <4> SUFFICES ASSUME NEW w \in alive, w \in Contents(workers)
                         PROVE  w \in Contents(workers)' \/ Pending(w)'
                BY <1>a, <2>1, <3>1, <3>5 DEF AliveInv
            <4>1. PICK i \in 1..workers.len : w = arrays[workers.array][i]
                BY DEF Contents
            <4>2. CASE i <= t
                BY <2>2, <3>1, <3>3, <4>1, <4>2 DEF Contents
            <4>3. CASE ~(i <= t)
                <5>1. i \in new.next..new.last
                    BY <1>b, <2>2, <3>2, <4>3
                <5> QED BY <3>1, <3>2, <4>1, <5>1 DEF Pending
            <4> QED BY <4>2, <4>3
        <3>8. KeptInv'
            BY <1>a, <2>1, <3>1, <3>3, <3>4, <3>5, <3>6 DEF KeptInv
        <3> QED BY <1>a, <3>1, <3>7, <3>8 DEF LiveInv, KnownInv
    <2> QED BY <2>1, <2>3, <2>4, <2>5
<1>4. ASSUME NEW s \in sweeps, SweepStep(s) PROVE LiveInv'
    <2> DEFINE new == [s EXCEPT !.next = @ + 1]
    <2>1. /\ s.next <= s.last /\ alive' = alive \ {arrays[s.array][s.next]}
          /\ sweeps' = (sweeps \ {s}) \cup {new}
          /\ UNCHANGED <<running, arrays, workers, ctxEnded, spawned, lost, doomed>>
        BY <1>4 DEF SweepStep, history
    <2>2. new.array = s.array /\ new.last = s.last /\ new.next = s.next + 1
        BY <1>b DEF SweepRecord
    <2> HIDE DEF new
    <2>3. Contents(workers)' = Contents(workers)
        BY <2>1 DEF Contents
    <2>4. ASSUME NEW w \in alive', Pending(w) PROVE Pending(w)'
        <3>1. PICK r \in sweeps : \E i \in r.next..r.last : arrays[r.array][i] = w
            BY <2>4 DEF Pending
        <3>2. PICK i \in r.next..r.last : arrays[r.array][i] = w
            BY <3>1
        <3>3. CASE r # s
            BY <2>1, <3>2, <3>3 DEF Pending
        <3>4. CASE r = s
            <4>1. i \in new.next..new.last /\ new \in sweeps'
                BY <1>b, <2>1, <2>2, <3>2, <3>4
            <4> QED BY <2>1, <2>2, <3>2, <3>4, <4>1 DEF Pending
        <3> QED BY <3>3, <3>4
    <2>5. ASSUME NEW w, Pending(w)' PROVE Pending(w)
        <3>1. PICK r \in sweeps' : \E i \in r.next..r.last : arrays[r.array][i] = w
            BY <2>1, <2>5 DEF Pending
        <3>2. CASE r \in sweeps
            BY <3>1, <3>2 DEF Pending
        <3>3. CASE r = new
            <4>1. PICK i \in (s.next + 1)..s.last : arrays[s.array][i] = w
                BY <2>2, <3>1, <3>3
            <4>2. i \in s.next..s.last
                BY <1>b
            <4> QED BY <4>1, <4>2 DEF Pending
        <3> QED BY <2>1, <3>2, <3>3
    <2>6. Pending(arrays[s.array][s.next])
        BY <1>b, <2>1 DEF Pending
    <2>7. AliveInv'
        BY <1>a, <2>1, <2>3, <2>4 DEF AliveInv
    <2>8. KeptInv'
        <3> SUFFICES ASSUME running PROVE KeptInv'
            BY <2>1 DEF KeptInv
        <3>1. ~ctxEnded => Contents(workers) \ doomed \subseteq alive'
            BY <1>a, <2>1, <2>6 DEF KeptInv
        <3> QED BY <1>a, <2>1, <2>3, <2>4, <2>5, <3>1 DEF KeptInv
    <2> QED BY <1>a, <2>1, <2>7, <2>8 DEF LiveInv, KnownInv
<1>5. ASSUME NEW s \in sweeps, SweepEnds(s) PROVE LiveInv'
    <2>1. s.next..s.last = {}
        BY <1>5, <1>b DEF SweepEnds
    <2>2. /\ sweeps' = sweeps \ {s}
          /\ UNCHANGED <<running, arrays, workers, alive, ctxEnded, spawned, lost, doomed>>
        BY <1>5 DEF SweepEnds, history
    <2>3. \A w : Pending(w) <=> Pending(w)'
        BY <2>1, <2>2 DEF Pending
    <2> QED BY <1>a, <2>2, <2>3 DEF LiveInv, KnownInv, AliveInv, KeptInv, Contents
<1>6. CASE CtxEnds
    BY <1>6, <1>a DEF CtxEnds, history, LiveInv, KnownInv, AliveInv, KeptInv, Contents, Pending
<1> QED BY <1>0, <1>1, <1>2, <1>3, <1>4, <1>5, <1>6, NextActions

LEMMA LiveInvariant == Spec => []LiveInv
<1>1. Init => LiveInv
    BY DEF Init, LiveInv, KnownInv, AliveInv, KeptInv
<1>2. SliceInv /\ LiveInv /\ [Next]_vars => LiveInv'
    BY LiveStep
<1> QED BY <1>1, <1>2, SliceInvariant, PTL DEF Spec

(* When no goroutine is at work, a worker that is alive outside p.workers   *)
(* is one that a Scale wrote over before it was read, and the workers of    *)
(* p.workers that are not alive are those a Scale wrote there: however      *)
(* Scales overlap, and for every size of the pool.                          *)
THEOREM WorkersTracked == Spec => []Tracked
<1>1. LiveInv => Tracked
    <2> SUFFICES ASSUME LiveInv, Settled
                 PROVE  alive \ Kept \subseteq lost /\ Kept \ alive = Kept \cap doomed
        BY DEF Tracked
    <2>1. \A w : ~Pending(w)
        BY DEF Settled, Pending
    <2>2. CASE running
        BY <2>1, <2>2 DEF LiveInv, AliveInv, KeptInv, Settled, Kept
    <2>3. CASE ~running
        BY <2>1, <2>3 DEF LiveInv, AliveInv, Kept
    <2> QED BY <2>2, <2>3
<1> QED BY <1>1, LiveInvariant, PTL

(* However Scales overlap with the goroutines of earlier ones, the first    *)
(* worker of a running pool is alive, so that its queue is served.          *)
THEOREM QueueKept == Spec => []KeepsOne
<1>1. SliceInv /\ LiveInv => KeepsOne
    <2> SUFFICES ASSUME SliceInv, LiveInv, running, ~ctxEnded
                 PROVE  arrays[workers.array][1] \in alive
        BY DEF KeepsOne
    <2>1. 1 \in 1..workers.len
        BY DEF SliceInv, Types, WorkersInv
    <2>2. arrays[workers.array][1] \in Contents(workers)
        BY <2>1 DEF Contents
    <2> QED BY <2>2 DEF LiveInv, KeptInv
<1> QED BY <1>1, SliceInvariant, LiveInvariant, PTL

(* A settled pool has the workers that the last Scale asked for, less those *)
(* that were doomed; workers that were lost come on top.                    *)
THEOREM TargetHonoured == Spec => []HonoursTarget
<1>1. SliceInv /\ LiveInv => HonoursTarget
    <2> SUFFICES ASSUME SliceInv, LiveInv, Settled, running
                 PROVE  Cardinality(alive \ lost) + Cardinality(Contents(workers) \cap doomed)
                            = Max({asked, 1})
        BY DEF HonoursTarget
    <2> DEFINE n == workers.len
               C == Contents(workers)
               f == [i \in 1..n |-> arrays[workers.array][i]]
    <2>1. alive \ lost = C \ (C \cap doomed)
        <3>1. \A w : ~Pending(w)
            BY DEF Settled, Pending
        <3> QED BY <3>1 DEF LiveInv, AliveInv, KeptInv, Settled
    <2>2. n \in Nat /\ n = Clamp(asked) /\ asked \in Nat
        BY DEF SliceInv, Types, WorkersInv
    <2>3. \A i \in 1..n : i \in 1..Len(arrays[workers.array])
        BY <2>2 DEF OfStart, SliceInv, Types, WorkersInv
    <2>4. \A i, j \in 1..n : f[i] = f[j] => i = j
        BY <2>3, OneCell
    <2>5. f \in [1..n -> C] /\ \A w \in C : \E i \in 1..n : f[i] = w
        BY DEF Contents
    <2>6. ExistsBijection(1..n, C)
        <3>1. f \in Bijection(1..n, C)
            <4> HIDE DEF f, C
            <4>1. DOMAIN f = 1..n
                BY <2>5
            <4>2. IsInjective(f)
                BY <2>4, <4>1 DEF IsInjective
            <4> QED BY <2>5, <4>2 DEF Bijection, Injection, Surjection
        <3> QED BY <3>1 DEF ExistsBijection
    <2> HIDE DEF C
    <2>7. IsFiniteSet(C) /\ Cardinality(C) = n
        BY <2>2, <2>6, FS_CountingElements, FS_NatBijection
    <2>8. IsFiniteSet(C \cap doomed) /\ IsFiniteSet(C \ (C \cap doomed))
        BY <2>7, FS_Subset
    <2>9. Cardinality(C \ (C \cap doomed)) = Cardinality(C) - Cardinality(C \cap (C \cap doomed))
        BY <2>7, <2>8, FS_Difference
    <2>10. C \cap (C \cap doomed) = C \cap doomed
        OBVIOUS
    <2>11. Cardinality(C \cap doomed) \in Nat
        BY <2>8, FS_CardinalityType
    <2>12. Max({asked, 1}) = Clamp(asked)
        <3>1. /\ Clamp(asked) \in {asked, 1} /\ \A y \in {asked, 1} : Clamp(asked) >= y
              /\ \A x \in {asked, 1} : (\A y \in {asked, 1} : x >= y) => x = Clamp(asked)
            BY <2>2 DEF Clamp
        <3> QED BY <3>1 DEF Max
    <2>13. Cardinality(alive \ lost) = n - Cardinality(C \cap doomed)
        BY <2>1, <2>7, <2>9, <2>10
    <2>14. Cardinality(alive \ lost) + Cardinality(C \cap doomed) = Max({asked, 1})
        BY <2>2, <2>11, <2>12, <2>13
    <2> QED BY <2>14 DEF C
<1> QED BY <1>1, SliceInvariant, LiveInvariant, PTL
=============================================================================
