--------------------------- MODULE RetriesProofs ---------------------------
(***************************************************************************)
(* ComputeNextState and the claim query agree on the attempts of a job,    *)
(* for every max_attempts, backoff and RetryUntil; the delays are those    *)
(* the strategies stand for as long as these fit the integers.             *)
(*                                                                         *)
(* What a recursive function computes is proved by induction.  The         *)
(* library's induction theorems are about operators; here the same is said *)
(* of sets (Induction, Recursion), from the well-foundedness of < on Nat.  *)
(***************************************************************************)
EXTENDS Retries, WellFoundedInduction, TLAPS

(* Only what the attempts depend on is given a type; the delays are not.    *)
JobType ==
    /\ job.attempt \in Nat
    /\ job.max_attempts \in Int
    /\ job = [state |-> job.state, attempt |-> job.attempt, scheduled_at |-> job.scheduled_at,
              max_attempts |-> job.max_attempts, cfg |-> job.cfg, until |-> job.until]
    /\ worker = [pc |-> worker.pc, result |-> worker.result, backoff |-> worker.backoff,
                 decided |-> worker.decided]

(* What a worker is about to settle is what the row will have to bear, and  *)
(* a job that runs was allowed to.                                          *)
AttemptInv ==
    /\ JobType
    /\ worker.pc # "idle" => job.attempt >= 1 /\ job.attempt <= job.max_attempts
    /\ worker.pc = "hook" => worker.result = "retryable"
    /\ worker.pc \in {"hook", "settle"} /\ worker.result = "retryable" => job.attempt < job.max_attempts
    /\ worker.pc = "settle" /\ worker.result = "failed" /\ job.until = Never /\ ~vetoed
          => job.attempt = job.max_attempts
    /\ job.state \in {"retryable", "failed"} => worker.pc = "idle"
    /\ AttemptsAgree

(* Every step keeps the attempts of row and worker in agreement.            *)
LEMMA AttemptStep == AttemptInv /\ [Next]_vars => AttemptInv'
<1> SUFFICES ASSUME AttemptInv, [Next]_vars PROVE AttemptInv'
  OBVIOUS
<1> USE DEF AttemptInv, JobType, AttemptsAgree
<1>1. CASE Claim
  <2>1. worker' = [pc |-> "exec", result |-> "none", backoff |-> 0, decided |-> 0]
    BY <1>1 DEF Claim, Idle
  <2>2. job' = [state |-> "running", attempt |-> job.attempt + 1, scheduled_at |-> job.scheduled_at,
                max_attempts |-> job.max_attempts, cfg |-> job.cfg, until |-> job.until]
    BY <1>1 DEF Claim
  <2>3. job.attempt < job.max_attempts
    BY <1>1 DEF Claim
  <2> QED
    BY <2>1, <2>2, <2>3
<1>2. CASE Undecodable
  BY <1>2 DEF Undecodable
<1>3. CASE HandlerSucceeds
  BY <1>3 DEF HandlerSucceeds
<1>4. CASE HandlerFails
  <2> DEFINE backoff == computeBackoffWithConfig(job.cfg, job.attempt + 1)
  <2> HIDE DEF backoff
  <2>1. worker.pc = "exec" /\ job' = job /\ vetoed' = vetoed
    BY <1>4 DEF HandlerFails
  <2>2. job.max_attempts >= 1 /\ job.attempt <= job.max_attempts
    BY <2>1
  <2>3. MayRetry <=> job.attempt < job.max_attempts
    BY <2>2 DEF MayRetry, ComputeNextState, EffectiveMax, DefaultMax
  <2>4. \/ /\ job.attempt < job.max_attempts
           /\ worker' = [pc |-> "hook", result |-> "retryable", backoff |-> backoff, decided |-> now]
        \/ /\ ~(MayRetry /\ ~TooLate(backoff))
           /\ worker' = [pc |-> "settle", result |-> "failed", backoff |-> 0, decided |-> now]
    BY <1>4, <2>3 DEF HandlerFails, backoff
  <2>5. job.until = Never => ~TooLate(backoff)
    BY DEF TooLate
  <2> QED
    BY <2>1, <2>2, <2>3, <2>4, <2>5
<1>5. CASE BeforeRetry
  BY <1>5 DEF BeforeRetry
<1>6. CASE Settle
  BY <1>6 DEF Settle
<1>7. CASE RequeueStale
  BY <1>7 DEF RequeueStale, Idle
<1>8. CASE Tick
  BY <1>8 DEF Tick
<1>9. CASE UNCHANGED vars
  BY <1>9 DEF vars
<1> QED
  BY <1>1, <1>2, <1>3, <1>4, <1>5, <1>6, <1>7, <1>8, <1>9 DEF Next

(* A job that ComputeNextState leaves to be retried can still be claimed,   *)
(* and one it fails has made all its attempts.                              *)
THEOREM Attempts == Spec => []AttemptsAgree
<1>1. Init => AttemptInv
  BY RetriesAssumption DEF Init, AttemptInv, JobType, AttemptsAgree, Idle
<1>2. AttemptInv => AttemptsAgree
  BY DEF AttemptInv
<1> QED
  BY <1>1, <1>2, AttemptStep, PTL DEF Spec

-----------------------------------------------------------------------------
(* A set that has 0 and with every number its successor has all of them.    *)
LEMMA Induction ==
    ASSUME NEW S, 0 \in S, \A n \in Nat : n \in S => n + 1 \in S
    PROVE  \A n \in Nat : n \in S
<1> DEFINE T == Nat \ S
<1> SUFFICES ASSUME T # {} PROVE FALSE
  OBVIOUS
<1>1. IsWellFoundedOn(OpToRel(<, Nat), Nat)
  BY NatLessThanWellFounded
<1>2. T \subseteq Nat
  OBVIOUS
<1> HIDE DEF T
<1>3. PICK x \in T : \A y \in T : ~(<<y, x>> \in OpToRel(<, Nat))
  BY <1>1, <1>2, WFMin, Zenon
<1>4. \A y \in T : ~(y < x)
  BY <1>2, <1>3 DEF OpToRel
<1> QED BY <1>2, <1>4 DEF T

(* The beginnings of length n + 1 of what a recursion over R computes.       *)
Approx(R, a, step, n) ==
    {f \in [0..n -> R] : f[0] = a /\ \A i \in 0..(n - 1) : f[i + 1] = step[f[i]]}

(* A recursion has a solution: the beginnings exist and agree.              *)
LEMMA Recursion ==
    ASSUME NEW R, NEW a \in R, NEW step \in [R -> R]
    PROVE  \E f \in [Nat -> R] : f[0] = a /\ \A n \in Nat : f[n + 1] = step[f[n]]
<1> DEFINE A(n) == Approx(R, a, step, n)
<1>1. \A n \in Nat : A(n) # {}
  <2> DEFINE S == {n \in Nat : A(n) # {}}
  <2>1. 0 \in S
    <3> DEFINE f == [i \in 0..0 |-> a]
    <3>1. f \in A(0)
      BY DEF Approx
    <3> QED BY <3>1
  <2>2. ASSUME NEW n \in Nat, n \in S PROVE n + 1 \in S
    <3>1. PICK f : f \in A(n)
      BY <2>2
    <3> DEFINE g == [i \in 0..(n + 1) |-> IF i <= n THEN f[i] ELSE step[f[n]]]
    <3>2. f \in [0..n -> R] /\ f[0] = a /\ \A i \in 0..(n - 1) : f[i + 1] = step[f[i]]
      BY <3>1 DEF Approx
    <3>3. g \in [0..(n + 1) -> R]
      BY <3>2
    <3>4. g[0] = a
      BY <3>2
    <3>5. \A i \in 0..n : g[i + 1] = step[g[i]]
      BY <3>2
    <3>6. g \in A(n + 1)
      BY <3>3, <3>4, <3>5 DEF Approx
    <3> QED BY <3>6
  <2> HIDE DEF S
  <2>3. \A n \in Nat : n \in S
    BY <2>1, <2>2, Induction
  <2> QED BY <2>3 DEF S
<1>2. ASSUME NEW m \in Nat, NEW f \in A(m), NEW n \in Nat, NEW g \in A(n)
      PROVE  \A i \in Nat : i <= m /\ i <= n => f[i] = g[i]
  <2> DEFINE S == {i \in Nat : i <= m /\ i <= n => f[i] = g[i]}
  <2>1. 0 \in S
    BY <1>2 DEF Approx
  <2>2. ASSUME NEW i \in Nat, i \in S PROVE i + 1 \in S
    BY <1>2, <2>2 DEF Approx
  <2> HIDE DEF S
  <2>3. \A i \in Nat : i \in S
    BY <2>1, <2>2, Induction
  <2> QED BY <2>3 DEF S
<1> DEFINE c == [n \in Nat |-> CHOOSE f : f \in A(n)]
           F == [n \in Nat |-> c[n][n]]
<1>3. \A n \in Nat : c[n] \in A(n)
  BY <1>1
<1> HIDE DEF c
<1>4. \A n \in Nat : /\ c[n] \in [0..n -> R] /\ c[n][0] = a
                     /\ \A i \in 0..(n - 1) : c[n][i + 1] = step[c[n][i]]
  BY <1>3 DEF Approx
<1>5. F \in [Nat -> R] /\ F[0] = a
  BY <1>4
<1>6. ASSUME NEW n \in Nat PROVE F[n + 1] = step[F[n]]
  <2>1. c[n + 1][n + 1] = step[c[n + 1][n]]
    BY <1>4
  <2>2. c[n + 1][n] = c[n][n]
    BY <1>2, <1>3
  <2> QED BY <2>1, <2>2
<1> QED BY <1>5, <1>6

-----------------------------------------------------------------------------
LEMMA ModSmall == ASSUME NEW d \in Nat, NEW y \in Nat, y < d PROVE y % d = y
OBVIOUS

(* What the integers hold. *)
Wide == -(MaxInt + 1)..MaxInt

(* Wrap brings every number into their range, and leaves alone those in it. *)
LEMMA WrapType == ASSUME NEW x \in Int PROVE Wrap(x) \in Wide
<1> DEFINE d == 2 * (MaxInt + 1)
           y == x + MaxInt + 1
<1>1. d \in Nat \ {0} /\ y \in Int
  BY RetriesAssumption
<1> HIDE DEF d, y
<1>2. y % d \in 0..(d - 1)
  BY <1>1
<1> QED BY <1>2, RetriesAssumption DEF Wrap, Wide, d, y

LEMMA WrapSame == ASSUME NEW x \in Wide PROVE Wrap(x) = x
<1> DEFINE d == 2 * (MaxInt + 1)
           y == x + MaxInt + 1
<1>1. d \in Nat /\ y \in Nat /\ y < d
  BY RetriesAssumption DEF Wide
<1> HIDE DEF d, y
<1>2. y % d = y
  BY <1>1, ModSmall
<1> QED BY <1>2, RetriesAssumption DEF Wrap, d, y, Wide

LEMMA Powers ==
    /\ Pow2 \in [Nat -> Nat]
    /\ \A k \in Nat : Pow2[k] >= 1
<1> DEFINE Positive == Nat \ {0}
           first == 1
           double == [x \in Positive |-> 2 * x]
<1>1. PICK f \in [Nat -> Positive] : f[0] = first /\ \A n \in Nat : f[n + 1] = double[f[n]]
  <2>1. double \in [Positive -> Positive] /\ first \in Positive
    OBVIOUS
  <2> HIDE DEF double, first, Positive
  <2> QED BY <2>1, Recursion
<1>2. f = [k \in Nat |-> IF k = 0 THEN 1 ELSE 2 * f[k - 1]]
  <2>1. ASSUME NEW k \in Nat PROVE f[k] = IF k = 0 THEN 1 ELSE 2 * f[k - 1]
    <3>1. CASE k = 0
      BY <1>1, <3>1
    <3>2. CASE k # 0
      <4>1. k - 1 \in Nat /\ (k - 1) + 1 = k
        BY <3>2
      <4> QED BY <1>1, <3>2, <4>1
    <3> QED BY <3>1, <3>2
  <2> QED BY <2>1
<1>3. Pow2 = [k \in Nat |-> IF k = 0 THEN 1 ELSE 2 * Pow2[k - 1]]
  BY <1>2, Zenon DEF Pow2
<1> DEFINE S == {k \in Nat : Pow2[k] \in Nat /\ Pow2[k] >= 1}
<1>4. 0 \in S
  BY <1>3
<1>5. ASSUME NEW k \in Nat, k \in S PROVE k + 1 \in S
  <2>1. Pow2[k + 1] = 2 * Pow2[k]
    BY <1>3
  <2> QED BY <1>5, <2>1
<1> HIDE DEF S
<1>6. \A k \in Nat : k \in S
  BY <1>4, <1>5, Induction
<1>7. \A k \in Nat : Pow2[k] \in Nat /\ Pow2[k] >= 1
  BY <1>6 DEF S
<1> QED BY <1>3, <1>7

(* The fibonacci numbers, and the loop that computes them with integers     *)
(* that wrap.                                                               *)
LEMMA FibonacciNumbers ==
    /\ IdealFib \in [Nat -> Nat]
    /\ IdealFib[0] = 0 /\ IdealFib[1] = 1
    /\ \A n \in Nat : n >= 1 => IdealFib[n + 1] = IdealFib[n] + IdealFib[n - 1]
<1> DEFINE Pair == [x : Nat, y : Nat]
           first == [x |-> 0, y |-> 1]
           step == [p \in Pair |-> [x |-> p.y, y |-> p.x + p.y]]
<1>1. PICK g \in [Nat -> Pair] : g[0] = first /\ \A n \in Nat : g[n + 1] = step[g[n]]
  <2>1. step \in [Pair -> Pair] /\ first \in Pair
    OBVIOUS
  <2> HIDE DEF step, Pair, first
  <2> QED BY <2>1, Recursion
<1>2. \A n \in Nat : g[n].x \in Nat /\ g[n].y \in Nat /\ g[n + 1].x = g[n].y /\ g[n + 1].y = g[n].x + g[n].y
  <2>1. ASSUME NEW n \in Nat
        PROVE  /\ g[n].x \in Nat /\ g[n].y \in Nat
               /\ g[n + 1].x = g[n].y /\ g[n + 1].y = g[n].x + g[n].y
    <3>1. g[n] \in Pair /\ g[n + 1] = step[g[n]]
      BY <1>1
    <3> QED BY <3>1
  <2> HIDE DEF Pair
  <2> QED BY <2>1
<1>3. g[0].x = 0 /\ g[0].y = 1
  BY <1>1
<1> DEFINE f == [n \in Nat |-> g[n].x]
<1>4. f = [i \in Nat |-> IF i <= 1 THEN i ELSE f[i - 1] + f[i - 2]]
  <2>1. ASSUME NEW i \in Nat PROVE f[i] = IF i <= 1 THEN i ELSE f[i - 1] + f[i - 2]
    <3>1. CASE i = 0
      BY <1>3, <3>1
    <3>2. CASE i = 1
      <4>1. g[0 + 1].x = 1
        BY <1>2, <1>3
      <4> QED BY <3>2, <4>1
    <3>3. CASE i > 1
      <4>1. i - 1 \in Nat /\ i - 2 \in Nat /\ (i - 2) + 1 = i - 1 /\ (i - 1) + 1 = i
        BY <3>3
      <4>2. g[i].x = g[i - 1].y /\ g[i - 1].y = g[i - 2].x + g[i - 2].y /\ g[i - 1].x = g[i - 2].y
        BY <1>2, <4>1
      <4>3. g[i - 1].x \in Nat /\ g[i - 2].x \in Nat
        BY <1>2, <4>1
      <4> QED BY <3>3, <4>1, <4>2, <4>3
    <3> QED BY <3>1, <3>2, <3>3
  <2> QED BY <2>1
<1>5. IdealFib = [i \in Nat |-> IF i <= 1 THEN i ELSE IdealFib[i - 1] + IdealFib[i - 2]]
  <2> HIDE DEF f
  <2> QED BY <1>4, Zenon DEF IdealFib
<1>6. ASSUME NEW n \in Nat, n >= 1 PROVE IdealFib[n + 1] = IdealFib[n] + IdealFib[n - 1]
  <2>1. n + 1 \in Nat /\ ~(n + 1 <= 1) /\ (n + 1) - 1 = n /\ (n + 1) - 2 = n - 1
    BY <1>6
  <2> QED BY <1>5, <2>1
<1>7. IdealFib[0] = 0 /\ IdealFib[1] = 1
  BY <1>5
<1> DEFINE S == {n \in Nat : IdealFib[n] \in Nat /\ IdealFib[n + 1] \in Nat}
<1>8. 0 \in S
  BY <1>7
<1>9. ASSUME NEW n \in Nat, n \in S PROVE n + 1 \in S
  BY <1>6, <1>9
<1> HIDE DEF S
<1>10. \A n \in Nat : n \in S
  BY <1>8, <1>9, Induction
<1>11. \A n \in Nat : IdealFib[n] \in Nat
  BY <1>10 DEF S
<1> QED BY <1>5, <1>6, <1>7, <1>11

LEMMA FibonacciLoop ==
    /\ Fib \in [Nat -> [a : Int, b : Int]]
    /\ Fib[1] = [a |-> 0, b |-> 1]
    /\ \A n \in Nat : n >= 1 => Fib[n + 1] = [a |-> Fib[n].b, b |-> Wrap(Fib[n].a + Fib[n].b)]
<1> DEFINE Pair == [a : Int, b : Int]
           first == [a |-> 0, b |-> 1]
           step == [p \in Pair |-> [a |-> p.b, b |-> Wrap(p.a + p.b)]]
<1>1. PICK g \in [Nat -> Pair] : g[0] = first /\ \A n \in Nat : g[n + 1] = step[g[n]]
  <2>1. \A x \in Int : Wrap(x) \in Int
    BY WrapType, RetriesAssumption DEF Wide
  <2>2. step \in [Pair -> Pair] /\ first \in Pair
    BY <2>1
  <2> HIDE DEF step, Pair, first
  <2> QED BY <2>2, Recursion
<1>2. \A n \in Nat : g[n] \in Pair /\ g[n + 1] = [a |-> g[n].b, b |-> Wrap(g[n].a + g[n].b)]
  BY <1>1
<1> DEFINE f == [i \in Nat |-> IF i <= 1 THEN first ELSE g[i - 1]]
<1>3. f = [i \in Nat |-> IF i <= 1 THEN first
                         ELSE [a |-> f[i - 1].b, b |-> Wrap(f[i - 1].a + f[i - 1].b)]]
  <2>1. ASSUME NEW i \in Nat, i > 1
        PROVE  f[i] = [a |-> f[i - 1].b, b |-> Wrap(f[i - 1].a + f[i - 1].b)]
    <3>1. i - 1 \in Nat /\ i - 2 \in Nat /\ (i - 2) + 1 = i - 1 /\ (i - 1) - 1 = i - 2
      BY <2>1
    <3>2. f[i] = g[i - 1] /\ f[i - 1] = g[i - 2]
      BY <1>1, <2>1, <3>1
    <3>3. g[i - 1] = [a |-> g[i - 2].b, b |-> Wrap(g[i - 2].a + g[i - 2].b)]
      BY <1>2, <3>1
    <3> QED BY <3>2, <3>3
  <2> DEFINE h == [i \in Nat |-> IF i <= 1 THEN first
                              ELSE [a |-> f[i - 1].b, b |-> Wrap(f[i - 1].a + f[i - 1].b)]]
  <2>2. ASSUME NEW i \in Nat PROVE f[i] = h[i]
    <3>1. CASE i <= 1
      BY <3>1
    <3>2. CASE i > 1
      <4> HIDE DEF f, first
      <4> QED BY <2>1, <3>2
    <3> QED BY <3>1, <3>2
  <2>3. DOMAIN f = Nat /\ DOMAIN h = Nat /\ f = [i \in Nat |-> f[i]] /\ h = [i \in Nat |-> h[i]]
    OBVIOUS
  <2>4. f = h
    <3> HIDE DEF f, h
    <3> QED BY <2>2, <2>3
  <2> QED BY <2>4
<1>4. Fib = [i \in Nat |-> IF i <= 1 THEN first
                           ELSE [a |-> Fib[i - 1].b, b |-> Wrap(Fib[i - 1].a + Fib[i - 1].b)]]
  <2> HIDE DEF f
  <2> QED BY <1>3, Zenon DEF Fib
<1>5. Fib[0] = first /\ Fib[1] = first
  BY <1>4
<1>6. ASSUME NEW n \in Nat, n >= 1
      PROVE  Fib[n + 1] = [a |-> Fib[n].b, b |-> Wrap(Fib[n].a + Fib[n].b)]
  <2>1. n + 1 \in Nat /\ ~(n + 1 <= 1) /\ (n + 1) - 1 = n
    BY <1>6
  <2> QED BY <1>4, <2>1
<1> DEFINE S == {n \in Nat : Fib[n] \in Pair}
<1>7. 0 \in S
  BY <1>5
<1>8. ASSUME NEW n \in Nat, n \in S PROVE n + 1 \in S
  <2>1. CASE n = 0
    BY <1>5, <2>1
  <2>2. CASE n >= 1
    <3>1. Fib[n].a \in Int /\ Fib[n].b \in Int
      BY <1>8
    <3>2. Wrap(Fib[n].a + Fib[n].b) \in Int
      BY <3>1, WrapType, RetriesAssumption DEF Wide
    <3>3. Fib[n + 1] = [a |-> Fib[n].b, b |-> Wrap(Fib[n].a + Fib[n].b)]
      BY <1>6, <2>2
    <3>4. Fib[n + 1] \in Pair
      BY <3>1, <3>2, <3>3
    <3> QED BY <3>4
  <2> QED BY <2>1, <2>2
<1> HIDE DEF S
<1>9. \A n \in Nat : n \in S
  BY <1>7, <1>8, Induction
<1>10. \A n \in Nat : Fib[n] \in Pair
  BY <1>9 DEF S
<1>11. Fib \in [Nat -> Pair]
  <2> HIDE DEF Pair, first
  <2> QED BY <1>4, <1>10
<1> QED BY <1>5, <1>6, <1>11

(* The loop computes the fibonacci number when the integers hold it.        *)
LEMMA FibonacciFits ==
    ASSUME NEW n \in Nat, n >= 1, IdealFib[n] <= MaxInt
    PROVE  Fib[n].b = IdealFib[n]
<1> DEFINE S == {i \in Nat : IdealFib[i + 1] <= MaxInt =>
                               Fib[i + 1].a = IdealFib[i] /\ Fib[i + 1].b = IdealFib[i + 1]}
<1>1. 0 \in S
  <2>1. Fib[0 + 1] = [a |-> 0, b |-> 1] /\ IdealFib[0] = 0 /\ IdealFib[0 + 1] = 1
    BY FibonacciNumbers, FibonacciLoop
  <2> QED BY <2>1
<1>2. ASSUME NEW i \in Nat, i \in S PROVE i + 1 \in S
  <2> SUFFICES ASSUME IdealFib[(i + 1) + 1] <= MaxInt
               PROVE  /\ Fib[(i + 1) + 1].a = IdealFib[i + 1]
                      /\ Fib[(i + 1) + 1].b = IdealFib[(i + 1) + 1]
    OBVIOUS
  <2> DEFINE x == IdealFib[i]
             y == IdealFib[i + 1]
  <2>1. i + 1 \in Nat /\ i + 1 >= 1 /\ (i + 1) - 1 = i
    OBVIOUS
  <2>2. x \in Nat /\ y \in Nat /\ IdealFib[(i + 1) + 1] = y + x
    BY <2>1, FibonacciNumbers
  <2>3. Fib[(i + 1) + 1] = [a |-> Fib[i + 1].b, b |-> Wrap(Fib[i + 1].a + Fib[i + 1].b)]
    BY <2>1, FibonacciLoop
  <2>4. Fib[i + 1].a = x /\ Fib[i + 1].b = y
    BY <1>2, <2>2, RetriesAssumption
  <2>5. Wrap(x + y) = x + y
    BY <2>2, WrapSame, RetriesAssumption DEF Wide
  <2> HIDE DEF x, y
  <2> QED BY <2>2, <2>3, <2>4, <2>5 DEF x, y
<1> HIDE DEF S
<1>3. \A i \in Nat : i \in S
  BY <1>1, <1>2, Induction
<1>4. n - 1 \in Nat /\ (n - 1) + 1 = n
  OBVIOUS
<1>5. n - 1 \in S
  BY <1>3, <1>4
<1> QED BY <1>4, <1>5 DEF S

-----------------------------------------------------------------------------
Configs == BackoffConfig \cup {DefaultBackoff}

LEMMA ConfigTypes ==
    ASSUME NEW cfg \in Configs
    PROVE  cfg.base \in 0..MaxInt /\ cfg.max_delay \in 0..MaxInt
<1>1. Bases \subseteq 0..MaxInt /\ MaxDelays \subseteq 0..MaxInt
  BY RetriesAssumption
<1>2. DefaultBase \in 0..MaxInt /\ DefaultMaxDelay \in 0..MaxInt
  BY RetriesAssumption
<1>3. CASE cfg \in BackoffConfig
  BY <1>1, <1>3 DEF BackoffConfig
<1>4. CASE cfg = DefaultBackoff
  BY <1>2, <1>4 DEF DefaultBackoff
<1> QED BY <1>3, <1>4 DEF Configs

(* What a strategy multiplies its base with, in the program and in          *)
(* unbounded arithmetic.                                                    *)
LEMMA Multipliers ==
    ASSUME NEW n \in Nat, n >= 1
    PROVE  /\ fibonacci(n) \in Int /\ IdealFib[n] \in Nat
           /\ IdealFib[n] <= MaxInt => fibonacci(n) = IdealFib[n]
           /\ Shl(n - 1) \in Int /\ Pow2[n - 1] \in Nat
           /\ Pow2[n - 1] <= MaxInt => Shl(n - 1) = Pow2[n - 1]
<1>1. IdealFib[n] \in Nat /\ IdealFib[1] = 1
  BY FibonacciNumbers
<1>2. Fib[n].b \in Int
  BY FibonacciLoop
<1>3. fibonacci(n) \in Int /\ (IdealFib[n] <= MaxInt => fibonacci(n) = IdealFib[n])
  <2>1. CASE n = 1
    BY <1>1, <2>1 DEF fibonacci
  <2>2. CASE n > 1
    BY <1>2, <2>2, FibonacciFits DEF fibonacci
  <2> QED BY <2>1, <2>2
<1>4. n - 1 \in Nat /\ Pow2[n - 1] \in Nat
  BY Powers
<1>5. Wrap(Pow2[n - 1]) \in Int
  BY <1>4, WrapType, RetriesAssumption DEF Wide
<1>6. Pow2[n - 1] <= MaxInt => Wrap(Pow2[n - 1]) = Pow2[n - 1]
  BY <1>4, WrapSame, RetriesAssumption DEF Wide
<1> QED BY <1>1, <1>3, <1>4, <1>5, <1>6 DEF Shl

(* A product with the base is right if it fits, the factor being right if   *)
(* it does.                                                                 *)
LEMMA Products ==
    ASSUME NEW base \in 0..MaxInt, NEW x \in Int, NEW ideal \in Nat, ideal <= MaxInt => x = ideal
    PROVE  /\ Wrap(base * x) \in Int
           /\ base * ideal \in Nat
           /\ base * ideal <= MaxInt => Wrap(base * x) = base * ideal
<1>1. base * x \in Int /\ base * ideal \in Nat
  BY RetriesAssumption
<1>2. Wrap(base * x) \in Int
  BY <1>1, WrapType, RetriesAssumption DEF Wide
<1>3. CASE base = 0
  <2>1. base * x = 0 /\ base * ideal = 0
    BY <1>3
  <2>2. Wrap(0) = 0
    BY WrapSame, RetriesAssumption DEF Wide
  <2> QED BY <1>1, <1>2, <2>1, <2>2
<1>4. CASE base >= 1
  <2>1. ASSUME base * ideal <= MaxInt PROVE Wrap(base * x) = base * ideal
    <3>1. ideal <= base * ideal
      BY <1>4, RetriesAssumption
    <3>2. x = ideal
      BY <1>1, <2>1, <3>1, RetriesAssumption
    <3> QED BY <1>1, <2>1, <3>2, WrapSame, RetriesAssumption DEF Wide
  <2> QED BY <1>1, <1>2, <2>1
<1> QED BY <1>3, <1>4, RetriesAssumption

(* The delay of every strategy: never above the maximum, and the one the    *)
(* strategy stands for if the integers hold it.                             *)
LEMMA Backoffs ==
    ASSUME NEW cfg \in Configs, NEW n \in Nat, n >= 1
    PROVE  /\ computeBackoffWithConfig(cfg, n) \in Int
           /\ computeBackoffWithConfig(cfg, n) <= cfg.max_delay
           /\ Ideal(cfg, n) <= MaxInt =>
                computeBackoffWithConfig(cfg, n) =
                    IF Ideal(cfg, n) > cfg.max_delay THEN cfg.max_delay ELSE Ideal(cfg, n)
<1> DEFINE delay == CASE cfg.strategy = "fibonacci" -> Wrap(fibonacci(n) * cfg.base)
                      [] cfg.strategy = "fixed"     -> cfg.base
                      [] OTHER                      -> Wrap(cfg.base * Shl(n - 1))
<1>1. cfg.base \in 0..MaxInt /\ cfg.max_delay \in 0..MaxInt
  BY ConfigTypes
<1>2. delay \in Int /\ Ideal(cfg, n) \in Nat /\ (Ideal(cfg, n) <= MaxInt => delay = Ideal(cfg, n))
  <2>1. CASE cfg.strategy = "fibonacci"
    <3>1. fibonacci(n) * cfg.base = cfg.base * fibonacci(n)
      BY <1>1, Multipliers, RetriesAssumption
    <3>2. /\ Wrap(cfg.base * fibonacci(n)) \in Int
          /\ cfg.base * IdealFib[n] \in Nat
          /\ cfg.base * IdealFib[n] <= MaxInt => Wrap(cfg.base * fibonacci(n)) = cfg.base * IdealFib[n]
      BY <1>1, Multipliers, Products
    <3>3. delay = Wrap(cfg.base * fibonacci(n)) /\ Ideal(cfg, n) = cfg.base * IdealFib[n]
      BY <2>1, <3>1 DEF Ideal
    <3> HIDE DEF delay
    <3> QED BY <3>2, <3>3
  <2>2. CASE cfg.strategy = "fixed"
    BY <1>1, <2>2, RetriesAssumption DEF Ideal
  <2>3. CASE cfg.strategy \notin {"fibonacci", "fixed"}
    <3>1. /\ Wrap(cfg.base * Shl(n - 1)) \in Int
          /\ cfg.base * Pow2[n - 1] \in Nat
          /\ cfg.base * Pow2[n - 1] <= MaxInt => Wrap(cfg.base * Shl(n - 1)) = cfg.base * Pow2[n - 1]
      BY <1>1, Multipliers, Products
    <3>2. delay = Wrap(cfg.base * Shl(n - 1)) /\ Ideal(cfg, n) = cfg.base * Pow2[n - 1]
      BY <2>3 DEF Ideal
    <3> HIDE DEF delay
    <3> QED BY <3>1, <3>2
  <2> QED BY <2>1, <2>2, <2>3
<1>3. computeBackoffWithConfig(cfg, n) = IF delay > cfg.max_delay THEN cfg.max_delay ELSE delay
  BY DEF computeBackoffWithConfig, Cap
<1> HIDE DEF delay
<1> QED BY <1>1, <1>2, <1>3, RetriesAssumption

-----------------------------------------------------------------------------
(* The wait that a worker is about to settle, or has settled, is the one    *)
(* computed for the next attempt; it fits before RetryUntil counted from    *)
(* the reading of the clock it was decided with, and since then at most     *)
(* MaxHook has passed.                                                      *)
DelayInv ==
    /\ AttemptInv
    /\ now \in Nat /\ worker.decided \in Nat
    /\ job.cfg \in Configs
    /\ job.until \in Untils \cup {Never}
    /\ worker.pc \in {"hook", "settle"} => now <= worker.decided + MaxHook
    /\ worker.pc \in {"hook", "settle"} /\ worker.result = "retryable" =>
          /\ worker.backoff = computeBackoffWithConfig(job.cfg, job.attempt + 1)
          /\ job.until # Never => worker.decided + worker.backoff < job.until
    /\ job.state = "retryable" => worker.backoff = computeBackoffWithConfig(job.cfg, job.attempt + 1)
    /\ UntilKept

LEMMA DelayStep == DelayInv /\ [Next]_vars => DelayInv'
<1> SUFFICES ASSUME DelayInv, [Next]_vars PROVE DelayInv'
  OBVIOUS
<1>a. AttemptInv /\ AttemptInv'
  BY AttemptStep DEF DelayInv
<1>b. job.attempt + 1 \in Nat /\ job.attempt + 1 >= 1
  BY <1>a DEF AttemptInv, JobType
<1> DEFINE next == computeBackoffWithConfig(job.cfg, job.attempt + 1)
<1>c. next \in Int
  BY <1>b, Backoffs DEF DelayInv
<1>d. MaxHook \in Nat /\ Untils \subseteq Nat
  BY RetriesAssumption
<1> HIDE DEF next
<1> USE DEF DelayInv, UntilKept
<1>1. CASE Claim
  <2>1. worker' = [pc |-> "exec", result |-> "none", backoff |-> 0, decided |-> 0] /\ now' = now
    BY <1>1 DEF Claim, Idle
  <2>2. job'.state = "running" /\ job'.cfg = job.cfg /\ job'.until = job.until
    BY <1>1, <1>a DEF Claim, AttemptInv, JobType
  <2> QED BY <1>a, <2>1, <2>2
<1>2. CASE Undecodable \/ HandlerSucceeds
  <2>1. /\ worker'.pc = "settle" /\ worker'.result \in {"failed", "completed"} /\ worker'.decided = now
        /\ worker'.backoff = worker.backoff /\ job' = job /\ now' = now /\ worker.pc = "exec"
    BY <1>2, <1>a DEF Undecodable, HandlerSucceeds, AttemptInv, JobType
  <2>2. job.state # "retryable"
    BY <1>a, <2>1 DEF AttemptInv
  <2> QED BY <1>a, <1>d, <2>1, <2>2
<1>3. CASE HandlerFails
  <2>1. job' = job /\ now' = now /\ worker.pc = "exec"
    BY <1>3 DEF HandlerFails
  <2>2. job.state # "retryable"
    BY <1>a, <2>1 DEF AttemptInv
  <2>3. \/ worker' = [pc |-> "hook", result |-> "retryable", backoff |-> next, decided |-> now] /\ ~TooLate(next)
        \/ worker' = [pc |-> "settle", result |-> "failed", backoff |-> 0, decided |-> now]
    BY <1>3 DEF HandlerFails, next
  <2> QED BY <1>a, <1>c, <1>d, <2>1, <2>2, <2>3 DEF TooLate, next
<1>4. CASE BeforeRetry
  <2>1. /\ worker.pc = "hook" /\ worker'.pc = "settle" /\ worker'.decided = worker.decided
        /\ \/ worker'.result = worker.result /\ worker'.backoff = worker.backoff
           \/ worker'.result = "failed"
        /\ job' = job /\ now' = now
    BY <1>4, <1>a DEF BeforeRetry, AttemptInv, JobType
  <2>2. job.state # "retryable"
    BY <1>a, <2>1 DEF AttemptInv
  <2> QED BY <1>a, <2>1, <2>2
<1>5. CASE Settle
  <2>1. /\ worker.pc = "settle" /\ worker'.pc = "idle" /\ now' = now
        /\ worker'.decided = worker.decided /\ worker'.backoff = worker.backoff
        /\ job'.state = worker.result /\ job'.cfg = job.cfg /\ job'.until = job.until
        /\ job'.attempt = job.attempt
        /\ worker.result = "retryable" => job'.scheduled_at = now + worker.backoff
    BY <1>5, <1>a DEF Settle, AttemptInv, JobType
  <2>2. ASSUME worker.result = "retryable", job.until # Never
        PROVE  job'.scheduled_at < job.until + MaxHook
    <3>1. worker.backoff \in Int /\ job.until \in Nat
      BY <1>c, <1>d, <2>1, <2>2 DEF next
    <3> QED BY <1>d, <2>1, <2>2, <3>1
  <2> QED BY <1>a, <2>1, <2>2
<1>6. CASE RequeueStale
  <2>1. worker' = [pc |-> "idle", result |-> "none", backoff |-> 0, decided |-> 0] /\ now' = now
    BY <1>6 DEF RequeueStale, Idle
  <2>2. job'.state = "available" /\ job'.cfg = job.cfg /\ job'.until = job.until
    BY <1>6, <1>a DEF RequeueStale, AttemptInv, JobType
  <2> QED BY <1>a, <2>1, <2>2
<1>7. CASE Tick
  <2>1. /\ worker' = worker /\ job' = job /\ now' = now + 1
        /\ worker.pc \in {"hook", "settle"} => now < worker.decided + MaxHook
    BY <1>7 DEF Tick
  <2> QED BY <1>a, <1>d, <2>1
<1>8. CASE UNCHANGED vars
  BY <1>a, <1>8 DEF vars
<1> QED BY <1>1, <1>2, <1>3, <1>4, <1>5, <1>6, <1>7, <1>8 DEF Next

LEMMA DelayInvariant == Spec => []DelayInv
<1>1. Init => DelayInv
  <2> SUFFICES ASSUME Init PROVE DelayInv
    OBVIOUS
  <2>1. AttemptInv
    BY RetriesAssumption DEF Init, AttemptInv, JobType, AttemptsAgree, Idle
  <2>2. job.state = "available" /\ job.cfg \in Configs /\ job.until \in Untils \cup {Never}
    BY DEF Init, Configs
  <2> QED BY <2>1, <2>2 DEF Init, DelayInv, UntilKept, Idle
<1> QED BY <1>1, DelayStep, PTL DEF Spec

(* The wait before a retry is the one its strategy stands for, up to the    *)
(* maximum, whenever that fits the integers, and never above the maximum:   *)
(* for integers of any width and for any number of attempts.                *)
THEOREM RetriesSpaced == Spec => []Spaced
<1>1. DelayInv => Spaced
  <2> SUFFICES ASSUME DelayInv, job.state = "retryable" PROVE Spaced
    BY DEF Spaced
  <2>1. job.cfg \in Configs /\ job.attempt + 1 \in Nat /\ job.attempt + 1 >= 1
    BY DEF DelayInv, AttemptInv, JobType
  <2>2. worker.backoff = computeBackoffWithConfig(job.cfg, job.attempt + 1)
    BY DEF DelayInv
  <2> QED BY <2>1, <2>2, Backoffs DEF Spaced
<1> QED BY <1>1, DelayInvariant, PTL

(* No retry is due later than RetryUntil by more than the hook and the      *)
(* settle took, whatever the backoff.                                       *)
THEOREM DeadlineKept == Spec => []UntilKept
<1>1. DelayInv => UntilKept
  BY DEF DelayInv
<1> QED BY <1>1, DelayInvariant, PTL
=============================================================================
