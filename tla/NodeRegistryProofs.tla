------------------------- MODULE NodeRegistryProofs -------------------------
(***************************************************************************)
(* The node registry's invariants for any processes, intervals and window. *)
(* NoResurrection and Indexed are inductive beside the types; Reported     *)
(* needs to know how far a process has got since its last heartbeat that   *)
(* arrived (Timely).                                                       *)
(***************************************************************************)
EXTENDS NodeRegistry, TLAPS

LEMMA Durations ==
    ASSUME TypeOK, NEW n \in Nodes
    PROVE  Interval(n) \in Nat \ {0} /\ Life(n) \in Nat \ {0}
<1>1. HeartbeatTTL \div 2 \in Nat \ {0}
    BY RegistryAssumption
<1> QED BY <1>1, RegistryAssumption DEF TypeOK, Interval, TTL, Life

LEMMA TypeStep == TypeOK /\ [Next]_vars => TypeOK'
<1> SUFFICES ASSUME TypeOK, [Next]_vars PROVE TypeOK'
    OBVIOUS
<1> USE RegistryAssumption, Durations DEF TypeOK
<1>1. ASSUME NEW n \in Nodes, Start(n) PROVE TypeOK'
    <2>1. now + Life(n) \in Nat /\ now + Interval(n) \in Nat /\ Life(n) \in Nat
        OBVIOUS
    <2>2. PICK stored, ok \in BOOLEAN :
            /\ IF stored THEN RegisterNode(n)
                         ELSE /\ registered' = registered \ {n}
                              /\ UNCHANGED <<rows, until, gone, unlisted>>
            /\ up' = IF ok \/ n \in Supervisors THEN up \cup {n} ELSE up
        BY <1>1 DEF Start
    <2>3. /\ until' \in [Nodes -> Nat] /\ rows' \subseteq Nodes /\ registered' \subseteq Nodes
          /\ gone' \subseteq Nodes /\ unlisted' \subseteq Nodes /\ up' \subseteq Nodes
        BY <2>1, <2>2 DEF RegisterNode
    <2> QED BY <1>1, <2>1, <2>3 DEF Start
<1>2. ASSUME NEW n \in Nodes, Stop(n) \/ Crash(n) PROVE TypeOK'
    BY <1>2 DEF Stop, Crash
<1>3. ASSUME NEW n \in Nodes, SendHeartbeat(n) PROVE TypeOK'
    BY <1>3 DEF SendHeartbeat
<1>4. ASSUME NEW n \in Nodes, Heartbeat(n) PROVE TypeOK'
    BY <1>4 DEF Heartbeat
<1>5. ASSUME NEW n \in Nodes, HeartbeatLost(n) PROVE TypeOK'
    BY <1>5 DEF HeartbeatLost
<1>6. ASSUME NEW n \in Nodes, ListGet(n) PROVE TypeOK'
    BY <1>6 DEF ListGet, process
<1>7. CASE ListNodes \/ ListRemove \/ ListError
    BY <1>7 DEF ListNodes, ListRemove, ListError, Idle, process
<1>8. CASE Tick
    BY <1>8 DEF Tick, process, listing
<1>9. CASE UNCHANGED vars
    BY <1>9 DEF vars
<1> QED BY <1>1, <1>2, <1>3, <1>4, <1>5, <1>6, <1>7, <1>8, <1>9 DEF Next

LEMMA TypeInit == Init => TypeOK
BY DEF Init, TypeOK, Idle

(* Every variable of the registry keeps its type. *)
THEOREM RegistryTypes == Spec => []TypeOK
BY TypeInit, TypeStep, PTL DEF Spec

-----------------------------------------------------------------------------
(* A heartbeat that comes after the deregistration finds neither row nor    *)
(* key, and Heartbeat makes none.                                           *)
LEMMA ResurrectionStep == TypeOK /\ NoResurrection /\ [Next]_vars => NoResurrection'
<1> SUFFICES ASSUME TypeOK, NoResurrection, [Next]_vars PROVE NoResurrection'
    OBVIOUS
<1> USE DEF TypeOK, NoResurrection, Alive
<1>1. ASSUME NEW n \in Nodes, Start(n) PROVE NoResurrection'
    BY <1>1 DEF Start, RegisterNode
<1>2. ASSUME NEW n \in Nodes, Stop(n) \/ Crash(n) PROVE NoResurrection'
    BY <1>2 DEF Stop, Crash
<1>3. ASSUME NEW n \in Nodes, SendHeartbeat(n) \/ HeartbeatLost(n) PROVE NoResurrection'
    BY <1>3 DEF SendHeartbeat, HeartbeatLost
<1>4. ASSUME NEW n \in Nodes, Heartbeat(n) PROVE NoResurrection'
    BY <1>4 DEF Heartbeat, Found
<1>5. ASSUME NEW n \in Nodes, ListGet(n) PROVE NoResurrection'
    BY <1>5 DEF ListGet, process
<1>6. CASE ListNodes \/ ListRemove \/ ListError
    BY <1>6 DEF ListNodes, ListRemove, ListError, process
<1>7. CASE Tick
    BY <1>7 DEF Tick, process, listing
<1>8. CASE UNCHANGED vars
    BY <1>8 DEF vars
<1> QED BY <1>1, <1>2, <1>3, <1>4, <1>5, <1>6, <1>7, <1>8 DEF Next

(* A deregistered node stays deregistered, however late its last heartbeat. *)
THEOREM DeregisteredForGood == Spec => []NoResurrection
<1>1. Init => NoResurrection
    BY DEF Init, NoResurrection
<1> QED BY <1>1, TypeInit, TypeStep, ResurrectionStep, PTL DEF Spec

-----------------------------------------------------------------------------
(* Alive nodes stay in the index: only ListNodes takes an alive node out.   *)
LEMMA IndexStep == TypeOK /\ Indexed /\ [Next]_vars => Indexed'
<1> SUFFICES ASSUME TypeOK, Indexed, [Next]_vars PROVE Indexed'
    OBVIOUS
<1> USE DEF TypeOK, Indexed, Alive
<1>1. ASSUME NEW n \in Nodes, Start(n) PROVE Indexed'
    BY <1>1 DEF Start, RegisterNode
<1>2. ASSUME NEW n \in Nodes, Stop(n) \/ Crash(n) PROVE Indexed'
    BY <1>2 DEF Stop, Crash
<1>3. ASSUME NEW n \in Nodes, SendHeartbeat(n) \/ HeartbeatLost(n) PROVE Indexed'
    BY <1>3 DEF SendHeartbeat, HeartbeatLost
<1>4. ASSUME NEW n \in Nodes, Heartbeat(n) PROVE Indexed'
    BY <1>4 DEF Heartbeat, Found
<1>5. ASSUME NEW n \in Nodes, ListGet(n) PROVE Indexed'
    BY <1>5 DEF ListGet, process
<1>6. CASE ListNodes \/ ListError
    BY <1>6 DEF ListNodes, ListError, process
<1>7. CASE ListRemove
    BY <1>7 DEF ListRemove, process
<1>8. CASE Tick
    BY <1>8 DEF Tick, process, listing
<1>9. CASE UNCHANGED vars
    BY <1>9 DEF vars
<1> QED BY <1>1, <1>2, <1>3, <1>4, <1>5, <1>6, <1>7, <1>8, <1>9 DEF Next

(* ListNodes misses a live node only after the race between its GET and its *)
(* SREM.                                                                    *)
THEOREM AliveIndexed == Spec => []Indexed
<1>1. Init => Indexed
    BY DEF Init, Indexed, Alive
<1> QED BY <1>1, TypeInit, TypeStep, IndexStep, PTL DEF Spec

-----------------------------------------------------------------------------
(* How long ago the last heartbeat that arrived can be: missed periods, the *)
(* current one and the one of the heartbeat on its way.                     *)
Periods(n) == missed[n] + 1 + (IF n \in flight THEN 1 ELSE 0)

OnTime(n) ==
    /\ now <= due[n]
    /\ n \in flight => now + Interval(n) = due[n]
    /\ missed[n] <= worst[n]
    /\ driver = "sql" => n \in rows
    /\ Tolerable(n) => until[n] + Periods(n) * Interval(n) >= due[n] + Life(n)

Timely == \A n \in Nodes : Serving(n) => OnTime(n)

(* Only a ListNodes of the Redis driver takes several steps. *)
ListKind == lister.pc = "read" => driver = "redis"

ReportInv == TypeOK /\ Timely /\ ListKind

LEMMA TimelyReports == ASSUME ReportInv PROVE Reported
<1> SUFFICES ASSUME NEW n \in Nodes, Serving(n), Tolerable(n) PROVE Alive(n)
    BY DEF Reported
<1> DEFINE I == Interval(n) L == Life(n) m == missed[n] w == worst[n]
<1>1. I \in Nat \ {0} /\ L \in Nat /\ m \in Nat /\ w \in Nat
    BY Durations DEF ReportInv, TypeOK
<1>2. (w + 1) * I < L /\ m <= w /\ now <= due[n] /\ (n \in flight => now + I = due[n])
    BY DEF Tolerable, ReportInv, Timely, OnTime
<1>3. until[n] + (m + 1 + (IF n \in flight THEN 1 ELSE 0)) * I >= due[n] + L
    BY DEF ReportInv, Timely, OnTime, Periods
<1>4. now \in Nat /\ due[n] \in Nat /\ until[n] \in Nat
    BY DEF ReportInv, TypeOK
<1> HIDE DEF I, L, m, w
<1>5. (m + 1) * I <= (w + 1) * I /\ (m + 1) * I \in Nat /\ (m + 2) * I = (m + 1) * I + I
    BY <1>1, <1>2
<1>6. CASE n \in flight
    BY <1>1, <1>2, <1>3, <1>4, <1>5, <1>6 DEF Alive
<1>7. CASE n \notin flight
    BY <1>1, <1>2, <1>3, <1>4, <1>5, <1>7 DEF Alive
<1> QED BY <1>6, <1>7

(* What a step of one process leaves of another. *)
Apart(n) ==
    /\ Serving(n)' => Serving(n)
    /\ n \in flight' <=> n \in flight
    /\ n \in rows => n \in rows'
    /\ driver' = driver /\ now' = now
    /\ until'[n] = until[n] /\ due'[n] = due[n]
    /\ missed'[n] = missed[n] /\ worst'[n] = worst[n]

LEMMA ApartOnTime ==
    ASSUME NEW n \in Nodes, Serving(n) => OnTime(n), Apart(n)
    PROVE  (Serving(n) => OnTime(n))'
BY DEF Apart, OnTime, Periods, Tolerable, Interval, Life, TTL

LEMMA TimelyStep == ReportInv /\ [Next]_vars => Timely'
<1> SUFFICES ASSUME ReportInv, [Next]_vars, NEW n \in Nodes PROVE (Serving(n) => OnTime(n))'
    BY DEF Timely
<1>a. TypeOK /\ TypeOK' /\ (Serving(n) => OnTime(n))
    BY TypeStep DEF ReportInv, Timely
<1>b. Interval(n) \in Nat \ {0} /\ Life(n) \in Nat \ {0} /\ UNCHANGED <<Interval(n), TTL(n)>>
    BY <1>a, Durations DEF Interval, TTL
<1>1. ASSUME NEW m \in Nodes, Start(m) PROVE (Serving(n) => OnTime(n))'
    <2>1. CASE m # n
        <3>1. Apart(n)
            BY <1>1, <1>a, <2>1 DEF Start, RegisterNode, Apart, Serving, TypeOK
        <3> QED BY <3>1, <1>a, ApartOnTime
    <2>2. CASE m = n
        <3>1. /\ due'[n] = now + Interval(n) /\ missed'[n] = 0 /\ worst'[n] = 0
              /\ now' = now /\ driver' = driver /\ Life(n)' = Life(n)
            BY <1>1, <1>a, <1>b, <2>2 DEF Start, TypeOK, Life
        <3>2. n \in registered' => n \in rows' /\ until'[n] = now + Life(n)
            BY <1>1, <1>a, <2>2 DEF Start, RegisterNode, TypeOK
        <3>3. Periods(n)' \in {1, 2}
            BY <3>1 DEF Periods
        <3>4. Periods(n)' * Interval(n) >= Interval(n)
            BY <3>3, <1>b
        <3> QED BY <3>1, <3>2, <3>3, <3>4, <1>a, <1>b DEF Serving, OnTime, TypeOK
    <2> QED BY <2>1, <2>2
<1>2. ASSUME NEW m \in Nodes, Stop(m) \/ Crash(m) PROVE (Serving(n) => OnTime(n))'
    <2>1. CASE m # n
        <3>1. Apart(n)
            BY <1>2, <1>a, <2>1 DEF Stop, Crash, Apart, Serving, TypeOK
        <3> QED BY <3>1, <1>a, ApartOnTime
    <2>2. CASE m = n
        BY <1>2, <2>2 DEF Stop, Crash, Serving
    <2> QED BY <2>1, <2>2
<1>3. ASSUME NEW m \in Nodes, SendHeartbeat(m) PROVE (Serving(n) => OnTime(n))'
    <2>1. CASE m # n
        <3>1. Apart(n)
            BY <1>3, <1>a, <2>1 DEF SendHeartbeat, Apart, Serving, TypeOK
        <3> QED BY <3>1, <1>a, ApartOnTime
    <2>2. CASE m = n
        <3>1. /\ now = due[n] /\ due'[n] = now + Interval(n) /\ n \in flight'
              /\ UNCHANGED <<driver, now, rows, until, missed, worst, Life(n), Tolerable(n)>>
              /\ Serving(n)' => Serving(n)
            BY <1>3, <1>a, <1>b, <2>2 DEF SendHeartbeat, TypeOK, Life, Tolerable, Serving
        <3>2. SUFFICES ASSUME Serving(n) PROVE OnTime(n)'
            BY <3>1
        <3>3. OnTime(n) /\ n \notin flight
            BY <3>1, <3>2, <1>a, <1>b DEF OnTime, TypeOK
        <3>4. Periods(n) = missed[n] + 1 /\ Periods(n)' = missed[n] + 2 /\ missed[n] \in Nat
            BY <3>1, <3>3, <1>a DEF Periods, TypeOK
        <3>5. (missed[n] + 2) * Interval(n) = (missed[n] + 1) * Interval(n) + Interval(n)
            BY <3>4, <1>b
        <3> QED BY <3>1, <3>3, <3>4, <3>5, <1>a, <1>b DEF OnTime, TypeOK
    <2> QED BY <2>1, <2>2
<1>4. ASSUME NEW m \in Nodes, Heartbeat(m) PROVE (Serving(n) => OnTime(n))'
    <2>1. CASE m # n
        <3>1. Apart(n)
            BY <1>4, <1>a, <2>1 DEF Heartbeat, Apart, Serving, TypeOK
        <3> QED BY <3>1, <1>a, ApartOnTime
    <2>2. CASE m = n
        <3>1. /\ n \in flight /\ n \notin flight'
              /\ UNCHANGED <<driver, now, rows, due, worst, Life(n), Tolerable(n)>>
              /\ Serving(n)' => Serving(n)
            BY <1>4, <1>a, <1>b, <2>2 DEF Heartbeat, TypeOK, Life, Tolerable, Serving
        <3>2. SUFFICES ASSUME Serving(n) PROVE OnTime(n)'
            BY <3>1
        <3>3. OnTime(n) /\ (Tolerable(n) => Alive(n))
            BY <3>2, <1>a, TimelyReports DEF Reported
        <3>4. CASE Found(n)
            <4>1. until'[n] = now + Life(n) /\ missed'[n] = 0
                BY <1>4, <1>a, <2>2, <3>4 DEF Heartbeat, TypeOK
            <4>2. Periods(n)' = 1
                BY <3>1, <4>1 DEF Periods
            <4> QED BY <3>1, <3>3, <4>1, <4>2, <1>a, <1>b DEF OnTime, TypeOK
        <3>5. CASE ~Found(n)
            <4>1. ~Tolerable(n)
                BY <3>3, <3>5, <1>a DEF Found, OnTime, TypeOK
            <4>2. missed' = missed
                BY <1>4, <2>2, <3>5 DEF Heartbeat
            <4> QED BY <3>1, <3>3, <4>1, <4>2, <1>a, <1>b DEF OnTime, TypeOK
        <3> QED BY <3>4, <3>5
    <2> QED BY <2>1, <2>2
<1>5. ASSUME NEW m \in Nodes, HeartbeatLost(m) PROVE (Serving(n) => OnTime(n))'
    <2>1. CASE m # n
        <3>1. Apart(n)
            BY <1>5, <1>a, <2>1 DEF HeartbeatLost, Apart, Serving, TypeOK
        <3> QED BY <3>1, <1>a, ApartOnTime
    <2>2. CASE m = n
        <3>1. /\ n \in flight /\ n \notin flight'
              /\ UNCHANGED <<driver, now, rows, until, due, Life(n)>>
              /\ missed'[n] = missed[n] + 1
              /\ worst'[n] >= missed[n] + 1 /\ worst'[n] >= worst[n]
              /\ Serving(n)' => Serving(n)
            BY <1>5, <1>a, <1>b, <2>2 DEF HeartbeatLost, TypeOK, Life, Serving
        <3>2. SUFFICES ASSUME Serving(n) PROVE OnTime(n)'
            BY <3>1
        <3>3. OnTime(n)
            BY <3>2, <1>a
        <3>4. Periods(n)' = Periods(n)
            BY <3>1, <1>a DEF Periods, TypeOK
        <3>5. Tolerable(n)' => Tolerable(n)
            <4>1. (worst[n] + 1) * Interval(n) <= (worst'[n] + 1) * Interval(n)
                BY <3>1, <1>a, <1>b DEF TypeOK
            <4> QED BY <3>1, <4>1, <1>a, <1>b DEF Tolerable, TypeOK
        <3> QED BY <3>1, <3>3, <3>4, <3>5, <1>a, <1>b DEF OnTime, TypeOK
    <2> QED BY <2>1, <2>2
<1>6. ASSUME NEW m \in Nodes, ListGet(m) PROVE (Serving(n) => OnTime(n))'
    <2>1. Apart(n)
        BY <1>6 DEF ListGet, process, Apart, Serving
    <2> QED BY <2>1, <1>a, ApartOnTime
<1>7. CASE ListNodes \/ ListError \/ UNCHANGED vars
    <2>1. Apart(n)
        BY <1>7 DEF ListNodes, ListError, process, vars, Apart, Serving
    <2> QED BY <2>1, <1>a, ApartOnTime
<1>8. CASE ListRemove
    <2>1. UNCHANGED <<driver, now, until, up, registered, due, missed, worst, flight>>
        BY <1>8 DEF ListRemove, process
    <2>2. driver = "redis"
        BY <1>8 DEF ReportInv, ListKind, ListRemove
    <2> QED BY <2>1, <2>2, <1>a DEF Serving, OnTime, Periods, Tolerable, Interval, Life, TTL
<1>9. CASE Tick
    <2>1. /\ now' = now + 1 /\ (n \in up => now < due[n] /\ n \notin flight)
          /\ UNCHANGED <<driver, rows, until, up, registered, due, missed, worst, flight>>
        BY <1>9 DEF Tick, process
    <2> QED BY <2>1, <1>a, <1>b DEF Serving, OnTime, Periods, Tolerable, Life, TypeOK
<1> QED BY <1>1, <1>2, <1>3, <1>4, <1>5, <1>6, <1>7, <1>8, <1>9 DEF Next

LEMMA ListKindStep == TypeOK /\ ListKind /\ [Next]_vars => ListKind'
BY DEF TypeOK, ListKind, Next, vars, Start, Stop, Crash, SendHeartbeat, Heartbeat, HeartbeatLost,
       ListNodes, ListGet, ListRemove, ListError, Tick, listing, Idle

LEMMA ReportInvariant == Spec => []ReportInv
<1>1. Init => ReportInv
    BY TypeInit DEF Init, ReportInv, Timely, Serving, ListKind, Idle
<1>2. ReportInv /\ [Next]_vars => ReportInv'
    BY TypeStep, TimelyStep, ListKindStep DEF ReportInv
<1> QED BY <1>1, <1>2, PTL DEF Spec

(* A running, registered process that loses no more heartbeats in a row     *)
(* than its record's life allows never looks dead, with any number of other *)
(* processes starting, stopping and listing around it.                      *)
THEOREM ReportedAlive == Spec => []Reported
<1>1. ReportInv => Reported
    BY TimelyReports
<1> QED BY <1>1, ReportInvariant, PTL

(* However long a process was cut off from the store, with SQL its next     *)
(* heartbeat that arrives makes it alive again, because its row is still    *)
(* there; with Redis it never does once the key has expired.                *)
THEOREM Recovery == Spec => Recovers
<1>1. ReportInv /\ [Next]_vars =>
        [\A n \in Nodes : Serving(n) /\ Heartbeat(n) =>
            (Alive(n)' <=> driver = "sql" \/ Alive(n))]_vars
    <2> SUFFICES ASSUME ReportInv, NEW n \in Nodes, Serving(n), Heartbeat(n)
                 PROVE  Alive(n)' <=> driver = "sql" \/ Alive(n)
        OBVIOUS
    <2>1. TypeOK /\ (driver = "sql" => n \in rows)
        BY DEF ReportInv, Timely, OnTime
    <2>2. Found(n) <=> driver = "sql" \/ Alive(n)
        BY <2>1 DEF Found, TypeOK
    <2>3. now' = now /\ until' = IF Found(n) THEN [until EXCEPT ![n] = now + Life(n)] ELSE until
        BY DEF Heartbeat
    <2>4. now \in Nat /\ until \in [Nodes -> Nat] /\ Life(n) \in Nat \ {0}
        BY <2>1, Durations DEF TypeOK
    <2>5. CASE Found(n)
        <3>1. until'[n] = now + Life(n)
            BY <2>3, <2>4, <2>5
        <3> QED BY <2>2, <2>3, <2>4, <2>5, <3>1 DEF Alive
    <2>6. CASE ~Found(n)
        BY <2>2, <2>3, <2>6 DEF Alive
    <2> QED BY <2>5, <2>6
<1> QED BY <1>1, ReportInvariant, PTL DEF Spec, Recovers
=============================================================================
