----------------------------- MODULE SyncProofs -----------------------------
(***************************************************************************)
(* The synchronisation demos.                                              *)
(*                                                                         *)
(* The producer and the consumer: for every ring size and alphabet the two *)
(* tasks stay in type, implement a first-in first-out channel and never    *)
(* both wait while there is something to do.                               *)
(*                                                                         *)
(* The connection pool: for any number of connections, tasks and rounds a  *)
(* task that was granted the semaphore finds an idle connection, although  *)
(* the statuses change under its scan, and the pool is whole at the end.   *)
(*                                                                         *)
(* The semaphore demo: for any number of threads and rounds no count is    *)
(* lost, although threads are deleted between wait and release.            *)
(*                                                                         *)
(* The mutex demo: for any number of threads no count is lost, although    *)
(* the main program may delete the mutex under the last of them.           *)
(***************************************************************************)
EXTENDS SemRing, ConnPool, SemaphoreDemo, MutexDemo, FiniteSetTheorems, TLAPS

-----------------------------------------------------------------------------
(* The producer and the consumer.                                          *)

USE DEF prodVars, consVars, hist

\* Advancing an index stays in the ring and wraps at its end.
LEMMA NextPlaceWraps ==
    ASSUME NEW i \in Places
    PROVE  /\ NextPlace(i) \in Places
           /\ NextPlace(i) = IF i + 1 = BUFFER_SIZE THEN 0 ELSE i + 1
<1>1. i \in Int /\ 0 <= i /\ i < BUFFER_SIZE /\ BUFFER_SIZE \in Int
  BY RingAssumption DEF Places
<1>2. CASE i + 1 = BUFFER_SIZE
  <2>1. (i + 1) % BUFFER_SIZE = 0
    BY <1>1, <1>2
  <2>2. QED BY <1>1, <1>2, <2>1 DEF NextPlace, Places
<1>3. CASE i + 1 < BUFFER_SIZE
  <2>1. (i + 1) % BUFFER_SIZE = i + 1
    BY <1>1, <1>3
  <2>2. QED BY <1>1, <1>3, <2>1 DEF NextPlace, Places
<1>4. QED BY <1>1, <1>2, <1>3

-----------------------------------------------------------------------------
(* The inductive invariant.                                                *)

Occupied == Len(produced) - Len(consumed)

\* Place d places after the consumer's.
Wrap(d) == IF consumer_index + d >= BUFFER_SIZE
           THEN consumer_index + d - BUFFER_SIZE
           ELSE consumer_index + d

\* A task between its wait and its access holds a claim on one place; between
\* its access and its release it holds back one the other may already use.
Claim(pc, at)   == IF pc = at THEN 1 ELSE 0
Holding(pc)     == IF pc = "release" THEN 1 ELSE 0

\* The semaphores never promise more than the ring has.  Equality fails once
\* init deleted them under a running producer.
Counting ==
    /\ full_sem + Claim(c_pc, "read") + Holding(p_pc) <= Occupied
    /\ empty_sem + Claim(p_pc, "write") + Holding(c_pc) <= BUFFER_SIZE - Occupied
    /\ init_pc = "sems" => /\ p_pc = "none" /\ c_pc = "none"
                           /\ produced = <<>> /\ consumed = <<>>

\* The producer's index is Occupied places ahead of the consumer's, and the
\* places between hold what was produced and not consumed, in order.
Contents ==
    /\ producer_index = Wrap(Occupied)
    /\ \A d \in 0 .. (Occupied - 1) :
          buffer[Wrap(d)] = produced[Len(consumed) + d + 1]

RingInv == TypeOK /\ Counting /\ Contents

-----------------------------------------------------------------------------
\* Initially every variable is in its type and the ring is empty.
LEMMA InitRing == Init => RingInv
<1> SUFFICES ASSUME Init PROVE RingInv
  OBVIOUS
<1> USE RingAssumption
<1>1. TypeOK
  BY DEF Init, TypeOK, Places, Chars
<1>2. Counting
  BY DEF Init, Counting, Occupied, Claim, Holding
<1>3. Contents
  BY DEF Init, Contents, Occupied, Wrap
<1>4. QED BY <1>1, <1>2, <1>3 DEF RingInv

\* Every step keeps every variable in its type.
LEMMA TypeStep == TypeOK /\ [Next]_vars => TypeOK'
<1> SUFFICES ASSUME TypeOK, [Next]_vars PROVE TypeOK'
  OBVIOUS
<1> USE RingAssumption DEF TypeOK
<1>1. CASE CreateSems
  BY <1>1 DEF CreateSems
<1>2. CASE CreateProducer
  BY <1>2 DEF CreateProducer
<1>3. CASE CreateConsumer
  BY <1>3 DEF CreateConsumer
<1>4. CASE ProducerWait
  BY <1>4 DEF ProducerWait
<1>5. CASE ProducerWrite
  BY <1>5, NextPlaceWraps DEF ProducerWrite
<1>6. CASE ProducerRelease
  BY <1>6 DEF ProducerRelease, qosa_sem_release, Chars
<1>7. CASE ConsumerWait
  BY <1>7 DEF ConsumerWait
<1>8. CASE ConsumerRead
  BY <1>8, NextPlaceWraps DEF ConsumerRead
<1>9. CASE ConsumerRelease
  BY <1>9 DEF ConsumerRelease, qosa_sem_release
<1>10. CASE UNCHANGED vars
  BY <1>10 DEF vars
<1>11. QED
  BY <1>1, <1>2, <1>3, <1>4, <1>5, <1>6, <1>7, <1>8, <1>9, <1>10
  DEF Next, producer_consumer_init, producer_task, consumer_task

\* Every step keeps the semaphores within what the ring has.
LEMMA CountingStep == TypeOK /\ Counting /\ [Next]_vars => Counting'
<1> SUFFICES ASSUME TypeOK, Counting, [Next]_vars PROVE Counting'
  OBVIOUS
<1> USE RingAssumption DEF Counting, Occupied, Claim, Holding
<1>0. /\ Len(produced) \in Nat /\ Len(consumed) \in Nat
      /\ empty_sem \in Int /\ full_sem \in Int
      /\ empty_sem >= 0 /\ full_sem >= 0
  BY DEF TypeOK
<1>1. CASE CreateSems
  BY <1>0, <1>1 DEF CreateSems
<1>2. CASE CreateProducer
  BY <1>0, <1>2 DEF CreateProducer
<1>3. CASE CreateConsumer
  BY <1>0, <1>3 DEF CreateConsumer
<1>4. CASE ProducerWait
  BY <1>0, <1>4 DEF ProducerWait
<1>5. CASE ProducerWrite
  <2>1. Len(produced') = Len(produced) + 1
    BY <1>5 DEF ProducerWrite, TypeOK
  <2>2. init_pc # "sems"
    BY <1>5 DEF ProducerWrite
  <2>3. QED BY <1>0, <1>5, <2>1, <2>2 DEF ProducerWrite
<1>6. CASE ProducerRelease
  BY <1>0, <1>6 DEF ProducerRelease, qosa_sem_release
<1>7. CASE ConsumerWait
  BY <1>0, <1>7 DEF ConsumerWait
<1>8. CASE ConsumerRead
  <2>1. Len(consumed') = Len(consumed) + 1
    BY <1>8 DEF ConsumerRead, TypeOK
  <2>2. init_pc # "sems"
    BY <1>8 DEF ConsumerRead
  <2>3. QED BY <1>0, <1>8, <2>1, <2>2 DEF ConsumerRead
<1>9. CASE ConsumerRelease
  BY <1>0, <1>9 DEF ConsumerRelease, qosa_sem_release
<1>10. CASE UNCHANGED vars
  BY <1>10 DEF vars
<1>11. QED
  BY <1>1, <1>2, <1>3, <1>4, <1>5, <1>6, <1>7, <1>8, <1>9, <1>10
  DEF Next, producer_consumer_init, producer_task, consumer_task

\* Every step keeps the characters between the two indices.
LEMMA ContentsStep == RingInv /\ [Next]_vars => Contents'
<1> SUFFICES ASSUME TypeOK, Counting, Contents, [Next]_vars PROVE Contents'
  BY DEF RingInv
<1> USE RingAssumption
<1>0. /\ Len(produced) \in Nat /\ Len(consumed) \in Nat
      /\ empty_sem \in Int /\ full_sem \in Int
      /\ empty_sem >= 0 /\ full_sem >= 0
      /\ producer_index \in Int /\ consumer_index \in Int
      /\ 0 <= consumer_index /\ consumer_index < BUFFER_SIZE
      /\ 0 <= producer_index /\ producer_index < BUFFER_SIZE
  BY DEF TypeOK, Places
<1>1. CASE UNCHANGED <<buffer, producer_index, consumer_index, hist>>
  BY <1>1 DEF Contents, Wrap, Occupied
<1>2. CASE ProducerWrite
  <2>1. /\ produced' = Append(produced, data)
        /\ UNCHANGED <<consumer_index, consumed>>
        /\ producer_index' = NextPlace(producer_index)
        /\ buffer' = [buffer EXCEPT ![producer_index] = data]
    BY <1>2 DEF ProducerWrite
  <2>2. /\ Len(produced') = Len(produced) + 1
        /\ \A n \in 1 .. Len(produced) : produced'[n] = produced[n]
        /\ produced'[Len(produced) + 1] = data
    BY <2>1 DEF TypeOK
  <2>3. 0 <= Occupied /\ Occupied < BUFFER_SIZE /\ Occupied \in Int
    BY <1>0, <1>2 DEF ProducerWrite, Counting, Claim, Holding, Occupied
  <2>4. Occupied' = Occupied + 1
    BY <1>0, <2>1, <2>2 DEF Occupied
  <2>5. producer_index' = IF producer_index + 1 = BUFFER_SIZE THEN 0
                          ELSE producer_index + 1
    BY <2>1, NextPlaceWraps DEF TypeOK
  <2>6. producer_index' = Wrap(Occupied)'
    BY <1>0, <2>1, <2>3, <2>4, <2>5 DEF Contents, Wrap
  <2>7. ASSUME NEW d \in 0 .. (Occupied' - 1)
        PROVE  buffer'[Wrap(d)'] = produced'[Len(consumed') + d + 1]
    <3>1. Wrap(d)' = Wrap(d)
      BY <2>1 DEF Wrap
    <3>2. CASE d = Occupied
      <4>1. Wrap(d) = producer_index
        BY <3>2 DEF Contents
      <4>2. buffer'[producer_index] = data
        BY <2>1 DEF TypeOK
      <4>3. Len(consumed') + d + 1 = Len(produced) + 1
        BY <1>0, <2>1, <3>2 DEF Occupied
      <4>4. QED BY <2>2, <3>1, <4>1, <4>2, <4>3
    <3>3. CASE d < Occupied
      <4>1. Wrap(d) # producer_index /\ Wrap(d) \in Places
        BY <1>0, <2>3, <3>3 DEF Contents, Wrap, Places
      <4>2. buffer'[Wrap(d)] = buffer[Wrap(d)]
        BY <2>1, <4>1 DEF TypeOK
      <4>3. buffer[Wrap(d)] = produced[Len(consumed) + d + 1]
        BY <2>3, <3>3 DEF Contents
      <4>4. Len(consumed) + d + 1 \in 1 .. Len(produced)
        BY <1>0, <3>3 DEF Occupied
      <4>5. QED BY <2>1, <2>2, <3>1, <4>2, <4>3, <4>4
    <3>4. QED BY <2>3, <2>4, <3>2, <3>3
  <2>8. QED BY <2>6, <2>7 DEF Contents
<1>3. CASE ConsumerRead
  <2>1. /\ UNCHANGED <<buffer, producer_index, produced>>
        /\ consumer_index' = NextPlace(consumer_index)
    BY <1>3 DEF ConsumerRead
  <2>2. Len(consumed') = Len(consumed) + 1
    BY <1>3 DEF ConsumerRead, TypeOK
  <2>3. 1 <= Occupied /\ Occupied <= BUFFER_SIZE /\ Occupied \in Int
    BY <1>0, <1>3 DEF ConsumerRead, Counting, Claim, Holding, Occupied
  <2>4. Occupied' = Occupied - 1
    BY <1>0, <2>1, <2>2 DEF Occupied
  <2>5. consumer_index' = IF consumer_index + 1 = BUFFER_SIZE THEN 0
                          ELSE consumer_index + 1
    BY <2>1, NextPlaceWraps DEF TypeOK
  <2>6. \A d \in 0 .. (BUFFER_SIZE - 1) : Wrap(d)' = Wrap(d + 1)
    BY <1>0, <2>5 DEF Wrap
  <2>7. producer_index' = Wrap(Occupied)'
    <3>1. Wrap(Occupied)' = Wrap(Occupied)
      BY <1>0, <2>3, <2>4, <2>5 DEF Wrap
    <3>2. QED BY <2>1, <3>1 DEF Contents
  <2>8. ASSUME NEW d \in 0 .. (Occupied' - 1)
        PROVE  buffer'[Wrap(d)'] = produced'[Len(consumed') + d + 1]
    <3>1. d + 1 \in 0 .. (Occupied - 1) /\ d \in 0 .. (BUFFER_SIZE - 1)
      BY <2>3, <2>4
    <3>2. buffer[Wrap(d + 1)] = produced[Len(consumed) + (d + 1) + 1]
      BY <3>1 DEF Contents
    <3>3. Len(consumed') + d + 1 = Len(consumed) + (d + 1) + 1
      BY <1>0, <2>2, <3>1
    <3>4. QED BY <2>1, <2>6, <3>1, <3>2, <3>3
  <2>9. QED BY <2>7, <2>8 DEF Contents
<1>4. QED
  BY <1>1, <1>2, <1>3
  DEF Next, producer_consumer_init, producer_task, consumer_task, vars,
      CreateSems, CreateProducer, CreateConsumer, ProducerWait,
      ProducerRelease, ConsumerWait,
      ConsumerRelease

\* The ring invariant holds in every reachable state.
THEOREM RingInvariant == Spec => []RingInv
<1>1. RingInv /\ [Next]_vars => RingInv'
  BY TypeStep, CountingStep, ContentsStep DEF RingInv
<1>2. QED BY <1>1, InitRing, PTL DEF Spec

\* Every reachable state of the two tasks is well typed: no index leaves the
\* ring and no semaphore its maximum.
THEOREM RingTypeCorrect == Spec => []TypeOK
<1>1. RingInv => TypeOK
  BY DEF RingInv
<1>2. QED BY <1>1, RingInvariant, PTL

-----------------------------------------------------------------------------
\* Every step of the tasks is a put, a get or a stutter of the channel.
LEMMA ChannelStep ==
    RingInv /\ [Next]_vars => [Channel!ChannelNext]_(Channel!chanVars)
<1> SUFFICES ASSUME RingInv, [Next]_vars
             PROVE  Channel!ChannelNext \/ UNCHANGED hist
  BY DEF Channel!chanVars
<1> USE RingAssumption
<1>0. /\ Len(produced) \in Nat /\ Len(consumed) \in Nat
      /\ empty_sem \in Int /\ full_sem \in Int
      /\ empty_sem >= 0 /\ full_sem >= 0
      /\ consumer_index \in Int /\ 0 <= consumer_index
      /\ consumer_index < BUFFER_SIZE
  BY DEF RingInv, TypeOK, Places
<1>1. CASE ProducerWrite
  <2>1. Len(produced) < Len(consumed) + BUFFER_SIZE
    BY <1>0, <1>1
    DEF ProducerWrite, RingInv, Counting, Claim, Holding, Occupied
  <2>2. data \in Chars
    BY DEF RingInv, TypeOK
  <2>3. Channel!Put(data)
    BY <1>1, <2>1 DEF ProducerWrite, Channel!Put
  <2>4. QED BY <2>2, <2>3 DEF Channel!ChannelNext
<1>2. CASE ConsumerRead
  <2>1. Occupied >= 1 /\ Occupied \in Int
    BY <1>0, <1>2
    DEF ConsumerRead, RingInv, Counting, Claim, Holding, Occupied
  <2>2. Wrap(0) = consumer_index
    BY <1>0 DEF Wrap
  <2>3. buffer[consumer_index] = produced[Len(consumed) + 1]
    <3>1. buffer[Wrap(0)] = produced[Len(consumed) + 0 + 1]
      BY <2>1 DEF RingInv, Contents
    <3>2. QED BY <1>0, <2>2, <3>1
  <2>4. Channel!Get
    BY <1>0, <1>2, <2>1, <2>3 DEF ConsumerRead, Channel!Get, Occupied
  <2>5. QED BY <2>4 DEF Channel!ChannelNext
<1>3. QED
  BY <1>1, <1>2
  DEF Next, producer_consumer_init, producer_task, consumer_task, vars,
      CreateSems, CreateProducer, CreateConsumer, ProducerWait,
      ProducerRelease, ConsumerWait,
      ConsumerRelease

\* The producer and consumer tasks implement the bounded channel, for every
\* ring size.
THEOREM RingImplementsChannel == Spec => ImplementsChannel
<1>1. Init => Channel!ChannelInit
  BY DEF Init, Channel!ChannelInit
<1>2. QED
  BY <1>1, ChannelStep, RingInvariant, PTL
  DEF Spec, ImplementsChannel, Channel!ChannelSpec

-----------------------------------------------------------------------------
(* Nobody waits for ever while there is something to do.                   *)

\* As long as there are semaphores they promise exactly what the ring has.
CountingExact ==
    init_pc \in {"producer", "consumer", "started"} =>
        /\ full_sem + Claim(c_pc, "read") + Holding(p_pc) = Occupied
        /\ empty_sem + Claim(p_pc, "write") + Holding(c_pc) = BUFFER_SIZE - Occupied
        /\ init_pc = "producer" => p_pc = "none"
        /\ init_pc # "started" => c_pc = "none"

\* No wake-up is lost: a consumer that waits while there is a character is or will be
\* woken by a release that is due, and so is a producer that waits while there is room.
NoLostWakeup ==
    init_pc \in {"producer", "consumer", "started"} =>
        /\ c_pc = "wait" /\ Occupied > 0 => full_sem > 0 \/ p_pc = "release"
        /\ p_pc = "wait" /\ Occupied < BUFFER_SIZE => empty_sem > 0 \/ c_pc = "release"

\* No step makes a semaphore promise less than the ring has, a release at the
\* semaphore's maximum included: it does not come to that.
LEMMA CountingExactStep ==
    TypeOK /\ Counting /\ CountingExact /\ [Next]_vars => CountingExact'
<1> DEFINE Live == init_pc \in {"producer", "consumer", "started"}
<1> SUFFICES ASSUME TypeOK, Counting, CountingExact, [Next]_vars PROVE CountingExact'
  OBVIOUS
<1> USE RingAssumption DEF Counting, CountingExact, Occupied, Claim, Holding
<1>0. /\ Len(produced) \in Nat /\ Len(consumed) \in Nat
      /\ empty_sem \in Int /\ full_sem \in Int
      /\ empty_sem >= 0 /\ full_sem >= 0
  BY DEF TypeOK
<1>1. CASE CreateSems
  <2>1. Len(produced) = 0 /\ Len(consumed) = 0
    BY <1>1 DEF CreateSems
  <2> QED
    BY <1>0, <1>1, <2>1 DEF CreateSems
<1>2. CASE CreateProducer
  BY <1>0, <1>2 DEF CreateProducer
<1>3. CASE CreateConsumer
  BY <1>0, <1>3 DEF CreateConsumer
<1>4. CASE ProducerWait
  BY <1>0, <1>4 DEF ProducerWait
<1>5. CASE ProducerWrite
  <2>1. /\ Len(produced') = Len(produced) + 1 /\ p_pc = "write" /\ p_pc' = "release"
        /\ UNCHANGED <<empty_sem, full_sem, init_pc, c_pc, consumed>>
    BY <1>5 DEF ProducerWrite, TypeOK
  <2> QED
    BY <1>0, <2>1
<1>6. CASE ProducerRelease
  <2>1. /\ p_pc = "release" /\ p_pc' = "wait"
        /\ UNCHANGED <<empty_sem, init_pc, c_pc, produced, consumed>>
    BY <1>6 DEF ProducerRelease
  <2>2. Live => full_sem' = full_sem + 1
    <3>1. full_sem + 1 <= Occupied /\ Occupied <= BUFFER_SIZE
      BY <1>0, <2>1
    <3>2. full_sem < BUFFER_SIZE
      BY <1>0, <3>1
    <3> QED
      BY <1>6, <3>2 DEF ProducerRelease, qosa_sem_release, SemsLive
  <2> QED
    BY <1>0, <2>1, <2>2
<1>7. CASE ConsumerWait
  BY <1>0, <1>7 DEF ConsumerWait
<1>8. CASE ConsumerRead
  <2>1. /\ Len(consumed') = Len(consumed) + 1 /\ c_pc = "read" /\ c_pc' = "release"
        /\ UNCHANGED <<empty_sem, full_sem, init_pc, p_pc, produced>>
    BY <1>8 DEF ConsumerRead, TypeOK
  <2> QED
    BY <1>0, <2>1
<1>9. CASE ConsumerRelease
  BY <1>0, <1>9 DEF ConsumerRelease, qosa_sem_release, SemsLive
<1>10. CASE UNCHANGED vars
  BY <1>10 DEF vars
<1> QED
  BY <1>1, <1>2, <1>3, <1>4, <1>5, <1>6, <1>7, <1>8, <1>9, <1>10
  DEF Next, producer_consumer_init, producer_task, consumer_task

\* Neither task waits on a semaphore while the ring has what it waits for, unless the
\* other one is about to release it: what makes every character be read.
THEOREM RingWakesUp == Spec => []NoLostWakeup
<1>1. Init => CountingExact
  BY DEF Init, CountingExact
<1>2. RingInv /\ CountingExact /\ [Next]_vars => CountingExact'
  BY CountingExactStep DEF RingInv
<1>3. ASSUME RingInv, CountingExact PROVE NoLostWakeup
  <2>1. /\ Len(produced) \in Nat /\ Len(consumed) \in Nat
        /\ empty_sem \in Nat /\ full_sem \in Nat /\ BUFFER_SIZE \in Nat
        /\ p_pc \in {"none", "wait", "write", "release"}
        /\ c_pc \in {"none", "wait", "read", "release"}
    BY <1>3, RingAssumption DEF RingInv, TypeOK
  <2> QED
    BY <1>3, <2>1 DEF NoLostWakeup, CountingExact, Occupied, Claim, Holding
<1> QED
  BY <1>1, <1>2, <1>3, RingInvariant, PTL DEF Spec

HIDE DEF prodVars, consVars, hist

-----------------------------------------------------------------------------
(* The connection pool.                                                    *)

\* The tasks beyond a place are finitely many.
LEMMA BeyondFinite ==
    ASSUME NEW k
    PROVE  IsFiniteSet(Beyond(k)) /\ Cardinality(Beyond(k)) \in Nat
<1>1. Beyond(k) \in SUBSET Tasks
  BY DEF Beyond
<1>2. IsFiniteSet(Beyond(k))
  BY <1>1, FS_Subset, PoolAssumption
<1> QED
  BY <1>2, FS_CardinalityType

\* No scan passes the last connection: nobody comes as far as the place after it.
LEMMA ScanStays ==
    ASSUME PoolInv
    PROVE  ScanNeverFails
<1>1. Cardinality(Beyond(MAX_CONNECTIONS)) <= 0
  BY PoolAssumption DEF PoolInv
<1>2. Beyond(MAX_CONNECTIONS) = {}
  BY <1>1, BeyondFinite, FS_EmptySet
<1>3. ASSUME NEW t \in Tasks, pool_pc[t] = "scan", ~(conn[t] < MAX_CONNECTIONS)
      PROVE  FALSE
  <2>1. conn[t] \in 0 .. MAX_CONNECTIONS
    BY DEF PoolInv, PoolTypeOK
  <2>2. t \in Beyond(MAX_CONNECTIONS)
    BY <1>3, <2>1, PoolAssumption DEF Beyond
  <2> QED
    BY <1>2, <2>2
<1> QED
  BY <1>3 DEF ScanNeverFails

\* The pool starts with every permit at hand and every slot free.
LEMMA PoolStart ==
    ASSUME PoolInit
    PROVE  PoolInv
<1>1. \A k : Beyond(k) = {}
  BY DEF PoolInit, Beyond
<1>2. \A k : Cardinality(Beyond(k)) = 0
  BY <1>1, FS_EmptySet
<1>3. PoolTypeOK
  BY PoolAssumption DEF PoolInit, PoolTypeOK
<1>4. BusyIsUsed
  BY DEF PoolInit, BusyIsUsed
<1> QED
  BY <1>2, <1>3, <1>4, PoolAssumption DEF PoolInit, PoolInv

\* A step that changes nobody's place keeps the counting.
LEMMA SamePlaces ==
    ASSUME PoolInv, connection_sem' = connection_sem, \A k : Beyond(k)' = Beyond(k)
    PROVE  /\ connection_sem' + Cardinality(Beyond(0)') = MAX_CONNECTIONS
           /\ \A k \in 0 .. MAX_CONNECTIONS :
                 Cardinality(Beyond(k)') <= MAX_CONNECTIONS - k
BY DEF PoolInv

\* Creation, a wait that times out, a scan that finds an idle connection.
LEMMA QuietStep ==
    ASSUME PoolInv, NEW t \in Tasks, CreateTask(t) \/ WaitTimeout(t) \/ ScanIdle(t)
    PROVE  PoolInv'
<1>1. PoolTypeOK'
  BY PoolAssumption DEF PoolInv, PoolTypeOK, CreateTask, WaitTimeout, ScanIdle, Goto, NextRound
<1>2. BusyIsUsed'
  BY DEF PoolInv, PoolTypeOK, BusyIsUsed, CreateTask, WaitTimeout, ScanIdle, Goto, NextRound
<1>3. \A u \in Tasks : pool_pc'[u] # "done" => round'[u] < Rounds
  BY PoolAssumption DEF PoolInv, PoolTypeOK, CreateTask, WaitTimeout, ScanIdle, Goto, NextRound
<1>4. \A k : Beyond(k)' = Beyond(k)
  BY DEF PoolInv, PoolTypeOK, Beyond, CreateTask, WaitTimeout, ScanIdle, Goto, NextRound
<1>5. connection_sem' = connection_sem
  BY DEF CreateTask, WaitTimeout, ScanIdle
<1> QED
  BY <1>1, <1>2, <1>3, <1>4, <1>5, SamePlaces DEF PoolInv

\* The task that gets the semaphore starts at the first connection.
LEMMA WaitStep ==
    ASSUME PoolInv, NEW t \in Tasks, WaitConnection(t)
    PROVE  PoolInv'
<1>1. PoolTypeOK'
  BY PoolAssumption DEF PoolInv, PoolTypeOK, WaitConnection, Goto
<1>2. BusyIsUsed'
  BY DEF PoolInv, PoolTypeOK, BusyIsUsed, WaitConnection, Goto
<1>3. \A u \in Tasks : pool_pc'[u] # "done" => round'[u] < Rounds
  BY DEF PoolInv, PoolTypeOK, WaitConnection, Goto
<1>4. Beyond(0)' = Beyond(0) \cup {t} /\ t \notin Beyond(0)
  BY DEF PoolInv, PoolTypeOK, Beyond, WaitConnection, Goto
<1>5. Cardinality(Beyond(0)') = Cardinality(Beyond(0)) + 1
  BY <1>4, BeyondFinite, FS_AddElement
<1>6. \A k \in 1 .. MAX_CONNECTIONS : Beyond(k)' = Beyond(k)
  BY PoolAssumption DEF PoolInv, PoolTypeOK, Beyond, WaitConnection, Goto
<1>7. connection_sem' + Cardinality(Beyond(0)') = MAX_CONNECTIONS
  BY <1>5, BeyondFinite, PoolAssumption DEF PoolInv, PoolTypeOK, WaitConnection
<1>8. \A k \in 0 .. MAX_CONNECTIONS : Cardinality(Beyond(k)') <= MAX_CONNECTIONS - k
  <2>1. Cardinality(Beyond(0)') <= MAX_CONNECTIONS - 0
    BY <1>1, <1>5, <1>7, BeyondFinite, PoolAssumption DEF PoolTypeOK
  <2> QED
    BY <1>6, <2>1, PoolAssumption DEF PoolInv
<1> QED
  BY <1>1, <1>2, <1>3, <1>7, <1>8 DEF PoolInv

\* The task that passes a connection leaves its user behind.
LEMMA ScanStep ==
    ASSUME PoolInv, NEW t \in Tasks, ScanBusy(t)
    PROVE  PoolInv'
<1>1. PICK c \in 0 .. MAX_CONNECTIONS - 1 : c = conn[t]
  BY ScanStays, PoolAssumption DEF ScanNeverFails, ScanBusy, PoolInv, PoolTypeOK
<1>2. PoolTypeOK'
  BY <1>1, PoolAssumption DEF PoolInv, PoolTypeOK, ScanBusy
<1>3. BusyIsUsed'
  BY DEF PoolInv, PoolTypeOK, BusyIsUsed, ScanBusy
<1>4. \A u \in Tasks : pool_pc'[u] # "done" => round'[u] < Rounds
  BY DEF PoolInv, PoolTypeOK, ScanBusy
<1>5. \A k \in 0 .. MAX_CONNECTIONS : k # c + 1 => Beyond(k)' = Beyond(k)
  BY <1>1, PoolAssumption DEF PoolInv, PoolTypeOK, Beyond, ScanBusy
<1>6. PICK u \in Tasks : pool_pc[u] = "use" /\ conn[u] = c
  BY <1>1 DEF PoolInv, BusyIsUsed, ScanBusy, Conns
<1>7. Beyond(c + 1)' \in SUBSET (Beyond(c) \ {u})
  BY <1>1, <1>6, PoolAssumption DEF PoolInv, PoolTypeOK, Beyond, ScanBusy
<1>8. u \in Beyond(c)
  BY <1>1, <1>6 DEF Beyond
<1>9. Cardinality(Beyond(c + 1)') <= MAX_CONNECTIONS - (c + 1)
  <2>1. IsFiniteSet(Beyond(c) \ {u}) /\ Cardinality(Beyond(c) \ {u}) = Cardinality(Beyond(c)) - 1
    BY <1>8, BeyondFinite, FS_RemoveElement
  <2>2. Cardinality(Beyond(c + 1)') <= Cardinality(Beyond(c) \ {u})
    BY <1>7, <2>1, FS_Subset
  <2>3. IsFiniteSet(Beyond(c + 1)') /\ Cardinality(Beyond(c + 1)') \in Nat
    BY <1>7, <2>1, FS_Subset, FS_CardinalityType
  <2>4. Cardinality(Beyond(c)) <= MAX_CONNECTIONS - c
    BY <1>1, PoolAssumption DEF PoolInv
  <2> QED
    BY <1>1, <2>1, <2>2, <2>3, <2>4, BeyondFinite, PoolAssumption
<1>10. \A k \in 0 .. MAX_CONNECTIONS : Cardinality(Beyond(k)') <= MAX_CONNECTIONS - k
  <2> SUFFICES ASSUME NEW k \in 0 .. MAX_CONNECTIONS
               PROVE  Cardinality(Beyond(k)') <= MAX_CONNECTIONS - k
    OBVIOUS
  <2>1. CASE k = c + 1
    BY <1>9, <2>1
  <2>2. CASE k # c + 1
    BY <1>5, <2>2 DEF PoolInv
  <2> QED
    BY <2>1, <2>2
<1>11. connection_sem' + Cardinality(Beyond(0)') = MAX_CONNECTIONS
  <2>1. Beyond(0)' = Beyond(0)
    BY <1>1, <1>5, PoolAssumption
  <2> QED
    BY <2>1 DEF PoolInv, ScanBusy
<1> QED
  BY <1>2, <1>3, <1>4, <1>10, <1>11 DEF PoolInv

\* Marking changes nobody's place.  Whoever marks a connection busy uses it.
LEMMA MarkStep ==
    ASSUME PoolInv, NEW t \in Tasks, MarkBusy(t) \/ MarkIdle(t)
    PROVE  PoolInv'
<1>1. PoolTypeOK'
  BY PoolAssumption DEF PoolInv, PoolTypeOK, MarkBusy, MarkIdle, Goto
<1>2. BusyIsUsed'
  <2> SUFFICES ASSUME NEW c \in Conns, status'[c] = "busy"
               PROVE  \E u \in Tasks : pool_pc'[u] = "use" /\ conn'[u] = c
    BY DEF BusyIsUsed
  <2>1. CASE MarkBusy(t) /\ conn[t] = c
    BY <2>1 DEF PoolInv, PoolTypeOK, MarkBusy, Goto
  <2>2. CASE conn[t] # c
    <3>1. status[c] = "busy"
      BY <2>2 DEF PoolInv, PoolTypeOK, MarkBusy, MarkIdle
    <3>2. PICK u \in Tasks : pool_pc[u] = "use" /\ conn[u] = c
      BY <3>1 DEF PoolInv, BusyIsUsed
    <3> QED
      BY <2>2, <3>2 DEF PoolInv, PoolTypeOK, MarkBusy, MarkIdle, Goto
  <2>3. ~(MarkIdle(t) /\ conn[t] = c)
    BY DEF PoolInv, PoolTypeOK, MarkIdle
  <2> QED
    BY <2>1, <2>2, <2>3
<1>3. \A u \in Tasks : pool_pc'[u] # "done" => round'[u] < Rounds
  BY DEF PoolInv, PoolTypeOK, MarkBusy, MarkIdle, Goto
<1>4. \A k : Beyond(k)' = Beyond(k)
  BY DEF PoolInv, PoolTypeOK, Beyond, MarkBusy, MarkIdle, Goto
<1>5. connection_sem' = connection_sem
  BY DEF MarkBusy, MarkIdle
<1> QED
  BY <1>1, <1>2, <1>3, <1>4, <1>5, SamePlaces DEF PoolInv

\* The semaphore that is given back was held, so that it has room for the count.
LEMMA ReleaseStep ==
    ASSUME PoolInv, NEW t \in Tasks, ReleaseSem(t)
    PROVE  PoolInv'
<1>1. t \in Beyond(0)
  BY PoolAssumption DEF PoolInv, PoolTypeOK, ReleaseSem, Beyond
<1>2. Cardinality(Beyond(0)) \in Nat \ {0}
  BY <1>1, BeyondFinite, FS_EmptySet
<1>3. connection_sem' = connection_sem + 1
  BY <1>2, PoolAssumption DEF PoolInv, PoolTypeOK, ReleaseSem
<1>4. PoolTypeOK'
  <2>1. connection_sem' \in 0 .. MAX_CONNECTIONS
    BY <1>2, <1>3, PoolAssumption DEF PoolInv, PoolTypeOK
  <2> QED
    BY <2>1, PoolAssumption DEF PoolInv, PoolTypeOK, ReleaseSem, NextRound, Goto
<1>5. BusyIsUsed'
  BY DEF PoolInv, PoolTypeOK, BusyIsUsed, ReleaseSem, NextRound, Goto
<1>6. \A u \in Tasks : pool_pc'[u] # "done" => round'[u] < Rounds
  BY PoolAssumption DEF PoolInv, PoolTypeOK, ReleaseSem, NextRound, Goto
<1>7. \A k : Beyond(k)' = Beyond(k) \ {t}
  BY DEF PoolInv, PoolTypeOK, Beyond, ReleaseSem, NextRound, Goto
<1>8. connection_sem' + Cardinality(Beyond(0)') = MAX_CONNECTIONS
  <2>1. Cardinality(Beyond(0)') = Cardinality(Beyond(0)) - 1
    BY <1>1, <1>7, BeyondFinite, FS_RemoveElement
  <2> QED
    BY <1>2, <1>3, <2>1, PoolAssumption DEF PoolInv, PoolTypeOK
<1>9. \A k \in 0 .. MAX_CONNECTIONS : Cardinality(Beyond(k)') <= MAX_CONNECTIONS - k
  <2> SUFFICES ASSUME NEW k \in 0 .. MAX_CONNECTIONS
               PROVE  Cardinality(Beyond(k)') <= MAX_CONNECTIONS - k
    OBVIOUS
  <2>1. Cardinality(Beyond(k)') \in Nat /\ Cardinality(Beyond(k)') <= Cardinality(Beyond(k))
    BY <1>7, BeyondFinite, FS_Subset, FS_CardinalityType
  <2> QED
    BY <2>1, BeyondFinite, PoolAssumption DEF PoolInv
<1> QED
  BY <1>4, <1>5, <1>6, <1>8, <1>9 DEF PoolInv

\* Every step of main and of the tasks keeps the pool's invariant.
LEMMA PoolStep ==
    ASSUME PoolInv, [PoolNext]_poolVars
    PROVE  PoolInv'
<1>1. ASSUME NEW t \in Tasks, CreateTask(t) \/ db_task(t) PROVE PoolInv'
  BY <1>1, QuietStep, WaitStep, ScanStep, MarkStep, ReleaseStep
  DEF db_task, acquire_connection, release_connection
<1>2. CASE UNCHANGED poolVars
  <2>1. \A k : Beyond(k)' = Beyond(k)
    BY <1>2 DEF poolVars, Beyond
  <2> QED
    BY <1>2, <2>1, SamePlaces DEF poolVars, PoolInv, PoolTypeOK, BusyIsUsed
<1> QED
  BY <1>1, <1>2 DEF PoolNext

\* For any number of connections and tasks: the counts, places and statuses of the
\* connection pool satisfy the inductive invariant.
THEOREM PoolInvariant == PoolSpec => []PoolInv
<1>1. PoolInit => PoolInv
  BY PoolStart
<1>2. PoolInv /\ [PoolNext]_poolVars => PoolInv'
  BY PoolStep
<1> QED
  BY <1>1, <1>2, PTL DEF PoolSpec

\* The types of the connection pool, for any number of connections and tasks.
THEOREM PoolTypeCorrect == PoolSpec => []PoolTypeOK
<1>1. PoolInv => PoolTypeOK
  BY DEF PoolInv
<1> QED
  BY <1>1, PoolInvariant, PTL

\* acquire_connection never comes to the comment "Should not get here".
THEOREM PoolScanNeverFails == PoolSpec => []ScanNeverFails
<1>1. PoolInv => ScanNeverFails
  BY ScanStays
<1> QED
  BY <1>1, PoolInvariant, PTL

\* When all tasks have ended, the semaphore is at its maximum and every connection
\* idle, whatever races there were between look and mark.
THEOREM PoolIsRestored == PoolSpec => []PoolRestored
<1>1. ASSUME PoolInv, \A t \in Tasks : pool_pc[t] = "done"
      PROVE  connection_sem = MAX_CONNECTIONS /\ \A c \in Conns : status[c] = "idle"
  <2>1. Beyond(0) = {}
    BY <1>1 DEF Beyond
  <2>2. connection_sem = MAX_CONNECTIONS
    <3>1. Cardinality(Beyond(0)) = 0
      BY <2>1, FS_EmptySet
    <3> QED
      BY <1>1, <3>1, PoolAssumption DEF PoolInv, PoolTypeOK
  <2>3. \A c \in Conns : status[c] = "idle"
    BY <1>1 DEF PoolInv, PoolTypeOK, BusyIsUsed
  <2> QED
    BY <2>2, <2>3
<1>2. PoolInv => PoolRestored
  BY <1>1 DEF PoolRestored
<1> QED
  BY <1>2, PoolInvariant, PTL

-----------------------------------------------------------------------------
(* The semaphore demo.                                                     *)

\* The semaphore demo starts within its invariant.
LEMMA SemStart ==
    ASSUME SemInit
    PROVE  SemInv
<1>1. SemTypeOK /\ SemPlaces
  BY SemAssumption DEF SemInit, SemTypeOK, SemPlaces
<1>2. Exclusive
  BY DEF SemInit, Exclusive, SemInside
<1> QED
  BY <1>1, <1>2 DEF SemInv, SemInit, SemCounts

\* A thread that waits is let in alone, or finds no semaphore; one that finds none
\* was let wait by a program that has ended.
LEMMA SemWaitStep ==
    ASSUME SemInv, NEW t \in SemThreads, SemWait(t)
    PROVE  SemInv'
<1>1. stpc[t] = "wait" /\ done[t] < SemRounds /\ done[t] \in Nat
  BY SemAssumption DEF SemWait, SemInv, SemPlaces, SemTypeOK
<1>2. UNCHANGED <<sem_main, looks, threads, shared_resource, temp, writes>>
  BY DEF SemWait
<1>3. CASE /\ global_sem = "free" /\ global_sem' = "taken"
           /\ stpc' = [stpc EXCEPT ![t] = "read"] /\ UNCHANGED done
  <2>1. SemTypeOK'
    BY <1>2, <1>3 DEF SemInv, SemTypeOK
  <2>2. SemPlaces'
    BY <1>1, <1>2, <1>3 DEF SemInv, SemTypeOK, SemPlaces
  <2>3. sem_main # "ended" => Exclusive'
    <3>1. sem_main # "ended" => SemInside' = {t}
      BY <1>3 DEF SemInv, SemTypeOK, Exclusive, SemInside
    <3> QED
      BY <1>2, <1>3, <3>1 DEF SemInv, SemTypeOK, Exclusive
  <2> QED
    BY <1>2, <2>1, <2>2, <2>3 DEF SemInv, SemCounts
<1>4. CASE global_sem = "gone" /\ UNCHANGED global_sem
  <2>1. sem_main = "ended"
    BY <1>1, <1>4 DEF SemInv, SemPlaces
  <2>2. /\ stpc' \in {[stpc EXCEPT ![t] = p] : p \in {"read", "wait", "ended"}}
        /\ \/ done' = done
           \/ done' = [done EXCEPT ![t] = @ + 1] /\ (stpc'[t] = "wait" => done'[t] # SemRounds)
              /\ stpc'[t] \in {"wait", "ended"}
    BY <1>1, <1>4 DEF SemWait, SemInv, SemTypeOK
  <2>3. SemTypeOK'
    BY <1>1, <1>2, <1>4, <2>2, SemAssumption DEF SemInv, SemTypeOK
  <2>4. SemPlaces'
    BY <1>1, <1>2, <1>4, <2>1, <2>2, SemAssumption DEF SemInv, SemTypeOK, SemPlaces
  <2> QED
    BY <1>2, <2>1, <2>3, <2>4 DEF SemInv, SemCounts
<1> QED
  BY <1>3, <1>4 DEF SemWait

\* The value a thread reads is the counter's until it writes: nobody else is inside.
LEMMA SemReadStep ==
    ASSUME SemInv, NEW t \in SemThreads, SemRead(t)
    PROVE  SemInv'
<1>1. /\ stpc[t] = "read" /\ stpc' = [stpc EXCEPT ![t] = "write"]
      /\ temp' = [temp EXCEPT ![t] = shared_resource]
      /\ UNCHANGED <<sem_main, looks, threads, shared_resource, global_sem, done, writes>>
  BY DEF SemRead
<1>2. SemTypeOK'
  BY <1>1 DEF SemInv, SemTypeOK
<1>3. SemPlaces'
  BY <1>1 DEF SemInv, SemTypeOK, SemPlaces
<1>4. SemInside' = SemInside
  BY <1>1 DEF SemInside, SemInv, SemTypeOK
<1>5. sem_main # "ended" => Exclusive'
  BY <1>1, <1>4 DEF Exclusive, SemInv, SemTypeOK
<1> QED
  BY <1>1, <1>2, <1>3, <1>5 DEF SemInv, SemCounts

\* The write of a thread that holds the permit counts its own increment.
LEMMA SemWriteStep ==
    ASSUME SemInv, NEW t \in SemThreads, SemWrite(t)
    PROVE  SemInv'
<1>1. /\ stpc[t] = "write" /\ stpc' = [stpc EXCEPT ![t] = "release"]
      /\ shared_resource' = temp[t] + 1 /\ writes' = writes + 1
      /\ UNCHANGED <<sem_main, looks, threads, global_sem, done, temp>>
  BY DEF SemWrite
<1>2. SemTypeOK'
  BY <1>1 DEF SemInv, SemTypeOK
<1>3. SemPlaces'
  BY <1>1 DEF SemInv, SemTypeOK, SemPlaces
<1>4. SemInside' = SemInside
  BY <1>1 DEF SemInside, SemInv, SemTypeOK
<1>5. sem_main # "ended" => Exclusive'
  <2>1. ASSUME sem_main # "ended", NEW s \in SemThreads, stpc'[s] = "write" PROVE FALSE
    <3>1. s # t /\ stpc[s] = "write"
      BY <1>1, <2>1 DEF SemInv, SemTypeOK
    <3>2. s \in SemInside /\ t \in SemInside
      BY <1>1, <3>1 DEF SemInside
    <3> QED
      BY <2>1, <3>1, <3>2 DEF SemInv, Exclusive
  <2> QED
    BY <1>1, <1>4, <2>1 DEF Exclusive, SemInv
<1>6. SemCounts'
  BY <1>1 DEF SemInv, SemCounts, Exclusive
<1> QED
  BY <1>1, <1>2, <1>3, <1>5, <1>6 DEF SemInv

\* The thread that releases the semaphore was the only one inside.
LEMMA SemReleaseStep ==
    ASSUME SemInv, NEW t \in SemThreads, SemRelease(t)
    PROVE  SemInv'
<1>1. /\ stpc[t] = "release" /\ done[t] < SemRounds /\ done[t] \in Nat
      /\ global_sem' = IF global_sem = "gone" THEN "gone" ELSE "free"
      /\ done' = [done EXCEPT ![t] = @ + 1]
      /\ stpc' = [stpc EXCEPT ![t] = IF done'[t] = SemRounds THEN "ended" ELSE "wait"]
      /\ UNCHANGED <<sem_main, looks, threads, shared_resource, temp, writes>>
  BY SemAssumption DEF SemRelease, SemInv, SemPlaces, SemTypeOK
<1>2. SemTypeOK'
  BY <1>1, SemAssumption DEF SemInv, SemTypeOK
<1>3. SemPlaces'
  BY <1>1, SemAssumption DEF SemInv, SemTypeOK, SemPlaces
<1>4. sem_main # "ended" => SemInside' = {}
  BY <1>1 DEF SemInv, SemTypeOK, SemInside, Exclusive
<1>5. sem_main # "ended" => Exclusive'
  BY <1>1, <1>4 DEF Exclusive, SemInside, SemInv, SemTypeOK
<1> QED
  BY <1>1, <1>2, <1>3, <1>5 DEF SemInv, SemCounts

\* A thread that is deleted leaves the inside without giving the semaphore back.
LEMMA SemCleanupStep ==
    ASSUME SemInv, NEW t \in SemThreads, cleanup_task_handle(t)
    PROVE  SemInv'
<1>1. /\ sem_main \in {"cleanup", "abort"}
      /\ threads' = threads \ {t}
      /\ \/ stpc' = [stpc EXCEPT ![t] = "killed"] /\ stpc[t] # "ended"
         \/ UNCHANGED stpc
      /\ UNCHANGED <<sem_main, looks, shared_resource, global_sem, done, temp, writes>>
  BY DEF cleanup_task_handle
<1>2. SemTypeOK'
  BY <1>1 DEF SemInv, SemTypeOK
<1>3. SemPlaces'
  <2>1. global_sem # "gone"
    BY <1>1 DEF SemInv, SemPlaces
  <2> QED
    BY <1>1, <2>1 DEF SemInv, SemTypeOK, SemPlaces
<1>4. SemInside' \subseteq SemInside
  BY <1>1 DEF SemInv, SemTypeOK, SemInside
<1>5. Exclusive'
  BY <1>1, <1>4 DEF Exclusive, SemInv, SemTypeOK
<1> QED
  BY <1>1, <1>2, <1>3, <1>5 DEF SemInv, SemCounts

\* The rest of the main program touches no thread inside.
LEMMA SemMainStep ==
    ASSUME SemInv,
           \/ test_basic_semaphore \/ test_multi_thread_competition \/ DeleteSem
           \/ \E t \in SemThreads : CreateSemThread(t)
    PROVE  SemInv'
<1>1. UNCHANGED <<shared_resource, done, temp, writes>>
  BY DEF test_basic_semaphore, test_multi_thread_competition, DeleteSem, CreateSemThread
<1>2. CASE test_basic_semaphore
  <2>1. \A t \in SemThreads : stpc[t] = "none"
    BY <1>2 DEF test_basic_semaphore, SemInv, SemPlaces
  <2>2. SemTypeOK' /\ SemPlaces'
    BY <1>2, <2>1, SemAssumption DEF test_basic_semaphore, SemInv, SemTypeOK, SemPlaces
  <2>3. Exclusive'
    BY <1>2, <2>1 DEF test_basic_semaphore, Exclusive, SemInside
  <2> QED
    BY <1>1, <1>2, <2>2, <2>3 DEF test_basic_semaphore, SemInv, SemCounts
<1>3. CASE test_multi_thread_competition
  <2>1. looks' \in 0 .. Patience /\ (sem_main' = "start" => looks' < Patience)
    BY <1>3, SemAssumption DEF test_multi_thread_competition, SemInv, SemTypeOK, SemPlaces
  <2>2. /\ sem_main = "start" /\ sem_main' \in {"start", "cleanup"}
        /\ UNCHANGED <<threads, global_sem, stpc>>
    BY <1>3 DEF test_multi_thread_competition
  <2>3. SemTypeOK' /\ SemPlaces'
    BY <1>1, <2>1, <2>2 DEF SemInv, SemTypeOK, SemPlaces
  <2> QED
    BY <1>1, <2>2, <2>3 DEF SemInv, SemCounts, Exclusive, SemInside
<1>4. CASE DeleteSem
  <2>1. /\ sem_main = "cleanup" /\ UNCHANGED <<looks, threads, stpc>>
        /\ \/ sem_main' = "ended" /\ global_sem' = "gone"
           \/ sem_main' = "failed" /\ UNCHANGED global_sem
    BY <1>4 DEF DeleteSem
  <2>2. SemTypeOK' /\ SemPlaces'
    BY <1>1, <2>1 DEF SemInv, SemTypeOK, SemPlaces
  <2>3. sem_main' # "ended" => Exclusive'
    BY <1>1, <2>1 DEF SemInv, Exclusive, SemInside
  <2> QED
    BY <1>1, <2>1, <2>2, <2>3 DEF SemInv, SemCounts
<1>5. ASSUME NEW t \in SemThreads, CreateSemThread(t) PROVE SemInv'
  <2>1. /\ sem_main = "start" /\ stpc[t] = "none" /\ UNCHANGED <<looks, global_sem>>
        /\ \/ /\ stpc' = [stpc EXCEPT ![t] = "wait"] /\ threads' = threads \union {t}
              /\ UNCHANGED sem_main
           \/ sem_main' = "abort" /\ UNCHANGED <<stpc, threads>>
    BY <1>5 DEF CreateSemThread
  <2>2. SemTypeOK'
    BY <1>1, <2>1 DEF SemInv, SemTypeOK
  <2>3. SemPlaces'
    BY <1>1, <2>1 DEF SemInv, SemTypeOK, SemPlaces
  <2>4. SemInside' = SemInside
    BY <2>1 DEF SemInside, SemInv, SemTypeOK
  <2>5. Exclusive'
    BY <1>1, <2>1, <2>4 DEF SemInv, SemTypeOK, Exclusive
  <2> QED
    BY <1>1, <2>1, <2>2, <2>3, <2>5 DEF SemInv, SemCounts
<1> QED
  BY <1>2, <1>3, <1>4, <1>5

\* Every step of the semaphore demo keeps its invariant, for any number of threads
\* and rounds.
THEOREM SemInvariant == SemSpec => []SemInv
<1>1. SemInit => SemInv
  BY SemStart
<1>2. SemInv /\ [SemNext]_semVars => SemInv'
  <2> SUFFICES ASSUME SemInv, [SemNext]_semVars PROVE SemInv'
    OBVIOUS
  <2>1. CASE osSemaphoreTest_init
    BY <2>1, SemMainStep, SemCleanupStep DEF osSemaphoreTest_init
  <2>2. CASE \E t \in SemThreads : semaphore_test_thread(t)
    BY <2>2, SemWaitStep, SemReadStep, SemWriteStep, SemReleaseStep DEF semaphore_test_thread
  <2>3. CASE UNCHANGED semVars
    BY <2>3 DEF semVars, SemInv, SemTypeOK, SemCounts, SemPlaces, Exclusive, SemInside
  <2> QED
    BY <2>1, <2>2, <2>3 DEF SemNext
<1> QED
  BY <1>1, <1>2, PTL DEF SemSpec

\* The types of the semaphore demo: its count stays within the semaphore's limit.
THEOREM SemTypeCorrect == SemSpec => []SemTypeOK
<1>1. SemInv => SemTypeOK
  BY DEF SemInv
<1> QED
  BY <1>1, SemInvariant, PTL

\* For any number of threads and rounds: no count of the semaphore demo is lost as
\* long as the semaphore exists, wherever its threads are deleted.
THEOREM SemCountsKept == SemSpec => []SemCounts
<1>1. SemInv => SemCounts
  BY DEF SemInv
<1> QED
  BY <1>1, SemInvariant, PTL

-----------------------------------------------------------------------------
(* The mutex demo.                                                         *)

\* The threads that have counted are finitely many.
LEMMA CountedFinite ==
    ASSUME ThreadsOK
    PROVE  /\ IsFiniteSet(Counted) /\ Cardinality(Counted) \in Nat
           /\ NThreads \in Nat
<1>1. Counted \in SUBSET Threads
  BY DEF Counted
<1>2. IsFiniteSet(Counted)
  BY <1>1, FS_Subset DEF ThreadsOK
<1> QED
  BY <1>2, FS_CardinalityType DEF ThreadsOK, NThreads

\* When all but one thread have counted, at most one is left.
LEMMA AllButOne ==
    ASSUME ThreadsOK, Cardinality(Counted) + 1 >= NThreads
    PROVE  OneLeft
<1> DEFINE D == Threads \ Counted
<1>1. Threads \cap Counted = Counted
  BY DEF Counted
<1>2. IsFiniteSet(D) /\ Cardinality(D) = NThreads - Cardinality(Counted)
  BY <1>1, FS_Difference DEF ThreadsOK, NThreads
<1>3. Cardinality(D) <= 1
  BY <1>2, CountedFinite
<1>4. ASSUME NEW s \in D, NEW t \in D, s # t PROVE FALSE
  <2>1. IsFiniteSet({s}) /\ Cardinality({s}) = 1
    BY FS_Singleton
  <2>2. Cardinality({s} \cup {t}) = 2
    BY <2>1, <1>4, FS_AddElement
  <2>3. {s} \cup {t} \in SUBSET D
    OBVIOUS
  <2>4. Cardinality({s} \cup {t}) <= Cardinality(D)
    BY <2>3, <1>2, FS_Subset
  <2>5. Cardinality(D) \in Nat
    BY <1>2, FS_CardinalityType
  <2>6. 2 <= Cardinality(D)
    BY <2>2, <2>4
  <2> HIDE DEF D
  <2> QED
    BY <2>5, <2>6, <1>3
<1> QED
  BY <1>4 DEF OneLeft

\* The threads between their read and their write are one at most.
LEMMA OneInside ==
    ASSUME MutexInv, NEW s \in Threads, NEW t \in Threads,
           tpc[s] \in {"read", "write"}, tpc[t] \in {"read", "write"}
    PROVE  s = t
<1>1. CASE global_mutex # "gone"
  BY <1>1 DEF MutexInv
<1>2. CASE global_mutex = "gone"
  <2>1. main = "ended"
    BY <1>2 DEF MutexInv
  <2>2. s \notin Counted /\ t \notin Counted
    BY DEF Counted
  <2> QED
    BY <2>1, <2>2 DEF MutexInv, OneLeft
<1> QED
  BY <1>1, <1>2

\* The mutex demo starts with nothing counted.
LEMMA MutexStart ==
    ASSUME ThreadsOK, MutexInit
    PROVE  MutexInv
<1>1. Counted = {}
  BY DEF MutexInit, Counted
<1>2. Cardinality(Counted) = 0
  BY <1>1, FS_EmptySet
<1> QED
  BY <1>2 DEF MutexInit, MutexInv, MutexTypeOK, NoLostCount, Own, TwoTasks

\* Steps that leave the counting threads as they are.
LEMMA KeepsCounted ==
    ASSUME UNCHANGED tpc
    PROVE  Counted' = Counted /\ (OneLeft => OneLeft')
BY DEF Counted, OneLeft

\* A step of one thread that neither counts nor forgets a count.
LEMMA SameCounted ==
    ASSUME MutexTypeOK, NEW t \in Threads, NEW p, tpc' = [tpc EXCEPT ![t] = p],
           tpc[t] \in {"unlock", "done"} <=> p \in {"unlock", "done"}
    PROVE  Counted' = Counted /\ (OneLeft => OneLeft')
<1>1. Counted' = Counted
  BY DEF MutexTypeOK, Counted
<1> QED
  BY <1>1 DEF OneLeft

\* The two tasks of the timeout test touch nothing of the counting.
LEMMA TwoTasksStep ==
    ASSUME ThreadsOK, MutexInv, low_priority_task \/ high_priority_task
    PROVE  MutexInv'
<1>1. PICK p \in TwoTasks : TaskLocks(p) \/ TaskUnlocks(p)
  BY DEF low_priority_task, high_priority_task, TwoTasks
<1>2. UNCHANGED <<main, counting>>
  BY <1>1 DEF TaskLocks, TaskUnlocks
<1>3. Counted' = Counted /\ (OneLeft => OneLeft')
  BY <1>2, KeepsCounted DEF counting
<1>4. MutexTypeOK'
  BY <1>1, <1>2 DEF TaskLocks, TaskUnlocks, MutexInv, MutexTypeOK, counting
<1> QED
  BY <1>2, <1>3, <1>4 DEF MutexInv, NoLostCount, Own, counting, NThreads

\* A thread's step counts under the mutex or not at all.
LEMMA ThreadStep ==
    ASSUME ThreadsOK, MutexInv, NEW t \in Threads, mutex_test_thread(t)
    PROVE  MutexInv'
<1> USE DEF timing
<1>1. CASE mutex_test_thread_lock(t)
  <2>1. MutexTypeOK'
    BY <1>1 DEF mutex_test_thread_lock, MutexInv, MutexTypeOK
  <2>2. PICK p \in {"read", "refused"} : tpc' = [tpc EXCEPT ![t] = p]
    BY <1>1 DEF mutex_test_thread_lock
  <2>3. Counted' = Counted /\ (OneLeft => OneLeft')
    BY <1>1, <2>2, SameCounted DEF mutex_test_thread_lock, MutexInv
  <2>4. NoLostCount'
    BY <1>1, <2>3 DEF mutex_test_thread_lock, MutexInv, NoLostCount, Own
  <2>5. global_mutex' # "gone" =>
          \A s \in Threads : tpc'[s] \in {"read", "write", "unlock"} => global_mutex' = s
    BY <1>1 DEF mutex_test_thread_lock, MutexInv, MutexTypeOK, ThreadsOK
  <2> QED
    BY <1>1, <2>1, <2>2, <2>3, <2>4, <2>5
    DEF mutex_test_thread_lock, MutexInv, MutexTypeOK, NThreads, ThreadsOK
<1>2. CASE mutex_test_thread_read(t)
  <2>1. MutexTypeOK'
    BY <1>2 DEF mutex_test_thread_read, MutexInv, MutexTypeOK
  <2>2. Counted' = Counted /\ (OneLeft => OneLeft')
    BY <1>2, SameCounted DEF mutex_test_thread_read, MutexInv
  <2>3. NoLostCount'
    BY <1>2, <2>2 DEF mutex_test_thread_read, MutexInv, NoLostCount, Own
  <2> QED
    BY <1>2, <2>1, <2>2, <2>3 DEF mutex_test_thread_read, MutexInv, MutexTypeOK, NThreads
<1>3. CASE mutex_test_thread_write(t)
  <2>1. MutexTypeOK'
    BY <1>3 DEF mutex_test_thread_write, MutexInv, MutexTypeOK
  <2>2. Counted' = Counted \cup {t} /\ t \notin Counted
    BY <1>3 DEF mutex_test_thread_write, MutexInv, MutexTypeOK, Counted
  <2>3. Cardinality(Counted') = Cardinality(Counted) + 1
    BY <2>2, CountedFinite, FS_AddElement
  <2>4. shared_counter' = shared_counter + 1
    BY <1>3 DEF mutex_test_thread_write, MutexInv
  <2>5. NoLostCount'
    BY <1>3, <2>3, <2>4, CountedFinite
    DEF mutex_test_thread_write, MutexInv, NoLostCount, Own
  <2>6. OneLeft => OneLeft'
    BY <2>2 DEF OneLeft
  <2>7. \A s \in Threads : tpc'[s] = "write" => FALSE
    <3> SUFFICES ASSUME NEW s \in Threads, tpc'[s] = "write" PROVE FALSE
      OBVIOUS
    <3>1. s # t /\ tpc[s] = "write" /\ tpc[t] = "write"
      BY <1>3 DEF mutex_test_thread_write, MutexInv, MutexTypeOK
    <3> QED
      BY <3>1, OneInside
  <2>8. main = "cleanup" => shared_counter' >= NThreads
    BY <2>4, CountedFinite DEF MutexInv, MutexTypeOK
  <2> QED
    BY <1>3, <2>1, <2>5, <2>6, <2>7, <2>8
    DEF mutex_test_thread_write, MutexInv, MutexTypeOK, NThreads
<1>4. CASE mutex_test_thread_unlock(t)
  <2>1. MutexTypeOK'
    BY <1>4 DEF mutex_test_thread_unlock, MutexInv, MutexTypeOK
  <2>2. Counted' = Counted /\ (OneLeft => OneLeft')
    BY <1>4, SameCounted DEF mutex_test_thread_unlock, MutexInv
  <2>3. NoLostCount'
    BY <1>4, <2>2 DEF mutex_test_thread_unlock, MutexInv, NoLostCount, Own
  <2>4. global_mutex' # "gone" =>
          \A s \in Threads : tpc'[s] \in {"read", "write", "unlock"} => global_mutex' = s
    BY <1>4 DEF mutex_test_thread_unlock, MutexInv, MutexTypeOK, ThreadsOK
  <2> QED
    BY <1>4, <2>1, <2>2, <2>3, <2>4
    DEF mutex_test_thread_unlock, MutexInv, MutexTypeOK, NThreads, ThreadsOK
<1> QED
  BY <1>1, <1>2, <1>3, <1>4 DEF mutex_test_thread

\* The steps of the initialisation lose no count.
LEMMA MainStep ==
    ASSUME ThreadsOK, MutexInv, osMutexTest_init
    PROVE  MutexInv'
<1> USE DEF timing, counting
<1>1. CASE CreateMutex
  <2>1. Counted' = Counted /\ (OneLeft => OneLeft')
    BY <1>1, KeepsCounted DEF CreateMutex
  <2> QED
    BY <1>1, <2>1 DEF CreateMutex, MutexInv, MutexTypeOK, NoLostCount, Own, NThreads
<1>2. CASE mutex_basic_test
  <2>1. Counted' = Counted /\ (OneLeft => OneLeft')
    BY <1>2, KeepsCounted DEF mutex_basic_test
  <2>2. NoLostCount'
    BY <1>2, <2>1, CountedFinite DEF mutex_basic_test, MutexInv, NoLostCount, Own
  <2> QED
    BY <1>2, <2>1, <2>2 DEF mutex_basic_test, MutexInv, MutexTypeOK, NThreads
<1>3. CASE app_main_01
  <2>1. Counted' = Counted /\ (OneLeft => OneLeft')
    BY <1>3, KeepsCounted DEF app_main_01
  <2>2. MutexTypeOK'
    BY <1>3 DEF app_main_01, MutexInv, MutexTypeOK
  <2> QED
    BY <1>3, <2>1, <2>2 DEF app_main_01, MutexInv, NoLostCount, Own, NThreads
<1>4. CASE mutex_timeout_test
  <2>1. Counted' = Counted /\ (OneLeft => OneLeft')
    BY <1>4, KeepsCounted DEF mutex_timeout_test
  <2> QED
    BY <1>4, <2>1 DEF mutex_timeout_test, MutexInv, MutexTypeOK, NoLostCount, Own, NThreads
<1>5. ASSUME NEW t \in Threads, CreateThread(t) PROVE MutexInv'
  <2>1. Counted' = Counted /\ (OneLeft => OneLeft')
    BY <1>5, KeepsCounted, SameCounted DEF CreateThread, MutexInv
  <2>2. MutexTypeOK'
    BY <1>5 DEF CreateThread, MutexInv, MutexTypeOK
  <2>3. NoLostCount'
    BY <1>5, <2>1 DEF CreateThread, MutexInv, NoLostCount, Own
  <2> QED
    BY <1>5, <2>1, <2>2, <2>3 DEF CreateThread, MutexInv, MutexTypeOK, NThreads
<1>6. CASE mutex_multithread_test
  <2>1. Counted' = Counted /\ (OneLeft => OneLeft')
    BY <1>6, KeepsCounted DEF mutex_multithread_test
  <2> QED
    BY <1>6, <2>1 DEF mutex_multithread_test, MutexInv, MutexTypeOK, NoLostCount, Own, NThreads
<1>7. CASE mutex_cleanup_test
  <2>1. Counted' = Counted /\ (OneLeft => OneLeft')
    BY <1>7, KeepsCounted DEF mutex_cleanup_test
  <2>2. Cardinality(Counted) + 1 >= NThreads
    BY <1>7, CountedFinite DEF mutex_cleanup_test, MutexInv, NoLostCount, Own
  <2>3. OneLeft'
    BY <2>1, <2>2, AllButOne
  <2> QED
    BY <1>7, <2>1, <2>3 DEF mutex_cleanup_test, MutexInv, MutexTypeOK, NoLostCount, Own, NThreads
<1> QED
  BY <1>1, <1>2, <1>3, <1>4, <1>5, <1>6, <1>7 DEF osMutexTest_init

\* Every step of the mutex demo keeps its invariant.
LEMMA MutexStep ==
    ASSUME ThreadsOK, MutexInv, [MutexNext]_mutexVars
    PROVE  MutexInv'
<1>1. CASE MutexNext
  BY <1>1, MainStep, TwoTasksStep, ThreadStep DEF MutexNext
<1>2. CASE UNCHANGED mutexVars
  <2>1. Counted' = Counted /\ (OneLeft => OneLeft')
    BY <1>2, KeepsCounted DEF mutexVars
  <2> QED
    BY <1>2, <2>1 DEF mutexVars, MutexInv, MutexTypeOK, NoLostCount, Own, NThreads
<1> QED
  BY <1>1, <1>2

\* The invariant of the mutex demo, for every finite set of threads.
THEOREM MutexInvariant == MutexSpec => []MutexInv
<1>1. MutexInit => MutexInv
  BY MutexStart, ThreadsAssumption
<1>2. MutexInv /\ [MutexNext]_mutexVars => MutexInv'
  BY MutexStep, ThreadsAssumption
<1> QED
  BY <1>1, <1>2, PTL DEF MutexSpec

\* The types of the mutex demo: a mutex is held by a task that uses it, is free or
\* is gone.
THEOREM MutexTypeCorrect == MutexSpec => []MutexTypeOK
<1>1. MutexInv => MutexTypeOK
  BY DEF MutexInv
<1> QED
  BY <1>1, MutexInvariant, PTL

\* For every finite set of threads: no count is lost in mutex_demo.c, whenever the
\* main program deletes the mutex.
THEOREM MutexNoLostCount == MutexSpec => []NoLostCount
<1>1. MutexInv => NoLostCount
  BY DEF MutexInv
<1> QED
  BY <1>1, MutexInvariant, PTL
=============================================================================
