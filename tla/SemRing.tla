------------------------------- MODULE SemRing -------------------------------
(***************************************************************************)
(* The producer and consumer tasks around a ring of characters             *)
(* (system/sync_comm/semaphore/producer_consumer).                         *)
(*                                                                         *)
(* empty_sem counts the free places and full_sem the filled ones.  Each    *)
(* index is used by one task only and is advanced in the same step as the  *)
(* access it selects.  item_count, which both tasks change without a lock, *)
(* is only logged and is left out.  A consumer wait that times out starts  *)
(* over and is a stuttering step.                                          *)
(***************************************************************************)
EXTENDS Integers, Sequences

CONSTANTS
    BUFFER_SIZE,    \* places of the ring
    LastChar,       \* characters are 0 ('A') .. LastChar ('Z')
    MaxItems        \* bound: how many characters are produced

ASSUME RingAssumption ==
    /\ BUFFER_SIZE \in Nat \ {0}
    /\ LastChar \in Nat
    /\ MaxItems \in Nat

VARIABLES
    buffer, producer_index, consumer_index,
    empty_sem, full_sem,    \* semaphore counts
    init_pc,        \* progress of producer_consumer_init
    p_pc, data,     \* the producer: next statement, local variable
    c_pc,           \* the consumer: next statement
    produced,       \* history: characters written to the ring
    consumed        \* history: characters read from it

prodVars == <<p_pc, data, producer_index>>
consVars == <<c_pc, consumer_index>>
hist     == <<produced, consumed>>
vars     == <<buffer, empty_sem, full_sem, init_pc, prodVars, consVars, hist>>

Places == 0 .. (BUFFER_SIZE - 1)
Chars  == 0 .. LastChar

Init ==
    /\ buffer = [i \in Places |-> 0]
    /\ producer_index = 0 /\ consumer_index = 0
    /\ empty_sem = 0 /\ full_sem = 0
    /\ init_pc = "sems"
    /\ p_pc = "none" /\ data = 0
    /\ c_pc = "none"
    /\ produced = <<>> /\ consumed = <<>>

\* The place after i.
NextPlace(i) == (i + 1) % BUFFER_SIZE

-----------------------------------------------------------------------------
(* producer_consumer_init.                                                 *)

\* Both semaphores are created, or the function returns with none.
CreateSems ==
    /\ init_pc = "sems"
    /\ \/ /\ init_pc' = "producer"
          /\ empty_sem' = BUFFER_SIZE /\ full_sem' = 0
       \/ /\ init_pc' = "failed"
          /\ UNCHANGED <<empty_sem, full_sem>>
    /\ UNCHANGED <<buffer, prodVars, consVars, hist>>

\* A task that cannot be created sends init to its clean-up, which deletes both
\* semaphores; a producer that was already started goes on without them.
CreateProducer ==
    /\ init_pc = "producer"
    /\ \/ init_pc' = "consumer" /\ p_pc' = "wait"
       \/ init_pc' = "deleted" /\ UNCHANGED p_pc
    /\ UNCHANGED <<buffer, empty_sem, full_sem, data,
                   producer_index, consVars, hist>>

CreateConsumer ==
    /\ init_pc = "consumer"
    /\ \/ init_pc' = "started" /\ c_pc' = "wait"
       \/ init_pc' = "deleted" /\ UNCHANGED c_pc
    /\ UNCHANGED <<buffer, empty_sem, full_sem, prodVars,
                   consumer_index, hist>>

-----------------------------------------------------------------------------
(* The semaphores (qosa_sem), external.  Waiting on a deleted semaphore    *)
(* returns an error, after which both tasks simply try again; releasing    *)
(* one returns an error that is only logged.                               *)

SemsLive == init_pc # "deleted"

\* The count stays below the maximum given to qosa_sem_create_ex.
qosa_sem_release(n) == IF SemsLive /\ n < BUFFER_SIZE THEN n + 1 ELSE n

-----------------------------------------------------------------------------
(* producer_task.                                                          *)

\* Mutant: the producer does not wait for an empty place.
ProducerWait_no_wait ==
    /\ p_pc = "wait" /\ SemsLive /\ Len(produced) < MaxItems
    /\ p_pc' = "write"
    /\ UNCHANGED <<buffer, empty_sem, full_sem, init_pc, data,
                   producer_index, consVars, hist>>

ProducerWait ==
    /\ p_pc = "wait" /\ SemsLive /\ Len(produced) < MaxItems
    /\ empty_sem > 0
    /\ empty_sem' = empty_sem - 1
    /\ p_pc' = "write"
    /\ UNCHANGED <<buffer, full_sem, init_pc, data,
                   producer_index, consVars, hist>>

\* Mutant: the index runs to the end of the ring but is not wrapped.
ProducerWrite_no_wrap ==
    /\ p_pc = "write"
    /\ buffer' = [buffer EXCEPT ![producer_index] = data]
    /\ producer_index' = producer_index + 1
    /\ produced' = Append(produced, data)
    /\ p_pc' = "release"
    /\ UNCHANGED <<empty_sem, full_sem, init_pc, data, consVars,
                   consumed>>

ProducerWrite ==
    /\ p_pc = "write"
    /\ buffer' = [buffer EXCEPT ![producer_index] = data]
    /\ producer_index' = NextPlace(producer_index)
    /\ produced' = Append(produced, data)
    /\ p_pc' = "release"
    /\ UNCHANGED <<empty_sem, full_sem, init_pc, data, consVars,
                   consumed>>

\* Mutant: the consumer is not told.
ProducerRelease_none ==
    /\ p_pc = "release"
    /\ data' = IF data = LastChar THEN 0 ELSE data + 1
    /\ p_pc' = "wait"
    /\ UNCHANGED <<buffer, empty_sem, full_sem, init_pc,
                   producer_index, consVars, hist>>

ProducerRelease ==
    /\ p_pc = "release"
    /\ full_sem' = qosa_sem_release(full_sem)
    /\ data' = IF data = LastChar THEN 0 ELSE data + 1
    /\ p_pc' = "wait"
    /\ UNCHANGED <<buffer, empty_sem, init_pc, producer_index,
                   consVars, hist>>

-----------------------------------------------------------------------------
(* consumer_task.                                                          *)

ConsumerWait ==
    /\ c_pc = "wait" /\ SemsLive
    /\ full_sem > 0
    /\ full_sem' = full_sem - 1
    /\ c_pc' = "read"
    /\ UNCHANGED <<buffer, empty_sem, init_pc, prodVars,
                   consumer_index, hist>>

ConsumerRead ==
    /\ c_pc = "read"
    /\ consumed' = Append(consumed, buffer[consumer_index])
    /\ consumer_index' = NextPlace(consumer_index)
    /\ c_pc' = "release"
    /\ UNCHANGED <<buffer, empty_sem, full_sem, init_pc, prodVars,
                   produced>>

ConsumerRelease ==
    /\ c_pc = "release"
    /\ empty_sem' = qosa_sem_release(empty_sem)
    /\ c_pc' = "wait"
    /\ UNCHANGED <<buffer, full_sem, init_pc, prodVars,
                   consumer_index, hist>>

-----------------------------------------------------------------------------
producer_consumer_init == CreateSems \/ CreateProducer \/ CreateConsumer

producer_task == ProducerWait \/ ProducerWrite \/ ProducerRelease

consumer_task == ConsumerWait \/ ConsumerRead \/ ConsumerRelease

Next == producer_consumer_init \/ producer_task \/ consumer_task

Spec == Init /\ [][Next]_vars

\* The scheduler runs both tasks, which sleep after every round.
FairSpec == Spec /\ WF_vars(producer_task) /\ WF_vars(consumer_task)

-----------------------------------------------------------------------------
(* Properties.                                                             *)

\* Indices, semaphore counts and program counters keep their ranges.
TypeOK ==
    /\ buffer \in [Places -> Chars]
    /\ producer_index \in Places /\ consumer_index \in Places
    /\ empty_sem \in 0 .. BUFFER_SIZE /\ full_sem \in 0 .. BUFFER_SIZE
    /\ init_pc \in {"sems", "producer", "consumer", "started", "failed", "deleted"}
    /\ p_pc \in {"none", "wait", "write", "release"}
    /\ c_pc \in {"none", "wait", "read", "release"}
    /\ data \in Chars
    /\ produced \in Seq(Chars) /\ consumed \in Seq(Chars)

\* The producer never writes a place whose character is still to be read, and
\* the consumer never reads one that is not written: with the two semaphores
\* alone the tasks implement a first-in first-out channel of BUFFER_SIZE places.
Channel == INSTANCE BoundedChannel WITH Capacity <- BUFFER_SIZE, Values <- Chars

\* The refinement, as a property of the behaviours.
ImplementsChannel == Channel!ChannelSpec

\* A character in the ring is eventually read, once init has started both tasks.
EveryCharRead ==
    \A n \in 1 .. MaxItems :
        init_pc = "started" /\ Len(produced) >= n ~> Len(consumed) >= n

=============================================================================
