----------------------------- MODULE MutexDemo -----------------------------
(***************************************************************************)
(* The mutex demo (system/sync_comm/mutex/demo/mutex_demo.c).              *)
(*                                                                         *)
(* The main program counts once by itself; lets two tasks compete for a    *)
(* mutex of theirs and deletes that mutex after a fixed time; then starts  *)
(* threads that each count once under the global mutex, waits for the      *)
(* counter and deletes the global mutex.  It waits for as many counts as   *)
(* there are threads although it has counted itself, so that one thread    *)
(* may still be counting, or waiting to, when the mutex is deleted.        *)
(*                                                                         *)
(* The kernel's mutexes are external.  A task that waits on a mutex, or    *)
(* holds it, while it is deleted may be told anything.  No assumption is   *)
(* made on how long a task takes.                                          *)
(***************************************************************************)
EXTENDS Integers, FiniteSets

CONSTANT Threads    \* the threads of mutex_multithread_test (3)

\* The threads are finitely many and differ from the marks of a mutex.
ThreadsOK == IsFiniteSet(Threads) /\ "free" \notin Threads /\ "gone" \notin Threads

ASSUME ThreadsAssumption == ThreadsOK

VARIABLES
    main,               \* the main program
    shared_counter,
    global_mutex,       \* its holder or "free"; "gone" when there is none
    test_mutex_id,      \* the same for the mutex of the two tasks
    prio,               \* the low and the high priority task
    tpc,                \* the threads
    old_value           \* what each thread has read of the counter

mutexVars == <<main, shared_counter, global_mutex, test_mutex_id, prio, tpc, old_value>>

NThreads == Cardinality(Threads)
TwoTasks == {"low", "high"}
counting == <<shared_counter, global_mutex, tpc, old_value>>
timing   == <<test_mutex_id, prio>>

MutexInit ==
    /\ main = "create" /\ shared_counter = 0
    /\ global_mutex = "gone" /\ test_mutex_id = "gone"
    /\ prio = [p \in TwoTasks |-> "none"]
    /\ tpc = [t \in Threads |-> "none"] /\ old_value = [t \in Threads |-> 0]

-----------------------------------------------------------------------------
(* The two tasks of mutex_timeout_test.                                    *)

\* A task takes its mutex when that is free; it is refused when the mutex is gone
\* or, for the high priority task, when its time is up.
TaskLocks(p) ==
    /\ prio[p] = "start"
    /\ \/ /\ test_mutex_id = "free"
          /\ test_mutex_id' = p /\ prio' = [prio EXCEPT ![p] = "holds"]
       \/ /\ test_mutex_id = "gone" \/ (p = "high" /\ test_mutex_id # "free")
          /\ prio' = [prio EXCEPT ![p] = "ended"] /\ UNCHANGED test_mutex_id
    /\ UNCHANGED <<main, counting>>

TaskUnlocks(p) ==
    /\ prio[p] = "holds"
    /\ prio' = [prio EXCEPT ![p] = "ended"]
    /\ test_mutex_id' = IF test_mutex_id = p THEN "free" ELSE test_mutex_id
    /\ UNCHANGED <<main, counting>>

low_priority_task == TaskLocks("low") \/ TaskUnlocks("low")

high_priority_task == TaskLocks("high") \/ TaskUnlocks("high")

-----------------------------------------------------------------------------
(* The threads of mutex_multithread_test.                                  *)

\* A thread waits until it has the mutex.  One that finds it deleted is refused, or
\* let in if it was waiting at that moment.
mutex_test_thread_lock(t) ==
    /\ tpc[t] = "lock"
    /\ \/ /\ global_mutex = "free"
          /\ global_mutex' = t /\ tpc' = [tpc EXCEPT ![t] = "read"]
       \/ /\ global_mutex = "gone"
          /\ tpc' \in {[tpc EXCEPT ![t] = s] : s \in {"read", "refused"}}
          /\ UNCHANGED global_mutex
    /\ UNCHANGED <<main, shared_counter, timing, old_value>>

mutex_test_thread_read(t) ==
    /\ tpc[t] = "read"
    /\ old_value' = [old_value EXCEPT ![t] = shared_counter]
    /\ tpc' = [tpc EXCEPT ![t] = "write"]
    /\ UNCHANGED <<main, shared_counter, global_mutex, timing>>

mutex_test_thread_write(t) ==
    /\ tpc[t] = "write"
    /\ shared_counter' = old_value[t] + 1
    /\ tpc' = [tpc EXCEPT ![t] = "unlock"]
    /\ UNCHANGED <<main, global_mutex, timing, old_value>>

mutex_test_thread_unlock(t) ==
    /\ tpc[t] = "unlock"
    /\ tpc' = [tpc EXCEPT ![t] = "done"]
    /\ global_mutex' = IF global_mutex = t THEN "free" ELSE global_mutex
    /\ UNCHANGED <<main, shared_counter, timing, old_value>>

mutex_test_thread(t) ==
    \/ mutex_test_thread_lock(t) \/ mutex_test_thread_read(t)
    \/ mutex_test_thread_write(t) \/ mutex_test_thread_unlock(t)

-----------------------------------------------------------------------------
(* The main program.                                                       *)

CreateMutex ==
    /\ main = "create"
    /\ \/ main' = "basic" /\ global_mutex' = "free"
       \/ main' = "nomutex" /\ UNCHANGED global_mutex
    /\ UNCHANGED <<shared_counter, timing, tpc, old_value>>

mutex_basic_test ==
    /\ main = "basic" /\ global_mutex = "free"
    /\ shared_counter' = shared_counter + 1
    /\ main' = "timeout"
    /\ UNCHANGED <<global_mutex, timing, tpc, old_value>>

\* Tasks that cannot be created are only logged.
app_main_01 ==
    /\ main = "timeout"
    /\ \/ /\ test_mutex_id' = "free"
          /\ prio' \in [TwoTasks -> {"none", "start"}]
       \/ UNCHANGED timing
    /\ main' = "sleep"
    /\ UNCHANGED counting

\* After a sleep the mutex is deleted, whatever the tasks do with it.
mutex_timeout_test ==
    /\ main = "sleep"
    /\ test_mutex_id' = "gone"
    /\ main' = "start"
    /\ UNCHANGED <<prio, counting>>

\* A thread that cannot be created ends the test; its mutex and the threads
\* before it are left alone.
CreateThread(t) ==
    /\ main = "start" /\ tpc[t] = "none"
    /\ \/ tpc' = [tpc EXCEPT ![t] = "lock"] /\ UNCHANGED main
       \/ main' = "failed" /\ UNCHANGED tpc
    /\ UNCHANGED <<shared_counter, global_mutex, timing, old_value>>

\* Mutant: the loop ends two threads early.
mutex_multithread_test_early ==
    /\ main = "start" /\ \A t \in Threads : tpc[t] # "none"
    /\ shared_counter >= NThreads - 1
    /\ main' = "cleanup"
    /\ UNCHANGED <<counting, timing>>

\* The loop that waits for the counter.
mutex_multithread_test ==
    /\ main = "start" /\ \A t \in Threads : tpc[t] # "none"
    /\ shared_counter >= NThreads
    /\ main' = "cleanup"
    /\ UNCHANGED <<counting, timing>>

mutex_cleanup_test ==
    /\ main = "cleanup"
    /\ global_mutex' = "gone"
    /\ main' = "ended"
    /\ UNCHANGED <<shared_counter, timing, tpc, old_value>>

osMutexTest_init ==
    \/ CreateMutex \/ mutex_basic_test \/ app_main_01 \/ mutex_timeout_test
    \/ \E t \in Threads : CreateThread(t)
    \/ mutex_multithread_test \/ mutex_cleanup_test

-----------------------------------------------------------------------------
MutexNext ==
    \/ osMutexTest_init
    \/ low_priority_task \/ high_priority_task
    \/ \E t \in Threads : mutex_test_thread(t)

MutexSpec == MutexInit /\ [][MutexNext]_mutexVars

-----------------------------------------------------------------------------
(* Properties.                                                             *)

\* Every variable has its type.
MutexTypeOK ==
    /\ main \in {"create", "basic", "timeout", "sleep", "start", "cleanup", "ended",
                "failed", "nomutex"}
    /\ shared_counter \in Nat
    /\ global_mutex \in Threads \union {"free", "gone"}
    /\ test_mutex_id \in TwoTasks \union {"free", "gone"}
    /\ prio \in [TwoTasks -> {"none", "start", "holds", "ended"}]
    /\ tpc \in [Threads -> {"none", "lock", "read", "write", "unlock", "done", "refused"}]
    /\ old_value \in [Threads -> Nat]

\* The threads that have counted.
Counted == {t \in Threads : tpc[t] \in {"unlock", "done"}}

\* The main program has counted.
Own == IF main \in {"create", "nomutex", "basic"} THEN 0 ELSE 1

\* No count is lost: the counter is the main program's count plus one for every
\* thread that has counted, though each thread reads the counter, sleeps and writes
\* it back, and though the main program deletes the mutex while a thread may be in
\* between.  That is harmless because the loop leaves at most one thread over.
NoLostCount == shared_counter = Own + Cardinality(Counted)

-----------------------------------------------------------------------------
(* What makes NoLostCount inductive.                                       *)

\* At most one thread has not counted.
OneLeft == \A s, t \in Threads \ Counted : s = t

\* The threads start after the main program has counted; a thread inside holds the
\* mutex as long as there is one, and is the only one left when there is none; the
\* value it has read is the counter's.
MutexInv ==
    /\ MutexTypeOK
    /\ NoLostCount
    /\ main \in {"create", "nomutex", "basic", "timeout", "sleep"}
         => \A t \in Threads : tpc[t] = "none"
    /\ global_mutex = "gone" => main \in {"create", "nomutex", "ended"}
    /\ global_mutex # "gone" =>
         \A t \in Threads : tpc[t] \in {"read", "write", "unlock"} => global_mutex = t
    /\ main = "cleanup" => shared_counter >= NThreads
    /\ main = "ended" => OneLeft
    /\ \A t \in Threads : tpc[t] = "write" => old_value[t] = shared_counter
=============================================================================
