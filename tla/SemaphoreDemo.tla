--------------------------- MODULE SemaphoreDemo ---------------------------
(***************************************************************************)
(* The semaphore demo (system/sync_comm/semaphore/demo/semaphore_demo.c).  *)
(*                                                                         *)
(* Threads count a few times each under a semaphore of one.  The main      *)
(* program waits for the counts for a while and then deletes the threads   *)
(* that are left and the semaphore.  A thread may be deleted between its   *)
(* wait for the semaphore and the release.                                 *)
(*                                                                         *)
(* The kernel is external.  Which threads qosa_task_get_status calls       *)
(* deletable is not assumed.  The tests that use a semaphore of their own  *)
(* in one task are left out.                                               *)
(***************************************************************************)
EXTENDS Integers, FiniteSets

CONSTANTS
    SemThreads,     \* the threads (3)
    SemRounds,      \* counts of a thread (2)
    Patience        \* looks at the counter before the main program gives up (10)

ASSUME SemAssumption == SemRounds \in Nat \ {0} /\ Patience \in Nat \ {0}

VARIABLES
    sem_main,           \* the main program
    looks,              \* its looks at the counter so far
    threads,            \* handles it has not cleaned up
    shared_resource,
    global_sem,         \* "free", "taken" or "gone"
    stpc, done, temp,   \* of the threads: place, rounds done, value read
    writes              \* history: number of counts

semVars == <<sem_main, looks, threads, shared_resource, global_sem, stpc, done, temp, writes>>

SemInit ==
    /\ sem_main = "create" /\ looks = 0 /\ threads = {} /\ shared_resource = 0 /\ global_sem = "gone"
    /\ stpc = [t \in SemThreads |-> "none"]
    /\ done = [t \in SemThreads |-> 0] /\ temp = [t \in SemThreads |-> 0]
    /\ writes = 0

SemTotal == Cardinality(SemThreads) * SemRounds

-----------------------------------------------------------------------------
(* A thread.                                                               *)

\* A wait on the deleted semaphore may end either way; a refused round is over.
SemWait(t) ==
    /\ stpc[t] = "wait"
    /\ \/ /\ global_sem = "free"
          /\ global_sem' = "taken" /\ stpc' = [stpc EXCEPT ![t] = "read"] /\ UNCHANGED done
       \/ /\ global_sem = "gone"
          /\ stpc' = [stpc EXCEPT ![t] = "read"] /\ UNCHANGED <<global_sem, done>>
       \/ /\ global_sem = "gone"
          /\ done' = [done EXCEPT ![t] = @ + 1]
          /\ stpc' = [stpc EXCEPT ![t] = IF done'[t] = SemRounds THEN "ended" ELSE "wait"]
          /\ UNCHANGED global_sem
    /\ UNCHANGED <<sem_main, looks, threads, shared_resource, temp, writes>>

SemRead(t) ==
    /\ stpc[t] = "read"
    /\ temp' = [temp EXCEPT ![t] = shared_resource]
    /\ stpc' = [stpc EXCEPT ![t] = "write"]
    /\ UNCHANGED <<sem_main, looks, threads, shared_resource, global_sem, done, writes>>

SemWrite(t) ==
    /\ stpc[t] = "write"
    /\ shared_resource' = temp[t] + 1 /\ writes' = writes + 1
    /\ stpc' = [stpc EXCEPT ![t] = "release"]
    /\ UNCHANGED <<sem_main, looks, threads, global_sem, done, temp>>

SemRelease(t) ==
    /\ stpc[t] = "release"
    /\ global_sem' = IF global_sem = "gone" THEN "gone" ELSE "free"
    /\ done' = [done EXCEPT ![t] = @ + 1]
    /\ stpc' = [stpc EXCEPT ![t] = IF done'[t] = SemRounds THEN "ended" ELSE "wait"]
    /\ UNCHANGED <<sem_main, looks, threads, shared_resource, temp, writes>>

semaphore_test_thread(t) == SemWait(t) \/ SemRead(t) \/ SemWrite(t) \/ SemRelease(t)

-----------------------------------------------------------------------------
(* The main program.                                                       *)

test_basic_semaphore ==
    /\ sem_main = "create"
    /\ \/ sem_main' = "start" /\ global_sem' = "free"
       \/ sem_main' = "failed" /\ UNCHANGED global_sem
    /\ UNCHANGED <<looks, threads, shared_resource, stpc, done, temp, writes>>

\* Mutant: the semaphore is released for the thread, whatever that was doing.
cleanup_task_handle_release(t) ==
    /\ sem_main \in {"cleanup", "abort"} /\ t \in threads
    /\ \/ stpc[t] # "ended" /\ stpc' = [stpc EXCEPT ![t] = "killed"]
       \/ UNCHANGED stpc
    /\ threads' = threads \ {t} /\ global_sem' = "free"
    /\ UNCHANGED <<sem_main, looks, shared_resource, done, temp, writes>>

\* A thread whose status allows it is deleted.
cleanup_task_handle(t) ==
    /\ sem_main \in {"cleanup", "abort"} /\ t \in threads
    /\ \/ stpc[t] # "ended" /\ stpc' = [stpc EXCEPT ![t] = "killed"]
       \/ UNCHANGED stpc
    /\ threads' = threads \ {t}
    /\ UNCHANGED <<sem_main, looks, shared_resource, global_sem, done, temp, writes>>

\* A thread that cannot be created ends the demo: the threads before it are cleaned
\* up, the semaphore is not deleted.
CreateSemThread(t) ==
    /\ sem_main = "start" /\ stpc[t] = "none"
    /\ \/ /\ stpc' = [stpc EXCEPT ![t] = "wait"] /\ threads' = threads \union {t}
          /\ UNCHANGED sem_main
       \/ sem_main' = "abort" /\ UNCHANGED <<stpc, threads>>
    /\ UNCHANGED <<looks, shared_resource, global_sem, done, temp, writes>>

\* The main program looks at the counter until all counts are in or its patience is
\* at an end, and cleans up.
test_multi_thread_competition ==
    /\ sem_main = "start" /\ threads = SemThreads
    /\ looks' = looks + 1
    /\ sem_main' = IF shared_resource >= SemTotal \/ looks' = Patience THEN "cleanup" ELSE sem_main
    /\ UNCHANGED <<threads, shared_resource, global_sem, stpc, done, temp, writes>>

\* The tests that follow use semaphores of their own; one that fails ends the demo
\* before the semaphore is deleted.
DeleteSem ==
    /\ sem_main = "cleanup" /\ threads = {}
    /\ \/ sem_main' = "ended" /\ global_sem' = "gone"
       \/ sem_main' = "failed" /\ UNCHANGED global_sem
    /\ UNCHANGED <<looks, threads, shared_resource, stpc, done, temp, writes>>

osSemaphoreTest_init ==
    \/ test_basic_semaphore
    \/ \E t \in SemThreads : CreateSemThread(t) \/ cleanup_task_handle(t)
    \/ test_multi_thread_competition \/ DeleteSem

-----------------------------------------------------------------------------
SemNext == osSemaphoreTest_init \/ \E t \in SemThreads : semaphore_test_thread(t)

SemSpec == SemInit /\ [][SemNext]_semVars

-----------------------------------------------------------------------------
(* Properties.                                                             *)

\* Every variable has its type.
SemTypeOK ==
    /\ sem_main \in {"create", "start", "cleanup", "abort", "ended", "failed"}
    /\ looks \in 0 .. Patience /\ threads \subseteq SemThreads
    /\ shared_resource \in Nat
    /\ global_sem \in {"free", "taken", "gone"}
    /\ stpc \in [SemThreads ->
                  {"none", "wait", "read", "write", "release", "ended", "killed"}]
    /\ done \in [SemThreads -> 0 .. SemRounds] /\ temp \in [SemThreads -> Nat]
    /\ writes \in Nat

\* No count is lost as long as there is the semaphore, also when threads are deleted
\* anywhere in a round: one that is deleted inside takes the semaphore with it and
\* shuts the others out.
SemCounts == sem_main # "ended" => shared_resource = writes

-----------------------------------------------------------------------------
(* What makes SemCounts inductive.                                         *)

\* The threads between their wait and their release.
SemInside == {t \in SemThreads : stpc[t] \in {"read", "write", "release"}}

\* As long as there is the semaphore, one thread is inside at most, none while it is
\* free, and the value a thread has read is the counter's.
Exclusive ==
    /\ \A s, t \in SemInside : s = t
    /\ global_sem = "free" => SemInside = {}
    /\ \A t \in SemThreads : stpc[t] = "write" => temp[t] = shared_resource

\* Threads exist only after the semaphore, and one that is at work has a round to do.
SemPlaces ==
    /\ global_sem = "gone" /\ sem_main # "ended" => \A t \in SemThreads : stpc[t] = "none"
    /\ sem_main = "create" => global_sem = "gone"
    /\ global_sem = "gone" => sem_main \in {"create", "failed", "ended"}
    /\ sem_main \in {"create", "start"} => looks < Patience
    /\ \A t \in SemThreads :
          stpc[t] \in {"none", "wait", "read", "write", "release"} => done[t] < SemRounds

SemInv == SemTypeOK /\ SemCounts /\ SemPlaces /\ (sem_main # "ended" => Exclusive)
=============================================================================
