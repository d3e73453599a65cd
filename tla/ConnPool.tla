------------------------------- MODULE ConnPool -------------------------------
(***************************************************************************)
(* A pool of database connections shared by tasks                          *)
(* (system/sync_comm/semaphore/task_sync).                                 *)
(*                                                                         *)
(* connection_sem counts the connections that may be taken; which one a    *)
(* task gets is found by scanning the status array, which no lock          *)
(* protects: looking at a status and marking it are separate steps.        *)
(* Marking is a strcpy over a five-byte string; two of them that overlap   *)
(* leave a text that is either "idle" or is not, and what is not is never  *)
(* taken, like "busy": one step stands for the copy.  active_connections   *)
(* and the connections' ids are only logged and are left out.              *)
(***************************************************************************)
EXTENDS Integers, FiniteSets

CONSTANTS
    MAX_CONNECTIONS,    \* size of the pool
    Tasks,              \* the database tasks
    Rounds              \* operations each task performs

ASSUME PoolAssumption ==
    MAX_CONNECTIONS \in Nat /\ IsFiniteSet(Tasks) /\ Rounds \in Nat \ {0}

VARIABLES
    connection_sem,     \* semaphore count
    status,             \* connections[i].status
    pool_pc,            \* next statement of each task
    conn,               \* i of the scan, then conn_id
    round               \* i of the loop of db_task

poolVars == <<connection_sem, status, pool_pc, conn, round>>

Conns == 0 .. (MAX_CONNECTIONS - 1)

PoolInit ==
    /\ connection_sem = MAX_CONNECTIONS
    /\ status = [c \in Conns |-> "idle"]
    /\ pool_pc = [t \in Tasks |-> "none"]
    /\ conn = [t \in Tasks |-> 0]
    /\ round = [t \in Tasks |-> 0]

Goto(t, l) == pool_pc' = [pool_pc EXCEPT ![t] = l]

\* The next turn of db_task's loop, or its end.
NextRound(t) ==
    /\ round' = [round EXCEPT ![t] = @ + 1]
    /\ Goto(t, IF round[t] + 1 < Rounds THEN "wait" ELSE "done")

\* connection_pool_init starts the tasks; one that cannot be created is only
\* logged.
CreateTask(t) ==
    /\ pool_pc[t] = "none"
    /\ \E l \in {"wait", "done"} : Goto(t, l)
    /\ UNCHANGED <<connection_sem, status, conn, round>>

-----------------------------------------------------------------------------
(* acquire_connection.                                                     *)

\* Mutant: the task does not wait for the semaphore.
WaitConnection_unguarded(t) ==
    /\ pool_pc[t] = "wait"
    /\ connection_sem' = connection_sem - 1
    /\ conn' = [conn EXCEPT ![t] = 0]
    /\ Goto(t, "scan")
    /\ UNCHANGED <<status, round>>

WaitConnection(t) ==
    /\ pool_pc[t] = "wait" /\ connection_sem > 0
    /\ connection_sem' = connection_sem - 1
    /\ conn' = [conn EXCEPT ![t] = 0]
    /\ Goto(t, "scan")
    /\ UNCHANGED <<status, round>>

\* The wait times out: the round is over.
WaitTimeout(t) ==
    /\ pool_pc[t] = "wait" /\ connection_sem = 0
    /\ NextRound(t)
    /\ UNCHANGED <<connection_sem, status, conn>>

ScanIdle(t) ==
    /\ pool_pc[t] = "scan" /\ status[conn[t]] = "idle"
    /\ Goto(t, "mark")
    /\ UNCHANGED <<connection_sem, status, conn, round>>

\* A scan that passes the last connection has failed.  The code then gives the
\* semaphore back; ScanNeverFails shows that it does not come to that, so that
\* no action stands for those two lines.
ScanBusy(t) ==
    /\ pool_pc[t] = "scan" /\ status[conn[t]] = "busy"
    /\ conn' = [conn EXCEPT ![t] = @ + 1]
    /\ UNCHANGED <<connection_sem, status, pool_pc, round>>

MarkBusy(t) ==
    /\ pool_pc[t] = "mark"
    /\ status' = [status EXCEPT ![conn[t]] = "busy"]
    /\ Goto(t, "use")
    /\ UNCHANGED <<connection_sem, conn, round>>

-----------------------------------------------------------------------------
(* release_connection.                                                     *)

MarkIdle(t) ==
    /\ pool_pc[t] = "use"
    /\ status' = [status EXCEPT ![conn[t]] = "idle"]
    /\ Goto(t, "release")
    /\ UNCHANGED <<connection_sem, conn, round>>

\* Mutant: the semaphore is not given back.
ReleaseSem_forgotten(t) ==
    /\ pool_pc[t] = "release"
    /\ NextRound(t)
    /\ UNCHANGED <<connection_sem, status, conn>>

\* The semaphore does not count beyond the maximum it was created with.
ReleaseSem(t) ==
    /\ pool_pc[t] = "release"
    /\ connection_sem' = IF connection_sem < MAX_CONNECTIONS
                         THEN connection_sem + 1 ELSE connection_sem
    /\ NextRound(t)
    /\ UNCHANGED <<status, conn>>

-----------------------------------------------------------------------------
acquire_connection(t) ==
    \/ WaitConnection(t) \/ WaitTimeout(t) \/ ScanIdle(t) \/ ScanBusy(t)
    \/ MarkBusy(t)

release_connection(t) == MarkIdle(t) \/ ReleaseSem(t)

db_task(t) == acquire_connection(t) \/ release_connection(t)

PoolNext == \E t \in Tasks : CreateTask(t) \/ db_task(t)

PoolSpec == PoolInit /\ [][PoolNext]_poolVars

-----------------------------------------------------------------------------
(* Properties.                                                             *)

\* Counts and program counters keep their ranges; the semaphore never exceeds
\* the size of the pool.
PoolTypeOK ==
    /\ connection_sem \in 0 .. MAX_CONNECTIONS
    /\ status \in [Conns -> {"idle", "busy"}]
    /\ pool_pc \in [Tasks -> {"none", "wait", "scan", "mark", "use", "release", "done"}]
    /\ conn \in [Tasks -> 0 .. MAX_CONNECTIONS]
    /\ round \in [Tasks -> 0 .. Rounds]

\* "Should not get here" (the comment after the scan): a task that was granted
\* the semaphore finds an idle connection, although the statuses it scans
\* change under it.
ScanNeverFails ==
    \A t \in Tasks : pool_pc[t] = "scan" => conn[t] < MAX_CONNECTIONS

\* When every task has ended, every connection is idle and the semaphore is
\* back at its maximum: no sequence of races leaks a connection.
PoolRestored ==
    (\A t \in Tasks : pool_pc[t] = "done") =>
        /\ connection_sem = MAX_CONNECTIONS
        /\ \A c \in Conns : status[c] = "idle"

\* A task looks for an idle connection in order to have it for itself: no two
\* tasks use the same one.
ExclusiveUse ==
    \A t, u \in Tasks :
        pool_pc[t] = "use" /\ pool_pc[u] = "use" /\ conn[t] = conn[u] => t = u

-----------------------------------------------------------------------------
(* What makes ScanNeverFails and PoolRestored inductive.                   *)

\* The tasks between the wait for the semaphore and its release that have come as
\* far as place k.
Beyond(k) ==
    {t \in Tasks : pool_pc[t] \in {"scan", "mark", "use", "release"} /\ conn[t] >= k}

\* A connection that is not idle is in use: whoever marked it last has not marked
\* it idle yet.
BusyIsUsed ==
    \A c \in Conns : status[c] = "busy" =>
        \E t \in Tasks : pool_pc[t] = "use" /\ conn[t] = c

\* Every place that is passed leaves a user behind, so that at most as many tasks
\* come as far as a place as there are places from there on.
PoolInv ==
    /\ PoolTypeOK
    /\ BusyIsUsed
    /\ \A t \in Tasks : pool_pc[t] # "done" => round[t] < Rounds
    /\ connection_sem + Cardinality(Beyond(0)) = MAX_CONNECTIONS
    /\ \A k \in 0 .. MAX_CONNECTIONS : Cardinality(Beyond(k)) <= MAX_CONNECTIONS - k
=============================================================================
