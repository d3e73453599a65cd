------------------------------- MODULE MCSync -------------------------------
(***************************************************************************)
(* The programs whose tasks, threads and callbacks meet in the kernel's    *)
(* semaphores, mutexes and queues, for TLC: the synchronisation demos and  *)
(* the cellular ones.  They share nothing, so that it is enough to run one *)
(* at a time: demo says which, and the variables of the others keep their  *)
(* first values.                                                           *)
(***************************************************************************)
EXTENDS SemRing, ConnPool, MutexDemo, SemaphoreDemo, CellularDemo, SmsDemo, DataCall

VARIABLE demo

syncVars == <<demo, vars, poolVars, mutexVars, semVars, smsVars, callVars, cellVars>>

SyncInit ==
    /\ demo \in {"ring", "pool", "mutex", "semaphore", "sms", "call", "cell"}
    /\ Init /\ MutexInit /\ CellInit /\ PoolInit /\ SemInit /\ SmsInit /\ CallInit
    /\ demo # "cell" => reg /\ cfun_sem
    /\ demo # "call" => msgq_ok

\* Which demo takes a step; the others stand still.
InRing ==
    /\ demo = "ring"
    /\ UNCHANGED <<demo, poolVars, mutexVars, semVars, smsVars, callVars, cellVars>>
InPool ==
    /\ demo = "pool"
    /\ UNCHANGED <<demo, vars, mutexVars, semVars, smsVars, callVars, cellVars>>
InMutex ==
    /\ demo = "mutex"
    /\ UNCHANGED <<demo, vars, poolVars, semVars, smsVars, callVars, cellVars>>
InSem ==
    /\ demo = "semaphore"
    /\ UNCHANGED <<demo, vars, poolVars, mutexVars, smsVars, callVars, cellVars>>
InSms ==
    /\ demo = "sms"
    /\ UNCHANGED <<demo, vars, poolVars, mutexVars, semVars, callVars, cellVars>>
InCall ==
    /\ demo = "call"
    /\ UNCHANGED <<demo, vars, poolVars, mutexVars, semVars, smsVars, cellVars>>
InCell ==
    /\ demo = "cell"
    /\ UNCHANGED <<demo, vars, poolVars, mutexVars, semVars, smsVars, callVars>>

SyncNext ==
    \/ InRing /\ Next
    \/ InPool /\ PoolNext
    \/ InMutex /\ MutexNext
    \/ InSem /\ SemNext
    \/ InSms /\ SmsNext
    \/ InCall /\ CallNext
    \/ InCell /\ CellNext

\* The kernel runs a task that can run, and the modem answers.  Only one demo runs,
\* so that one condition for the tasks of several is the condition for each.
SyncSpec ==
    /\ SyncInit /\ [][SyncNext]_syncVars
    /\ WF_syncVars(\/ InRing /\ producer_task
                   \/ InSms /\ qosa_sms_demo_task
                   \/ InCall /\ datacall_demo_task)
    /\ WF_syncVars(\/ InRing /\ consumer_task
                   \/ InSms /\ Modem)

-----------------------------------------------------------------------------
\* Every variable of every demo keeps its type, and no queue exceeds its
\* capacity.
AllTypesOK ==
    TypeOK /\ MutexTypeOK /\ CellTypeOK
        /\ PoolTypeOK /\ SemTypeOK /\ SmsTypeOK /\ CallTypeOK

\* Data call: a call the network ended is up again in the end, or all retries have
\* failed: reports that a full queue refuses, that concern other connections or that
\* come while the task is starting the call do not make it miss the loss of its own.
\* Only a report that found no memory does, and a task that has no queue.
CallRestored ==
    demo = "call" /\ link = "down" ~>
        link = "up" \/ retry_count = MaxRetry \/ missed \/ cpc = "exited" \/ ~msgq_ok
=============================================================================
