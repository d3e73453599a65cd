------------------------------ MODULE DataCall ------------------------------
(***************************************************************************)
(* The data call demo (network/nic/cellular/datacall/cellular_datacall.c). *)
(*                                                                         *)
(* A task starts a data call and starts it again whenever the network      *)
(* deactivates a packet data connection, which a callback reports through  *)
(* a bounded queue without waiting.  A report names its connection, but    *)
(* the task does not look at the name.                                     *)
(*                                                                         *)
(* The network and qosa_datacall are external; addresses, which are only   *)
(* shown, are left out.                                                    *)
(***************************************************************************)
EXTENDS Integers

CONSTANTS
    CallMsgqLen,    \* capacity of the queue (20)
    MaxRetry,       \* retries after a failed start (10)
    MaxDeact        \* bound: connections the network deactivates

\* The queue holds something; there may be no retries.
ASSUME CallAssumption ==
    CallMsgqLen \in Nat \ {0} /\ MaxRetry \in Nat /\ MaxDeact \in Nat

VARIABLES
    cpc,            \* the task
    msgq_ok,        \* whether qosa_msgq_create gave a queue: a failure is only logged
    reports,        \* number of reports in its queue
    retry_count,    \* failed starts since the last success
    link,           \* network: the data call
    deacts,         \* number of deactivations so far
    missed          \* history: a report was lost for want of memory

callVars == <<cpc, msgq_ok, reports, retry_count, link, deacts, missed>>

CallInit ==
    /\ cpc = "start" /\ msgq_ok \in BOOLEAN /\ reports = 0 /\ retry_count = 0
    /\ link = "down" /\ deacts = 0 /\ missed = FALSE

-----------------------------------------------------------------------------
(* The network.                                                            *)

\* The report needs memory, and a queue with room in it.
datacall_nw_deact_pdp_cb ==
    \/ /\ reports' = IF msgq_ok /\ reports < CallMsgqLen THEN reports + 1 ELSE reports
       /\ UNCHANGED missed
    \/ missed' = TRUE /\ UNCHANGED reports

\* The network ends the demo's call, or another connection of the module.  The
\* callback is registered once the module is attached.
Deactivate ==
    /\ cpc \in {"first", "wait", "call"}
    /\ deacts < MaxDeact /\ deacts' = deacts + 1
    /\ link' \in {link, "down"}
    /\ datacall_nw_deact_pdp_cb
    /\ UNCHANGED <<cpc, msgq_ok, retry_count>>

-----------------------------------------------------------------------------
(* The task.                                                               *)

\* The wait for the network may time out; the task then ends.
Attach ==
    /\ cpc = "start"
    /\ cpc' \in {"first", "exited"}
    /\ UNCHANGED <<msgq_ok, reports, retry_count, link, deacts, missed>>

\* The first start is not retried.
FirstCall ==
    /\ cpc = "first"
    /\ \/ cpc' = "wait" /\ link' = "up"
       \/ cpc' = "exited" /\ UNCHANGED link
    /\ UNCHANGED <<msgq_ok, reports, retry_count, deacts, missed>>

\* Without a queue the wait fails at once and the task tries it for ever.
TakeReport ==
    /\ cpc = "wait" /\ reports > 0
    /\ reports' = reports - 1
    /\ cpc' = "call"
    /\ UNCHANGED <<msgq_ok, retry_count, link, deacts, missed>>

CallOk ==
    /\ cpc = "call"
    /\ link' = "up" /\ retry_count' = 0 /\ cpc' = "wait"
    /\ UNCHANGED <<msgq_ok, reports, deacts, missed>>

\* Mutant: a failed start is counted but not tried again.
CallFails_gives_up ==
    /\ cpc = "call"
    /\ retry_count' = IF retry_count < MaxRetry THEN retry_count + 1 ELSE retry_count
    /\ cpc' = "wait"
    /\ UNCHANGED <<msgq_ok, reports, link, deacts, missed>>

\* A failed start is tried again after a while.  When the retries are used up the
\* task waits for the next report; the count goes back only after a success, so
\* that the next report leads to a single try.
CallFails ==
    /\ cpc = "call"
    /\ IF retry_count < MaxRetry
       THEN retry_count' = retry_count + 1 /\ cpc' = "call"
       ELSE cpc' = "wait" /\ UNCHANGED retry_count
    /\ UNCHANGED <<msgq_ok, reports, link, deacts, missed>>

datacall_demo_task == Attach \/ FirstCall \/ TakeReport \/ CallOk \/ CallFails

-----------------------------------------------------------------------------
CallNext == datacall_demo_task \/ Deactivate

CallSpec == CallInit /\ [][CallNext]_callVars

-----------------------------------------------------------------------------
(* Properties.                                                             *)

\* Every variable has its type.
CallTypeOK ==
    /\ cpc \in {"start", "first", "wait", "call", "exited"}
    /\ msgq_ok \in BOOLEAN /\ reports \in 0 .. CallMsgqLen /\ retry_count \in 0 .. MaxRetry
    /\ link \in {"up", "down"} /\ deacts \in 0 .. MaxDeact /\ missed \in BOOLEAN

\* A loss of the call is never overlooked: when the task waits and the call is down,
\* a report is in the queue, unless one found no memory, the retries are used up or
\* there is no queue, whose creation is not checked.
\* A full queue refuses reports and the task does not look at whose they are, yet one
\* report is enough to make it start the call, also when the loss happens while it
\* is starting.  It is the safety part of the promise that the call comes up again.
LossNoticed ==
    cpc = "wait" /\ msgq_ok /\ link = "down" => reports > 0 \/ missed \/ retry_count = MaxRetry
=============================================================================
