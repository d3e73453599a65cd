---------------------------- MODULE CellularDemo ----------------------------
(***************************************************************************)
(* The network demo (network/nic/cellular/demo/cellular_demo.c).           *)
(*                                                                         *)
(* A task watches the registration with the network.  While there is none  *)
(* it switches the modem's radio off and on again (cfun 0 and 1), each     *)
(* with an asynchronous request whose callback releases a semaphore the    *)
(* task waits on.                                                          *)
(*                                                                         *)
(* The modem and the network are external.  The parameters of the network  *)
(* and the events that are only shown are left out.                        *)
(***************************************************************************)
EXTENDS Integers, Sequences

CONSTANTS
    Period,     \* passes of the loop between two restarts of the modem (60)
    MaxCfun,    \* NW_DEMO_EXCUTE_CFUN_MAXTIME: restarts at most (10)
    MaxReg      \* bound: changes of the registration

\* The passes of a period can be counted; there may be no restarts.
ASSUME CellAssumption == Period \in Nat \ {0} /\ MaxCfun \in Nat /\ MaxReg \in Nat

VARIABLES
    npc,            \* the task
    is_attached,    \* result of the first wait for the network
    count,          \* passes of the loop, modulo Period
    cfun_count,     \* restarts of the modem so far
    cfun_sem,       \* whether qosa_sem_create gave a semaphore: a failure is only logged
    g_nw_demo_cfun_sem, \* its count
    asked,          \* modem: cfun requests it has not confirmed yet
    radio,          \* modem: its function, 0 (off) or 1 (on)
    reg,            \* network: the module is registered
    regs,           \* number of changes of reg
    failed          \* history: a request was refused or confirmed as failed

taskVars == <<is_attached, count, cfun_count>>
modem    == <<asked, radio>>
network  == <<reg, regs>>
cellVars == <<npc, taskVars, cfun_sem, g_nw_demo_cfun_sem, modem, network, failed>>

CellInit ==
    /\ npc = "attach" /\ is_attached = FALSE /\ count = 0 /\ cfun_count = 0
    /\ cfun_sem \in BOOLEAN /\ g_nw_demo_cfun_sem = 0 /\ asked = <<>> /\ radio = 1
    /\ reg \in BOOLEAN /\ regs = 0 /\ failed = FALSE

-----------------------------------------------------------------------------
(* The modem and the network.                                              *)

\* The modem carries out the oldest request, or fails to, and confirms it.
nw_demo_set_cfun_cb ==
    /\ asked # <<>>
    /\ \/ /\ radio' = Head(asked)
          /\ reg' = (reg /\ Head(asked) = 1)
          /\ UNCHANGED failed
       \/ failed' = TRUE /\ UNCHANGED <<radio, reg>>
    /\ asked' = Tail(asked)
    /\ g_nw_demo_cfun_sem' = IF cfun_sem THEN g_nw_demo_cfun_sem + 1 ELSE 0
    /\ UNCHANGED <<npc, taskVars, cfun_sem, regs>>

\* The module registers or loses its registration.
RegChange ==
    /\ radio = 1 /\ regs < MaxReg
    /\ reg' = ~reg /\ regs' = regs + 1
    /\ UNCHANGED <<npc, taskVars, cfun_sem, g_nw_demo_cfun_sem, modem, failed>>

-----------------------------------------------------------------------------
(* The task.                                                               *)

\* The wait for the network ends at its timeout.
WaitAttached ==
    /\ npc = "attach"
    /\ is_attached' = reg
    /\ npc' = IF reg THEN "monitor" ELSE "loop"
    /\ UNCHANGED <<count, cfun_count, cfun_sem, g_nw_demo_cfun_sem, modem, network, failed>>

\* The head of the first loop: after five seconds the pass is counted.
LoopHead ==
    /\ npc = "loop"
    /\ IF is_attached THEN npc' = "monitor" /\ UNCHANGED count
                      ELSE npc' = "wait_attach" /\ count' = (count + 1) % Period
    /\ UNCHANGED <<is_attached, cfun_count, cfun_sem, g_nw_demo_cfun_sem, modem, network, failed>>

\* The label wait_attach, which the second loop jumps to as well: its passes are
\* not counted, and the modem is restarted whenever the count is a multiple of the
\* period.
wait_attach ==
    /\ npc = "wait_attach"
    /\ npc' = IF reg THEN "monitor"
              ELSE IF count = 0 /\ cfun_count < MaxCfun THEN "cfun0" ELSE "loop"
    /\ UNCHANGED <<taskVars, cfun_sem, g_nw_demo_cfun_sem, modem, network, failed>>

\* qosa_dev_set_cfun: a refused request is only logged.
SetCfun(f) ==
    \/ asked' = Append(asked, f) /\ UNCHANGED failed
    \/ failed' = TRUE /\ UNCHANGED asked

\* Mutant: the radio is switched on without waiting for it to be off.
Cfun0_no_wait ==
    /\ npc = "cfun0"
    /\ SetCfun(0)
    /\ npc' = "cfun1"
    /\ UNCHANGED <<taskVars, cfun_sem, g_nw_demo_cfun_sem, radio, network>>

Cfun0 ==
    /\ npc = "cfun0"
    /\ SetCfun(0)
    /\ npc' = "wait0"
    /\ UNCHANGED <<taskVars, cfun_sem, g_nw_demo_cfun_sem, radio, network>>

Cfun1 ==
    /\ npc = "cfun1"
    /\ SetCfun(1)
    /\ npc' = "wait1"
    /\ UNCHANGED <<taskVars, cfun_sem, g_nw_demo_cfun_sem, radio, network>>

\* The task waits for ever for a confirmation, also of a refused request.  Without a
\* semaphore the wait fails at once, which the task does not look at.
WaitCfun ==
    /\ npc \in {"wait0", "wait1"}
    /\ \/ cfun_sem /\ g_nw_demo_cfun_sem > 0 /\ g_nw_demo_cfun_sem' = g_nw_demo_cfun_sem - 1
       \/ ~cfun_sem /\ UNCHANGED g_nw_demo_cfun_sem
    /\ IF npc = "wait0" THEN npc' = "cfun1" /\ UNCHANGED cfun_count
                        ELSE npc' = "loop" /\ cfun_count' = cfun_count + 1
    /\ UNCHANGED <<is_attached, count, cfun_sem, modem, network, failed>>

\* The second loop looks at the registration every ten seconds.
Monitor ==
    /\ npc = "monitor" /\ ~reg
    /\ npc' = "wait_attach"
    /\ UNCHANGED <<taskVars, cfun_sem, g_nw_demo_cfun_sem, modem, network, failed>>

nw_demo_task ==
    WaitAttached \/ LoopHead \/ wait_attach \/ Cfun0 \/ Cfun1 \/ WaitCfun \/ Monitor

-----------------------------------------------------------------------------
CellNext == nw_demo_task \/ nw_demo_set_cfun_cb \/ RegChange

CellSpec == CellInit /\ [][CellNext]_cellVars

-----------------------------------------------------------------------------
(* Properties.                                                             *)

\* Every variable has its type.
CellTypeOK ==
    /\ npc \in {"attach", "loop", "wait_attach", "cfun0", "wait0", "cfun1", "wait1",
               "monitor"}
    /\ is_attached \in BOOLEAN /\ count \in 0 .. Period - 1 /\ cfun_count \in 0 .. MaxCfun
    /\ cfun_sem \in BOOLEAN
    /\ g_nw_demo_cfun_sem \in Nat /\ asked \in Seq({0, 1}) /\ radio \in {0, 1}
    /\ reg \in BOOLEAN /\ regs \in 0 .. MaxReg /\ failed \in BOOLEAN

\* Confirmations and waits stay in step over any number of restarts: outside one
\* there is no confirmation left to come or to be taken, so that a later wait
\* cannot end early, and unless a request failed the radio is on again.  (A semaphore
\* that could not be created keeps nothing in step: the requests then follow each
\* other without a wait.)
CfunPaired ==
    cfun_sem =>
        /\ g_nw_demo_cfun_sem + Len(asked) <= 1
        /\ npc \notin {"wait0", "wait1"} => g_nw_demo_cfun_sem + Len(asked) = 0
        /\ npc \notin {"wait0", "cfun1", "wait1"} => failed \/ radio = 1

\* What makes it inductive: in the second wait the request is for the radio to be
\* on, and has done so when it is confirmed.
CfunInv ==
    /\ g_nw_demo_cfun_sem \in Nat /\ asked \in Seq({0, 1})
    /\ CfunPaired
    /\ cfun_sem /\ npc = "wait1" => /\ asked # <<>> => Head(asked) = 1
                                    /\ g_nw_demo_cfun_sem > 0 => failed \/ radio = 1

\* What makes the types inductive: a restart is begun only while some are left.
CellTypeInv ==
    /\ CellTypeOK
    /\ npc \in {"cfun0", "wait0", "cfun1", "wait1"} => cfun_count < MaxCfun
=============================================================================
