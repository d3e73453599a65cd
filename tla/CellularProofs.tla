--------------------------- MODULE CellularProofs ---------------------------
(***************************************************************************)
(* The network demo: for any period, any number of restarts and any        *)
(* behaviour of the network, confirmations and waits stay in step.         *)
(*                                                                         *)
(* The data call: for any capacity of the queue and any limit of retries,  *)
(* the task does not overlook that the call went down.                     *)
(*                                                                         *)
(* The SMS demo: for any number of SIMs, calls, records and indications,   *)
(* the memory that passes between applications, task and modem has one     *)
(* owner at every moment.                                                  *)
(*                                                                         *)
(* The composition of these and the synchronisation demos has what is      *)
(* proved of each.                                                         *)
(***************************************************************************)
EXTENDS MCSync, SyncProofs, SequenceTheorems, TLAPS

\* What a request does to the requests not confirmed yet.
LEMMA SetCfunAsks ==
    ASSUME NEW f \in {0, 1}, SetCfun(f), asked = <<>>
    PROVE  \/ asked' = <<f>> /\ failed' = failed
           \/ asked' = <<>> /\ failed' = TRUE
<1>1. Append(<<>>, f) = <<f>>
  OBVIOUS
<1> QED
  BY <1>1 DEF SetCfun

\* No request and no confirmation is left where the task does not wait.
LEMMA NothingLeft ==
    ASSUME CfunInv, cfun_sem, npc \notin {"wait0", "wait1"}
    PROVE  g_nw_demo_cfun_sem = 0 /\ asked = <<>>
<1>1. Len(asked) \in Nat /\ g_nw_demo_cfun_sem \in Nat
  BY LenProperties DEF CfunInv
<1>2. g_nw_demo_cfun_sem = 0 /\ Len(asked) = 0
  BY <1>1 DEF CfunInv, CfunPaired
<1> QED
  BY <1>2, EmptySeq DEF CfunInv

\* The modem confirms the only request there is.
LEMMA Confirmation ==
    ASSUME CfunInv, cfun_sem, nw_demo_set_cfun_cb
    PROVE  CfunInv'
<1>1. /\ Head(asked) \in {0, 1} /\ Tail(asked) \in Seq({0, 1})
      /\ Len(asked) \in Nat /\ Len(asked) > 0 /\ Len(Tail(asked)) = Len(asked) - 1
  BY HeadTailProperties, EmptySeq, LenProperties DEF CfunInv, nw_demo_set_cfun_cb
<1>2. g_nw_demo_cfun_sem = 0 /\ Len(asked) = 1 /\ npc \in {"wait0", "wait1"}
  BY <1>1 DEF CfunInv, CfunPaired
<1>3. asked' = <<>> /\ g_nw_demo_cfun_sem' = 1 /\ npc' = npc
  <2>1. Len(Tail(asked)) = 0
    BY <1>1, <1>2
  <2> QED
    BY <2>1, <1>1, <1>2, EmptySeq DEF nw_demo_set_cfun_cb
<1>4. Len(asked') = 0 /\ asked' \in Seq({0, 1})
  BY <1>3
<1>5. npc = "wait1" => failed' \/ radio' = 1
  BY <1>2 DEF CfunInv, nw_demo_set_cfun_cb
<1>6. CfunPaired'
  BY <1>2, <1>3, <1>4 DEF CfunPaired
<1> QED
  BY <1>3, <1>4, <1>5, <1>6 DEF CfunInv

\* The network, and the steps of the task that neither ask nor wait.
LEMMA OtherStep ==
    ASSUME CfunInv, RegChange \/ WaitAttached \/ LoopHead \/ wait_attach \/ Monitor
    PROVE  CfunInv'
<1>1. UNCHANGED <<cfun_sem, g_nw_demo_cfun_sem, modem, failed>>
  BY DEF RegChange, WaitAttached, LoopHead, wait_attach, Monitor
<1>2. \/ npc' = npc
      \/ /\ npc \in {"attach", "loop", "wait_attach", "monitor"}
         /\ npc' \in {"loop", "wait_attach", "monitor", "cfun0"}
  BY DEF RegChange, WaitAttached, LoopHead, wait_attach, Monitor
<1>3. CfunPaired'
  BY <1>1, <1>2 DEF CfunInv, CfunPaired, modem
<1> QED
  BY <1>1, <1>2, <1>3 DEF CfunInv, modem

\* The requests.
LEMMA AskStep ==
    ASSUME CfunInv, cfun_sem, Cfun0 \/ Cfun1
    PROVE  CfunInv'
<1>1. g_nw_demo_cfun_sem = 0 /\ asked = <<>>
  BY NothingLeft DEF Cfun0, Cfun1
<1>2. \/ npc = "cfun0" /\ npc' = "wait0" /\ SetCfun(0)
      \/ npc = "cfun1" /\ npc' = "wait1" /\ SetCfun(1)
  BY DEF Cfun0, Cfun1
<1>3. g_nw_demo_cfun_sem' = 0 /\ radio' = radio
  BY <1>1 DEF Cfun0, Cfun1
<1>4. PICK f \in {0, 1} :
         /\ npc' = "wait1" => f = 1
         /\ npc' \in {"wait0", "wait1"}
         /\ asked' = <<f>> \/ asked' = <<>>
  <2>1. CASE npc = "cfun0"
    BY <2>1, <1>1, <1>2, SetCfunAsks DEF SetCfun
  <2>2. CASE npc = "cfun1"
    BY <2>2, <1>1, <1>2, SetCfunAsks DEF SetCfun
  <2> QED
    BY <1>2, <2>1, <2>2
<1>5. /\ asked' \in Seq({0, 1}) /\ Len(asked') \in {0, 1}
      /\ asked' # <<>> => Head(asked') = f
  <2>1. <<f>> \in Seq({0, 1}) /\ Len(<<f>>) = 1 /\ Head(<<f>>) = f
    OBVIOUS
  <2>2. <<>> \in Seq({0, 1}) /\ Len(<<>>) = 0
    OBVIOUS
  <2>3. CASE asked' = <<f>>
    BY <2>1, <2>3
  <2>4. CASE asked' = <<>>
    BY <2>2, <2>4
  <2> QED
    BY <1>4, <2>3, <2>4
<1>6. CfunPaired'
  BY <1>3, <1>4, <1>5 DEF CfunPaired
<1> QED
  BY <1>3, <1>4, <1>5, <1>6 DEF CfunInv

\* A wait takes the confirmation of its own request.
LEMMA CfunWaitStep ==
    ASSUME CfunInv, cfun_sem, WaitCfun
    PROVE  CfunInv'
<1>1. Len(asked) \in Nat /\ g_nw_demo_cfun_sem \in Nat
  BY LenProperties DEF CfunInv
<1>2. g_nw_demo_cfun_sem = 1 /\ Len(asked) = 0
  BY <1>1 DEF CfunInv, CfunPaired, WaitCfun
<1>3. /\ g_nw_demo_cfun_sem' = 0 /\ asked' = asked /\ radio' = radio /\ failed' = failed
      /\ \/ npc = "wait0" /\ npc' = "cfun1"
         \/ npc = "wait1" /\ npc' = "loop"
  BY <1>2 DEF WaitCfun, modem
<1>4. npc = "wait1" => failed \/ radio = 1
  BY <1>2 DEF CfunInv
<1>5. CfunPaired'
  BY <1>2, <1>3, <1>4 DEF CfunPaired
<1> QED
  BY <1>3, <1>5 DEF CfunInv

\* Without a semaphore, whose creation is not checked, nothing but the types is kept.
LEMMA NoSemaphoreStep ==
    ASSUME CfunInv, ~cfun_sem, CellNext
    PROVE  CfunInv'
<1>1. ~cfun_sem'
  BY DEF CellNext, nw_demo_task, WaitAttached, LoopHead, wait_attach, Cfun0, Cfun1, WaitCfun,
     Monitor, nw_demo_set_cfun_cb, RegChange
<1>2. g_nw_demo_cfun_sem' \in Nat
  BY DEF CfunInv, CellNext, nw_demo_task, WaitAttached, LoopHead, wait_attach, Cfun0, Cfun1,
     WaitCfun, Monitor, nw_demo_set_cfun_cb, RegChange
<1>3. asked' \in Seq({0, 1})
  <2>1. asked \in Seq({0, 1}) /\ Append(asked, 0) \in Seq({0, 1}) /\ Append(asked, 1) \in Seq({0, 1})
    BY AppendProperties DEF CfunInv
  <2>2. asked # <<>> => Tail(asked) \in Seq({0, 1})
    BY <2>1, HeadTailProperties
  <2> QED
    BY <2>1, <2>2 DEF CellNext, nw_demo_task, WaitAttached, LoopHead, wait_attach, Cfun0, Cfun1,
       SetCfun, WaitCfun, Monitor, nw_demo_set_cfun_cb, RegChange, modem
<1> QED
  BY <1>1, <1>2, <1>3 DEF CfunInv, CfunPaired

\* For every period and all bounds: in cellular_demo.c the waits take the
\* confirmations of their own requests, and the radio is on outside a restart, once
\* the semaphore has been created.
THEOREM CellularPaired == CellSpec => []CfunPaired
<1>1. CellInit => CfunInv
  BY DEF CellInit, CfunInv, CfunPaired
<1>2. CfunInv /\ [CellNext]_cellVars => CfunInv'
  <2> SUFFICES ASSUME CfunInv, [CellNext]_cellVars PROVE CfunInv'
    OBVIOUS
  <2>1. CASE CellNext
    BY <2>1, Confirmation, OtherStep, AskStep, CfunWaitStep, NoSemaphoreStep
    DEF CellNext, nw_demo_task
  <2>2. CASE UNCHANGED cellVars
    BY <2>2 DEF cellVars, modem, CfunInv, CfunPaired
  <2> QED
    BY <2>1, <2>2
<1>3. CfunInv => CfunPaired
  BY DEF CfunInv
<1> QED
  BY <1>1, <1>2, <1>3, PTL DEF CellSpec

\* Every step of the network demo keeps the types: a restart begins only below the
\* limit, so that counting it at its end stays within.
THEOREM CellTypeCorrect == CellSpec => []CellTypeOK
<1>1. CellInit => CellTypeInv
  <2>1. CellInit => is_attached \in BOOLEAN /\ failed \in BOOLEAN /\ reg \in BOOLEAN
                   /\ cfun_sem \in BOOLEAN
    BY Zenon DEF CellInit
  <2>2. <<>> \in Seq({0, 1})
    OBVIOUS
  <2> QED
    BY <2>1, <2>2, CellAssumption DEF CellInit, CellTypeInv, CellTypeOK
<1>2. CellTypeInv /\ [CellNext]_cellVars => CellTypeInv'
  <2> SUFFICES ASSUME CellTypeInv, [CellNext]_cellVars PROVE CellTypeInv'
    OBVIOUS
  <2> USE CellAssumption DEF CellTypeInv, CellTypeOK, taskVars, modem, network
  <2>1. CASE WaitAttached \/ wait_attach \/ Monitor
    BY <2>1 DEF WaitAttached, wait_attach, Monitor
  <2>2. CASE LoopHead
    <3>1. (count + 1) % Period \in 0 .. Period - 1
      OBVIOUS
    <3> QED
      BY <2>2, <3>1 DEF LoopHead
  <2>3. ASSUME NEW f \in {0, 1}, SetCfun(f)
        PROVE  asked' \in Seq({0, 1}) /\ failed' \in BOOLEAN
    <3>1. Append(asked, f) \in Seq({0, 1})
      BY AppendProperties
    <3>2. failed' = failed \/ failed' = TRUE
      BY <2>3 DEF SetCfun
    <3>3. failed' \in BOOLEAN
      BY <3>2, Zenon
    <3> QED
      BY <2>3, <3>1, <3>3 DEF SetCfun
  <2>4. CASE Cfun0 \/ Cfun1
    <3>1. asked' \in Seq({0, 1}) /\ failed' \in BOOLEAN
      BY <2>3, <2>4 DEF Cfun0, Cfun1
    <3> QED
      BY <2>4, <3>1 DEF Cfun0, Cfun1
  <2>5. CASE WaitCfun
    BY <2>5 DEF WaitCfun
  <2>6. CASE nw_demo_set_cfun_cb
    <3>1. Head(asked) \in {0, 1} /\ Tail(asked) \in Seq({0, 1})
      BY <2>6, HeadTailProperties DEF nw_demo_set_cfun_cb
    <3>2. reg' \in BOOLEAN /\ failed' \in BOOLEAN
      BY <2>6 DEF nw_demo_set_cfun_cb
    <3> QED
      BY <2>6, <3>1, <3>2 DEF nw_demo_set_cfun_cb
  <2>7. CASE RegChange
    BY <2>7 DEF RegChange
  <2>8. CASE UNCHANGED cellVars
    BY <2>8 DEF cellVars
  <2> QED
    BY <2>1, <2>2, <2>4, <2>5, <2>6, <2>7, <2>8 DEF CellNext, nw_demo_task
<1>3. CellTypeInv => CellTypeOK
  BY DEF CellTypeInv
<1> QED
  BY <1>1, <1>2, <1>3, PTL DEF CellSpec

-----------------------------------------------------------------------------
(* The data call.                                                          *)

\* The types of the data call demo: its queue keeps its capacity and its counter of
\* failed starts the limit.
THEOREM CallTypeCorrect == CallSpec => []CallTypeOK
<1>1. CallInit => CallTypeOK
  <2>1. CallInit => missed \in BOOLEAN /\ msgq_ok \in BOOLEAN
    BY Zenon DEF CallInit
  <2> QED
    BY <2>1, CallAssumption DEF CallInit, CallTypeOK
<1>2. CallTypeOK /\ [CallNext]_callVars => CallTypeOK'
  <2> SUFFICES ASSUME CallTypeOK, [CallNext]_callVars PROVE CallTypeOK'
    OBVIOUS
  <2> USE CallAssumption DEF CallTypeOK
  <2>1. CASE datacall_demo_task
    BY <2>1 DEF datacall_demo_task, Attach, FirstCall, TakeReport, CallOk, CallFails
  <2>2. CASE Deactivate
    <3>1. missed' \in BOOLEAN
      BY <2>2 DEF Deactivate, datacall_nw_deact_pdp_cb
    <3> QED
      BY <2>2, <3>1 DEF Deactivate, datacall_nw_deact_pdp_cb
  <2>3. CASE UNCHANGED callVars
    BY <2>3 DEF callVars
  <2> QED
    BY <2>1, <2>2, <2>3 DEF CallNext
<1> QED
  BY <1>1, <1>2, PTL DEF CallSpec

\* For every capacity of the queue and every limit: datacall_demo_task never waits
\* with the call down and nothing in its queue, unless a report found no memory,
\* the retries are used up or there is no queue.
THEOREM CallLossNoticed == CallSpec => []LossNoticed
<1>1. CallInit => LossNoticed
  BY DEF CallInit, LossNoticed
<1>2. CallTypeOK /\ LossNoticed /\ [CallNext]_callVars => LossNoticed'
  <2> SUFFICES ASSUME CallTypeOK, LossNoticed, [CallNext]_callVars PROVE LossNoticed'
    OBVIOUS
  <2> USE CallAssumption DEF LossNoticed
  <2>1. CASE datacall_demo_task
    BY <2>1 DEF datacall_demo_task, Attach, FirstCall, TakeReport, CallOk, CallFails, CallTypeOK
  <2>2. CASE Deactivate
    BY <2>2 DEF Deactivate, datacall_nw_deact_pdp_cb, CallTypeOK
  <2>3. CASE UNCHANGED callVars
    BY <2>3 DEF callVars
  <2> QED
    BY <2>1, <2>2, <2>3 DEF CallNext
<1> QED
  BY <1>1, <1>2, CallTypeCorrect, PTL DEF CallSpec

-----------------------------------------------------------------------------
(* The SMS demo.                                                           *)

\* What the invariant says apart from the settings.
HandlingInv ==
    RequestsTypeOK /\ RequestsOnce /\ ContextsPlaced /\ ListingOwned /\ PayloadOwned

handling == <<sms_pc, sms_msgq, cur, memory, pend>>

\* The demo starts within its invariant.
LEMMA SmsStart == SmsInit => SmsInv
<1> SUFFICES ASSUME SmsInit PROVE SmsInv
  OBVIOUS
<1> USE DEF SmsInit
<1>1. SettingsTypeOK
  BY SmsAssumption DEF SettingsTypeOK, Stores
<1>2. NoCtx \in Contexts
  <2>1. [k \in 1 .. 0 |-> k] = <<>> /\ 0 \in 0 .. MaxList
    BY SmsAssumption
  <2>2. <<>> \in Lists
    BY <2>1, Zenon DEF Lists
  <2>3. <<>> \in Seq(1 .. MaxList)
    OBVIOUS
  <2> QED
    BY <2>1, <2>2, <2>3 DEF NoCtx, Contexts, Stores
<1>3. sms_msgq \in Seq(Requests) /\ Len(sms_msgq) = 0
  OBVIOUS
<1>4. RequestsTypeOK
  BY <1>2, <1>3, SmsAssumption DEF RequestsTypeOK
<1>5. RequestsOnce /\ ContextsPlaced
  BY <1>3, SmsAssumption DEF RequestsOnce, ContextsPlaced, NoReq, NoCtx
<1>6. ListingOwned
  <2>1. <<>> = SubSeq(<<>>, 1, 0) /\ Len(<<>>) = 0
    OBVIOUS
  <2> SUFFICES ASSUME NEW i \in Ids PROVE OwnedListing(i)
    BY DEF ListingOwned
  <2>2. ctxs[i].shown = <<>> /\ ctxs[i].list = <<>> /\ ctxs[i].st = "none"
    BY DEF NoCtx
  <2>3. Owed(i) = {}
    BY DEF Owed
  <2> QED
    BY <2>1, <2>2, <2>3 DEF OwnedListing, Begins
<1>7. PayloadOwned
  BY <1>3 DEF PayloadOwned, NoReq
<1> QED
  BY <1>1, <1>4, <1>5, <1>6, <1>7 DEF SmsInv, SmsTypeOK

\* The settings and the indications keep their types.
LEMMA SettingsStep ==
    ASSUME SettingsTypeOK, [SmsNext]_smsVars
    PROVE  SettingsTypeOK'
<1>1. CASE UNCHANGED <<settings, events, app, unfreed>>
  BY <1>1 DEF SettingsTypeOK, settings, events
<1>2. CASE qosa_sms_set_sim_id
  BY <1>2 DEF SettingsTypeOK, qosa_sms_set_sim_id, events
<1>3. CASE qosa_sms_set_memory_config
  BY <1>3 DEF SettingsTypeOK, qosa_sms_set_memory_config, events
<1>4. CASE quecos_modem_sms_status_event_cb
  <2>1. inds' \in Seq(Inds) /\ ninds' \in 0 .. MaxInd
    BY <1>4, SmsAssumption DEF SettingsTypeOK, quecos_modem_sms_status_event_cb
  <2> QED
    BY <1>4, <2>1 DEF SettingsTypeOK, quecos_modem_sms_status_event_cb, settings
<1>5. CASE qosa_sms_demo_sms_indicate_hdlr
  <2>1. Head(inds) \in Inds /\ Tail(inds) \in Seq(Inds)
    BY <1>5, HeadTailProperties DEF SettingsTypeOK, qosa_sms_demo_sms_indicate_hdlr
  <2>2. Head(inds).simid \in Sims
    BY <2>1 DEF Inds
  <2> QED
    BY <1>5, <2>1, <2>2 DEF SettingsTypeOK, qosa_sms_demo_sms_indicate_hdlr
<1>6. CASE qosa_sms_demo_sms_status_handler
  <2> USE DEF SettingsTypeOK, qosa_sms_demo_sms_status_handler
  <2>1. mem_ready' \in [Sims -> BOOLEAN]
    BY <1>6
  <2>2. mem1' \in [Sims -> Stores]
    BY <1>6
  <2>3. sms_conf' \in Stores \cup {"none", "stored"} /\ center' \in Inds \cup {NoInd}
    BY <1>6
  <2> QED
    BY <1>6, <2>1, <2>2, <2>3
<1>7. CASE Modem
  <2>1. ASSUME NEW p \in pend, qosa_sms_demo_read_msg_rsp(p) PROVE SettingsTypeOK'
    BY <2>1 DEF qosa_sms_demo_read_msg_rsp, SettingsTypeOK, settings, events
  <2> QED
    BY <1>1, <1>7, <2>1 DEF Modem, qosa_sms_demo_list_msg_rsp
<1>8. CASE qosa_sms_demo_task
  BY <1>1, <1>8 DEF qosa_sms_demo_task, TaskStart, TaskWait, qosa_sms_demo_handle_send_sms,
     qosa_sms_demo_get_mem, AskRecord, qosa_sms_demo_list_sms_init, qosa_sms_demo_list_sms
<1>9. CASE App
  BY <1>1, <1>2, <1>3, <1>9 DEF App, qosa_sms_send_message, qosa_sms_read_message,
     qosa_sms_delete_message, qosa_sms_list_messages, qosa_sms_stop, Request
<1>10. CASE UNCHANGED smsVars
  BY <1>1, <1>10 DEF smsVars
<1> QED
  BY <1>4, <1>5, <1>6, <1>7, <1>8, <1>9, <1>10 DEF SmsNext, Center

\* A listing stays owned while its context, its answers and the task's place stay.
LEMMA OwnedKept ==
    ASSUME NEW i, OwnedListing(i), ctxs'[i] = ctxs[i], Owed(i)' = Owed(i),
           Starting(i)' <=> Starting(i)
    PROVE  OwnedListing(i)'
BY DEF OwnedListing

\* The numbers of requests, as the provers need them.
LEMMA QueueTyped ==
    ASSUME RequestsTypeOK
    PROVE  /\ cur.id \in Nat /\ cur.id \in Ids \cup {0}
           /\ \A k \in 1 .. Len(sms_msgq) :
                 sms_msgq[k] \in Requests /\ sms_msgq[k].id \in Ids /\ sms_msgq[k].id \in Nat
           /\ Len(sms_msgq) \in Nat /\ calls \in Nat /\ calls <= MaxCalls
<1>1. cur \in Requests \/ cur = NoReq
  BY DEF RequestsTypeOK
<1>2. NoReq.id = 0
  BY DEF NoReq
<1>3. \A r \in Requests : r.id \in Ids /\ r.id \in Nat
  BY SmsAssumption DEF Requests, Ids
<1>4. \A k \in 1 .. Len(sms_msgq) : sms_msgq[k] \in Requests
  BY ElementOfSeq DEF RequestsTypeOK
<1>5. Len(sms_msgq) \in Nat /\ calls \in Nat /\ calls <= MaxCalls
  BY LenProperties, SmsAssumption DEF RequestsTypeOK
<1> QED
  BY <1>1, <1>2, <1>3, <1>4, <1>5

\* Steps that touch only the settings.
LEMMA SettingsOnly ==
    ASSUME HandlingInv, UNCHANGED handling, calls' \in calls .. MaxCalls
    PROVE  HandlingInv'
<1>1. calls \in 0 .. MaxCalls /\ calls' \in 0 .. MaxCalls /\ calls <= calls'
  BY SmsAssumption DEF HandlingInv, RequestsTypeOK
<1>2. RequestsTypeOK'
  BY <1>1 DEF HandlingInv, RequestsTypeOK, handling, memory
<1>3. RequestsOnce'
  <2>1. cur.id \in Nat /\ \A k \in 1 .. Len(sms_msgq) : sms_msgq[k].id \in Nat
    BY QueueTyped DEF HandlingInv
  <2> QED
    BY <1>1, <2>1 DEF HandlingInv, RequestsOnce, handling, memory, Ids
<1>4. ContextsPlaced' /\ PayloadOwned'
  BY DEF HandlingInv, ContextsPlaced, PayloadOwned, handling, memory
<1>5. ListingOwned'
  BY DEF HandlingInv, ListingOwned, OwnedListing, Owed, Starting, handling, memory
<1> QED
  BY <1>2, <1>3, <1>4, <1>5 DEF HandlingInv

\* A request, or EXIT, is put on the queue.
LEMMA QueueGrows ==
    ASSUME HandlingInv, NEW t \in Types \cup {"EXIT"}, NewCall,
           Queue, Len(sms_msgq) < SmsQueueLen, sms_msgq' = Append(sms_msgq, Req(t)),
           payloads' = payloads \cup (IF t = "EXIT" THEN {} ELSE {calls + 1}),
           UNCHANGED <<sms_pc, cur, ctxs, pend>>
    PROVE  HandlingInv'
<1> DEFINE n == Len(sms_msgq) + 1
<1>0. RequestsTypeOK /\ RequestsOnce
  BY DEF HandlingInv
<1>1. /\ calls \in Nat /\ calls + 1 \in Ids /\ calls' = calls + 1 /\ calls' \in 0 .. MaxCalls
      /\ calls + 1 \in Nat
  BY <1>0, SmsAssumption DEF NewCall, Ids, RequestsTypeOK
<1>2. /\ Req(t) \in Requests /\ Req(t).id = calls + 1 /\ Req(t).type = t
  BY <1>1 DEF Req, Requests, Stores
<1>3. /\ sms_msgq' \in Seq(Requests) /\ Len(sms_msgq') = n /\ sms_msgq'[n] = Req(t)
      /\ \A k \in 1 .. Len(sms_msgq) : sms_msgq'[k] = sms_msgq[k]
  BY <1>0, <1>2, AppendProperties DEF RequestsTypeOK
<1>4. /\ cur.id \in Nat /\ Len(sms_msgq) \in Nat /\ SmsQueueLen \in Nat
      /\ \A k \in 1 .. Len(sms_msgq) : sms_msgq[k].id \in Nat
  BY <1>0, QueueTyped, SmsAssumption
<1>5. RequestsTypeOK'
  <2>1. payloads' \subseteq Ids
    BY <1>0, <1>1 DEF RequestsTypeOK
  <2> QED
    BY <1>0, <1>1, <1>3, <1>4, <2>1 DEF RequestsTypeOK
<1>6. 1 .. n = (1 .. Len(sms_msgq)) \cup {n}
  BY <1>4
<1>7. RequestsOnce'
  <2>1. ASSUME NEW k \in 1 .. n
        PROVE  /\ sms_msgq'[k].id <= calls' /\ sms_msgq'[k].id # cur.id
               /\ ctxs[sms_msgq'[k].id].st = "none"
               /\ \A j \in 1 .. n : sms_msgq'[j].id = sms_msgq'[k].id => j = k
    <3>0. \A j \in 1 .. Len(sms_msgq) : sms_msgq'[j].id \in Nat /\ sms_msgq'[j].id <= calls
      BY <1>0, <1>3, <1>4 DEF RequestsOnce
    <3>1. CASE k = n
      <4>1. sms_msgq'[k].id = calls + 1 /\ cur.id <= calls
        BY <1>0, <1>2, <1>3, <3>1 DEF RequestsOnce
      <4>2. ctxs[calls + 1].st = "none"
        BY <1>0, <1>1 DEF RequestsOnce
      <4>3. \A j \in 1 .. Len(sms_msgq) : sms_msgq'[j].id # calls + 1
        BY <1>1, <3>0
      <4> QED
        BY <1>1, <1>4, <1>6, <3>1, <4>1, <4>2, <4>3
    <3>2. CASE k \in 1 .. Len(sms_msgq)
      <4>1. sms_msgq'[k].id = sms_msgq[k].id /\ sms_msgq'[n].id = calls + 1
        BY <1>2, <1>3, <3>2
      <4>2. sms_msgq'[n].id # sms_msgq'[k].id
        BY <1>1, <3>0, <3>2, <4>1
      <4> QED
        BY <1>0, <1>1, <1>3, <1>4, <1>6, <3>0, <3>2, <4>1, <4>2 DEF RequestsOnce
    <3> QED
      BY <1>6, <3>1, <3>2
  <2>2. \A i \in Ids : i > calls' => ctxs[i].st = "none"
    BY <1>0, <1>1, SmsAssumption DEF RequestsOnce, Ids
  <2>3. cur.id <= calls'
    BY <1>0, <1>1, <1>4 DEF RequestsOnce
  <2> QED
    BY <1>0, <1>3, <2>1, <2>2, <2>3 DEF RequestsOnce
<1>8. ContextsPlaced'
  BY DEF HandlingInv, ContextsPlaced
<1>9. ListingOwned'
  BY DEF HandlingInv, ListingOwned, OwnedListing, Owed, Starting
<1>10. PayloadOwned'
  <2>1. {sms_msgq'[k].id : k \in {j \in 1 .. n : sms_msgq'[j].type # "EXIT"}}
        = {sms_msgq[k].id : k \in {j \in 1 .. Len(sms_msgq) : sms_msgq[j].type # "EXIT"}}
          \cup (IF t = "EXIT" THEN {} ELSE {calls + 1})
    BY <1>2, <1>3, <1>4, <1>6
  <2> QED
    BY <1>3, <2>1 DEF HandlingInv, PayloadOwned, Queue
<1> QED
  BY <1>5, <1>7, <1>8, <1>9, <1>10 DEF HandlingInv

\* The API: what is posted, refused or only selected.
LEMMA AppStep ==
    ASSUME HandlingInv, App
    PROVE  HandlingInv'
<1>0. calls \in Nat /\ calls <= MaxCalls /\ MaxCalls \in Nat
  BY QueueTyped, SmsAssumption DEF HandlingInv
<1>1. NewCall => calls' \in calls .. MaxCalls
  BY <1>0 DEF NewCall
<1>2. calls' = calls => calls' \in calls .. MaxCalls
  BY <1>0
<1>3. ASSUME NEW t \in Types, Request(t) PROVE HandlingInv'
  <2>1. CASE Queue /\ Len(sms_msgq) < SmsQueueLen
    <3>1. t # "EXIT"
      BY DEF Types
    <3>2. /\ NewCall /\ sms_msgq' = Append(sms_msgq, Req(t))
          /\ payloads' = payloads \cup {calls + 1} /\ UNCHANGED <<sms_pc, cur, ctxs, pend>>
      BY <1>3, <2>1 DEF Request, Post
    <3> QED
      BY <2>1, <3>1, <3>2, QueueGrows
  <2>2. CASE ~(Queue /\ Len(sms_msgq) < SmsQueueLen)
    BY <1>1, <1>3, <2>2, SettingsOnly DEF Request, Post, handling, memory
  <2> QED
    BY <2>1, <2>2
<1>4. CASE qosa_sms_stop
  <2>1. CASE Queue /\ Len(sms_msgq) < SmsQueueLen
    <3>1. /\ NewCall /\ sms_msgq' = Append(sms_msgq, Req("EXIT"))
          /\ payloads' = payloads \cup {} /\ UNCHANGED <<sms_pc, cur, ctxs, pend>>
      BY <1>4, <2>1 DEF qosa_sms_stop, memory
    <3> QED
      BY <2>1, <3>1, QueueGrows
  <2>2. CASE ~(Queue /\ Len(sms_msgq) < SmsQueueLen)
    BY <1>1, <1>4, <2>2, SettingsOnly DEF qosa_sms_stop, handling, memory
  <2> QED
    BY <2>1, <2>2
<1>5. CASE qosa_sms_set_sim_id \/ qosa_sms_set_memory_config
  BY <1>1, <1>2, <1>5, SettingsOnly
  DEF qosa_sms_set_sim_id, qosa_sms_set_memory_config, handling
<1> QED
  BY <1>3, <1>4, <1>5 DEF App, qosa_sms_send_message, qosa_sms_read_message,
     qosa_sms_delete_message, qosa_sms_list_messages, Types

\* The records of a list are numbered from 1.
LEMMA ListTyped ==
    ASSUME NEW l \in Lists
    PROVE  /\ l \in Seq(1 .. MaxList) /\ Len(l) \in 0 .. MaxList
           /\ \A k \in 1 .. Len(l) : l[k] \in 1 .. MaxList
<1>1. PICK n \in 0 .. MaxList : l = [k \in 1 .. n |-> k]
  BY Zenon DEF Lists
<1>2. n \in Nat /\ \A k \in 1 .. n : k \in 1 .. MaxList
  BY SmsAssumption
<1>3. l \in Seq(1 .. MaxList)
  BY <1>1, <1>2
<1> QED
  BY <1>1, <1>2, <1>3

\* A beginning of a list and the next record are a longer beginning.
LEMMA LongerPrefix ==
    ASSUME NEW S, NEW l \in Seq(S), NEW s \in Seq(S), Begins(s, l),
           Len(s) + 1 \in 1 .. Len(l), NEW x, x = l[Len(s) + 1]
    PROVE  /\ Append(s, x) \in Seq(S) /\ Len(Append(s, x)) = Len(s) + 1
           /\ Begins(Append(s, x), l)
<1> DEFINE n == Len(s) + 1
           t == Append(s, l[n])
<1>1. Len(s) \in Nat /\ Len(l) \in Nat /\ n \in 1 .. Len(l) /\ l[n] \in S
  BY LenProperties, ElementOfSeq
<1>2. /\ t \in Seq(S) /\ Len(t) = n /\ t[n] = l[n]
      /\ \A k \in 1 .. Len(s) : t[k] = s[k]
  BY <1>1, AppendProperties
<1>3. \A k \in 1 .. Len(s) : s[k] = l[k]
  <2>1. \A k \in 1 .. Len(s) : SubSeq(l, 1, Len(s))[k] = l[k]
    BY <1>1, SubSeqProperties
  <2> QED
    BY <2>1 DEF Begins
<1>4. /\ SubSeq(l, 1, n) \in Seq(S) /\ Len(SubSeq(l, 1, n)) = n
      /\ \A k \in 1 .. n : SubSeq(l, 1, n)[k] = l[k]
  BY <1>1, SubSeqProperties
<1>5. \A k \in 1 .. n : t[k] = SubSeq(l, 1, n)[k]
  <2>1. \A k \in 1 .. n : k = n \/ k \in 1 .. Len(s)
    BY <1>1
  <2> QED
    BY <1>2, <1>3, <1>4, <2>1
<1>6. t = SubSeq(l, 1, n)
  BY <1>2, <1>4, <1>5, SeqEqual
<1> QED
  BY <1>1, <1>2, <1>6 DEF Begins

\* A context whose current record is shown has shown all records up to its position.
LEMMA RecordShown ==
    ASSUME NEW c \in Contexts, Begins(c.shown, c.list),
           c.cur_pos \in 1 .. Len(c.list), Len(c.shown) = c.cur_pos - 1,
           NEW x, x = c.list[c.cur_pos],
           NEW e, e = [c EXCEPT !.shown = Append(@, x)]
    PROVE  /\ e \in Contexts /\ e.st = c.st /\ Len(e.shown) = e.cur_pos
           /\ Begins(e.shown, e.list)
<1>1. /\ c.list \in Seq(1 .. MaxList) /\ c.shown \in Seq(1 .. MaxList)
      /\ c.cur_pos \in Nat /\ Len(c.list) \in Nat
  BY ListTyped DEF Contexts
<1>2. /\ Len(c.shown) + 1 = c.cur_pos /\ Len(c.shown) + 1 \in 1 .. Len(c.list)
      /\ x = c.list[Len(c.shown) + 1]
  BY <1>1
<1>3. /\ Append(c.shown, x) \in Seq(1 .. MaxList)
      /\ Len(Append(c.shown, x)) = Len(c.shown) + 1
      /\ Begins(Append(c.shown, x), c.list)
  BY <1>1, <1>2, LongerPrefix
<1>4. /\ e \in Contexts /\ e.st = c.st /\ e.list = c.list /\ e.cur_pos = c.cur_pos
      /\ e.shown = Append(c.shown, x)
  BY <1>3 DEF Contexts
<1> QED
  BY <1>2, <1>3, <1>4

\* A listing that has shown all records up to its position goes on with the next one,
\* owed one answer, or is freed and owed none; no other listing is touched.
LEMMA GoesOn ==
    ASSUME RequestsTypeOK, qosa_sms_simid \in Sims, NEW i \in Ids, NEW c \in Contexts,
           c.st = "live", Begins(c.shown, c.list),
           Len(c.shown) = c.cur_pos,
           NEW rest \in SUBSET Asked, \A p \in rest : p.type = "LIST" => p.id # i,
           ReadNext(i, c, rest), ~Starting(i)'
    PROVE  /\ pend' \subseteq Asked
           /\ \E d \in Contexts : ctxs' = [ctxs EXCEPT ![i] = d] /\ d.st # "none"
           /\ OwnedListing(i)'
           /\ \A j \in Ids \ {i} : Owed(j)' = {p \in rest : p.type = "LIST" /\ p.id = j}
<1>1. ctxs \in [Ids -> Contexts]
  BY DEF RequestsTypeOK
<1>2. /\ c.list \in Seq(1 .. MaxList) /\ Len(c.list) \in 0 .. MaxList
      /\ \A k \in 1 .. Len(c.list) : c.list[k] \in 1 .. MaxList
  BY ListTyped DEF Contexts
<1>3. c.cur_pos \in Nat
  BY DEF Contexts
<1>4. CASE /\ qosa_sms_demo_delete_sms_deinit_ex(i, c)
           /\ pend' = rest
  <2> DEFINE d == [c EXCEPT !.st = "freed"]
  <2>1. d \in Contexts /\ d.st = "freed" /\ d.shown = c.shown /\ d.list = c.list
    BY DEF Contexts
  <2>2. ctxs' = [ctxs EXCEPT ![i] = d] /\ ctxs'[i] = d
    BY <1>1, <1>4 DEF qosa_sms_demo_delete_sms_deinit_ex
  <2>3. Owed(i)' = {}
    BY <1>4 DEF Owed
  <2>4. OwnedListing(i)'
    BY <2>1, <2>2, <2>3 DEF OwnedListing
  <2>5. \A j \in Ids \ {i} : Owed(j)' = {p \in rest : p.type = "LIST" /\ p.id = j}
    BY <1>4 DEF Owed
  <2> QED
    BY <1>4, <2>1, <2>2, <2>4, <2>5
<1>5. CASE /\ c.cur_pos < Len(c.list)
           /\ LET n == qosa_sms_demo_list_sms_fetch_next_ex(c) IN
                 /\ ctxs' = [ctxs EXCEPT ![i] = n]
                 /\ pend' = rest \cup {Ask("LIST", i, n.stor, n.list[n.cur_pos])}
  <2> DEFINE d == [c EXCEPT !.cur_pos = @ + 1]
             q == [type |-> "LIST", id |-> i, sim |-> qosa_sms_simid,
                   stor |-> d.stor, index |-> d.list[d.cur_pos]]
  <2>1. c.cur_pos + 1 \in 1 .. Len(c.list) /\ c.cur_pos + 1 \in 0 .. MaxList
    BY <1>2, <1>3, <1>5, SmsAssumption
  <2>2. /\ d \in Contexts /\ d.st = "live" /\ d.shown = c.shown /\ d.list = c.list
        /\ d.stor = c.stor /\ d.cur_pos = c.cur_pos + 1 /\ d.stor \in Stores
    BY <2>1 DEF Contexts
  <2>3. ctxs' = [ctxs EXCEPT ![i] = d] /\ ctxs'[i] = d /\ pend' = rest \cup {q}
    BY <1>1, <1>5 DEF qosa_sms_demo_list_sms_fetch_next_ex, Ask
  <2>4. q \in Asked
    <3>1. d.list[d.cur_pos] \in 0 .. MaxList
      BY <1>2, <2>1, <2>2, SmsAssumption
    <3> QED
      BY <2>2, <3>1 DEF Asked, Types
  <2>5. Owed(i)' = {q}
    BY <2>3 DEF Owed
  <2>6. OwnedListing(i)'
    <3>1. d.cur_pos \in 1 .. Len(d.list) /\ Len(d.shown) = d.cur_pos - 1
      BY <1>3, <2>1, <2>2
    <3>2. Begins(d.shown, d.list)
      BY <2>2
    <3>3. \E s \in Sims : Owed(i)' = {[type |-> "LIST", id |-> i, sim |-> s,
                                       stor |-> d.stor, index |-> d.list[d.cur_pos]]}
      BY <2>5
    <3> QED
      BY <2>2, <2>3, <3>1, <3>2, <3>3 DEF OwnedListing
  <2>7. \A j \in Ids \ {i} : Owed(j)' = {p \in rest : p.type = "LIST" /\ p.id = j}
    BY <2>3 DEF Owed
  <2> QED
    BY <2>2, <2>3, <2>4, <2>6, <2>7
<1> QED
  BY <1>4, <1>5 DEF ReadNext

\* An answer to a listing is the only one its context is waiting for.
LEMMA OnlyAnswer ==
    ASSUME HandlingInv, NEW p \in pend, p.type = "LIST"
    PROVE  /\ p \in Asked /\ p.id \in Ids /\ ctxs[p.id] \in Contexts
           /\ ctxs[p.id].st = "live" /\ ~Starting(p.id) /\ Owed(p.id) = {p}
           /\ p.index = ctxs[p.id].list[ctxs[p.id].cur_pos]
           /\ ctxs[p.id].cur_pos \in 1 .. Len(ctxs[p.id].list)
           /\ Len(ctxs[p.id].shown) = ctxs[p.id].cur_pos - 1
           /\ Begins(ctxs[p.id].shown, ctxs[p.id].list)
<1>1. p \in Asked
  BY DEF HandlingInv, RequestsTypeOK
<1>2. p.id \in Ids
  BY <1>1 DEF Asked
<1>3. ctxs[p.id] \in Contexts
  BY <1>2 DEF HandlingInv, RequestsTypeOK
<1>4. p \in Owed(p.id) /\ OwnedListing(p.id)
  BY <1>2 DEF Owed, HandlingInv, ListingOwned
<1>5. ctxs[p.id].st = "live" /\ ~Starting(p.id)
  BY <1>4 DEF OwnedListing
<1>6. PICK s \in Sims : Owed(p.id) = {[type |-> "LIST", id |-> p.id, sim |-> s,
                 stor |-> ctxs[p.id].stor, index |-> ctxs[p.id].list[ctxs[p.id].cur_pos]]}
  BY <1>4, <1>5 DEF OwnedListing
<1>7. p = [type |-> "LIST", id |-> p.id, sim |-> s,
           stor |-> ctxs[p.id].stor, index |-> ctxs[p.id].list[ctxs[p.id].cur_pos]]
  BY <1>4, <1>6
<1>8. p.index = ctxs[p.id].list[ctxs[p.id].cur_pos] /\ Owed(p.id) = {p}
  BY <1>6, <1>7
<1> QED
  BY <1>1, <1>2, <1>3, <1>4, <1>5, <1>8 DEF OwnedListing

\* What an answer leaves of the invariant, however its listing goes on.
LEMMA AnswerKeepsInv ==
    ASSUME HandlingInv, NEW p \in pend, p.type = "LIST", pend' \subseteq Asked,
           NEW d \in Contexts, ctxs' = [ctxs EXCEPT ![p.id] = d], OwnedListing(p.id)',
           \A j \in Ids \ {p.id} : Owed(j)' = Owed(j),
           UNCHANGED <<sms_pc, sms_msgq, cur, payloads, calls>>
    PROVE  HandlingInv'
<1>0. RequestsTypeOK /\ RequestsOnce /\ ContextsPlaced
  BY DEF HandlingInv
<1>1. p.id \in Ids /\ ctxs[p.id].st = "live" /\ ~Starting(p.id)
  BY OnlyAnswer
<1>2. ctxs \in [Ids -> Contexts] /\ \A j \in Ids : j # p.id => ctxs'[j] = ctxs[j]
  BY <1>0 DEF RequestsTypeOK
<1>3. RequestsTypeOK'
  BY <1>0, <1>2 DEF RequestsTypeOK
<1>4. RequestsOnce'
  <2>1. \A k \in 1 .. Len(sms_msgq) : sms_msgq[k].id \in Ids /\ sms_msgq[k].id # p.id
    BY <1>0, <1>1, QueueTyped DEF RequestsOnce
  <2>2. ~(p.id > calls)
    BY <1>0, <1>1 DEF RequestsOnce
  <2> QED
    BY <1>0, <1>2, <2>1, <2>2 DEF RequestsOnce
<1>5. ContextsPlaced'
  <2>1. sms_pc \in {"handle", "request", "list"} => cur.id \in Ids /\ cur.id # p.id
    <3>1. sms_pc \in {"handle", "request", "list"} => cur.id \in Ids
      <4>1. sms_pc \in {"handle", "request", "list"} => cur \in Requests
        BY <1>0 DEF RequestsOnce, RequestsTypeOK
      <4> QED
        BY <4>1 DEF Requests
    <3> QED
      BY <1>0, <1>1, <3>1 DEF ContextsPlaced, Starting
  <2> QED
    BY <1>0, <1>2, <2>1 DEF ContextsPlaced
<1>6. ListingOwned'
  <2> SUFFICES ASSUME NEW j \in Ids PROVE OwnedListing(j)'
    BY DEF ListingOwned
  <2>1. CASE j # p.id
    <3>1. OwnedListing(j) /\ ctxs'[j] = ctxs[j] /\ Owed(j)' = Owed(j)
          /\ (Starting(j)' <=> Starting(j))
      BY <1>2, <2>1 DEF HandlingInv, ListingOwned, Starting
    <3> QED
      BY <3>1, OwnedKept
  <2> QED
    BY <2>1
<1>7. PayloadOwned'
  BY DEF HandlingInv, PayloadOwned
<1> QED
  BY <1>3, <1>4, <1>5, <1>6, <1>7 DEF HandlingInv

\* qosa_sms_demo_list_msg_rsp: the record is shown and the listing goes on, or the
\* listing ends.
LEMMA ListAnswered ==
    ASSUME HandlingInv, qosa_sms_simid \in Sims, NEW p \in pend, qosa_sms_demo_list_msg_rsp(p)
    PROVE  HandlingInv'
<1>0. /\ p.type = "LIST" /\ UNCHANGED <<sms_pc, sms_msgq, cur, payloads, calls>>
      /\ RequestsTypeOK
  BY DEF qosa_sms_demo_list_msg_rsp, HandlingInv
<1>1. PICK c \in Contexts : c = ctxs[p.id]
  BY <1>0, OnlyAnswer
<1>2. /\ p.id \in Ids /\ c.st = "live" /\ ~Starting(p.id)
      /\ p.index = c.list[c.cur_pos] /\ c.cur_pos \in 1 .. Len(c.list)
      /\ Len(c.shown) = c.cur_pos - 1 /\ Begins(c.shown, c.list)
      /\ Owed(p.id) = {p}
  BY <1>0, <1>1, OnlyAnswer
<1>3. PICK rest \in SUBSET Asked : rest = pend \ {p}
  BY <1>0 DEF RequestsTypeOK
<1>4. /\ \A q \in rest : q.type = "LIST" => q.id # p.id
      /\ \A j \in Ids \ {p.id} : {q \in rest : q.type = "LIST" /\ q.id = j} = Owed(j)
  BY <1>2, <1>3 DEF Owed
<1>5. ~Starting(p.id)'
  BY <1>0, <1>2 DEF Starting
<1>6. CASE ReadNext(p.id, [c EXCEPT !.shown = Append(@, p.index)], rest)
  <2>1. PICK e : e = [c EXCEPT !.shown = Append(@, p.index)]
    OBVIOUS
  <2>2. /\ e \in Contexts /\ e.st = "live" /\ Len(e.shown) = e.cur_pos
        /\ Begins(e.shown, e.list)
    BY <1>2, <2>1, RecordShown
  <2>3. ReadNext(p.id, e, rest)
    BY <1>6, <2>1
  <2>4. /\ pend' \subseteq Asked
        /\ \E d \in Contexts : ctxs' = [ctxs EXCEPT ![p.id] = d] /\ d.st # "none"
        /\ OwnedListing(p.id)'
        /\ \A j \in Ids \ {p.id} : Owed(j)' = {q \in rest : q.type = "LIST" /\ q.id = j}
    <3>1. PICK i \in Ids : i = p.id
      BY <1>2
    <3>2. /\ \A q \in rest : q.type = "LIST" => q.id # i
          /\ ~Starting(i)' /\ ReadNext(i, e, rest)
      BY <1>4, <1>5, <2>3, <3>1
    <3>3. /\ pend' \subseteq Asked
          /\ \E d \in Contexts : ctxs' = [ctxs EXCEPT ![i] = d] /\ d.st # "none"
          /\ OwnedListing(i)'
          /\ \A j \in Ids \ {i} : Owed(j)' = {q \in rest : q.type = "LIST" /\ q.id = j}
      BY <1>0, <2>2, <3>2, GoesOn
    <3> QED
      BY <3>1, <3>3
  <2> QED
    BY <1>0, <1>4, <2>4, AnswerKeepsInv
<1>7. CASE qosa_sms_demo_delete_sms_deinit_ex(p.id, c) /\ pend' = rest
  <2> DEFINE d == [c EXCEPT !.st = "freed"]
  <2>1. d \in Contexts /\ d.st = "freed" /\ d.shown = c.shown /\ d.list = c.list
    BY DEF Contexts
  <2>2. ctxs' = [ctxs EXCEPT ![p.id] = d] /\ ctxs'[p.id] = d
    BY <1>0, <1>2, <1>7 DEF qosa_sms_demo_delete_sms_deinit_ex, RequestsTypeOK
  <2>3. Owed(p.id)' = {} /\ \A j \in Ids \ {p.id} : Owed(j)' = Owed(j)
    BY <1>4, <1>7 DEF Owed
  <2>4. OwnedListing(p.id)'
    BY <1>2, <2>1, <2>2, <2>3 DEF OwnedListing
  <2> QED
    BY <1>0, <1>7, <2>1, <2>2, <2>3, <2>4, AnswerKeepsInv
<1> QED
  BY <1>1, <1>3, <1>6, <1>7 DEF qosa_sms_demo_list_msg_rsp

\* The modem's answers keep the invariant.
LEMMA ModemStep ==
    ASSUME HandlingInv, qosa_sms_simid \in Sims, Modem
    PROVE  HandlingInv'
<1>1. PICK p \in pend : qosa_sms_demo_read_msg_rsp(p) \/ qosa_sms_demo_list_msg_rsp(p)
  BY DEF Modem
<1>2. CASE qosa_sms_demo_read_msg_rsp(p)
  <2>1. /\ p.type # "LIST" /\ pend' = pend \ {p}
        /\ UNCHANGED <<sms_pc, sms_msgq, cur, payloads, ctxs, calls>>
    BY <1>2 DEF qosa_sms_demo_read_msg_rsp, memory
  <2>2. \A i : Owed(i)' = Owed(i)
    BY <2>1 DEF Owed
  <2>3. RequestsTypeOK' /\ RequestsOnce' /\ ContextsPlaced' /\ PayloadOwned'
    BY <2>1 DEF HandlingInv, RequestsTypeOK, RequestsOnce, ContextsPlaced, PayloadOwned
  <2>4. ListingOwned'
    BY <2>1, <2>2 DEF HandlingInv, ListingOwned, OwnedListing, Starting
  <2> QED
    BY <2>3, <2>4 DEF HandlingInv
<1> QED
  BY <1>1, <1>2, ListAnswered

\* The listings stay owned when no context and no answer to a listing is touched, and
\* the task neither comes to nor leaves the place where it starts one.
LEMMA ListingsKept ==
    ASSUME ListingOwned, UNCHANGED ctxs, \A i \in Ids : Owed(i)' = Owed(i),
           sms_pc # "list", sms_pc' # "list"
    PROVE  ListingOwned'
<1> SUFFICES ASSUME NEW i \in Ids PROVE OwnedListing(i)'
  BY DEF ListingOwned
<1>1. OwnedListing(i) /\ ctxs'[i] = ctxs[i] /\ Owed(i)' = Owed(i)
  BY DEF ListingOwned
<1>2. Starting(i)' <=> Starting(i)
  BY DEF Starting
<1> QED
  BY <1>1, <1>2, OwnedKept

\* The request the task is handling is a request, with a number of its own.
LEMMA InHand ==
    ASSUME HandlingInv, sms_pc \in {"handle", "request", "list"}
    PROVE  /\ cur \in Requests /\ cur.type # "EXIT" /\ cur # NoReq
           /\ cur.id \in Ids /\ cur.id \in Nat /\ cur.id # 0 /\ cur.id <= calls
           /\ \A k \in 1 .. Len(sms_msgq) : sms_msgq[k].id # cur.id
           /\ ctxs[cur.id] \in Contexts
<1>1. cur # NoReq /\ cur \in Requests /\ cur.type # "EXIT"
  BY DEF HandlingInv, RequestsOnce, RequestsTypeOK
<1>2. cur.id \in Ids /\ cur.id \in Nat /\ cur.id # 0
  BY <1>1, SmsAssumption DEF Requests, Ids
<1> QED
  BY <1>1, <1>2 DEF HandlingInv, RequestsOnce, RequestsTypeOK

\* The task is done with a request, whose payload it frees.
LEMMA RequestDone ==
    ASSUME HandlingInv, sms_pc \in {"handle", "request", "list"}, Done,
           UNCHANGED <<sms_msgq, calls>>, pend' \subseteq Asked, ctxs' \in [Ids -> Contexts],
           \A j \in Ids : j # cur.id => ctxs'[j] = ctxs[j], ListingOwned'
    PROVE  HandlingInv'
<1>0. RequestsTypeOK /\ RequestsOnce /\ sms_pc' = "wait" /\ cur' = NoReq /\ NoReq.id = 0
  BY DEF HandlingInv, Done, NoReq
<1>1. /\ cur.id \in Nat /\ cur.id # 0 /\ cur.id <= calls /\ cur.id \in Ids
      /\ \A k \in 1 .. Len(sms_msgq) : sms_msgq[k].id # cur.id
  BY InHand
<1>2. RequestsTypeOK'
  BY <1>0 DEF RequestsTypeOK, Done
<1>3. RequestsOnce'
  <2>1. \A k \in 1 .. Len(sms_msgq) :
           /\ sms_msgq[k].id \in Ids /\ sms_msgq[k].id # 0
           /\ ctxs'[sms_msgq[k].id] = ctxs[sms_msgq[k].id]
    BY <1>0, <1>1, QueueTyped DEF Ids
  <2>2. \A i \in Ids : i > calls => ctxs'[i] = ctxs[i]
    BY <1>0, <1>1, QueueTyped DEF Ids
  <2>3. calls \in Nat
    BY <1>0, QueueTyped
  <2> QED
    BY <1>0, <2>1, <2>2, <2>3 DEF RequestsOnce
<1>4. ContextsPlaced'
  BY <1>0 DEF ContextsPlaced
<1>5. PayloadOwned'
  <2>1. payloads = {sms_msgq[k].id : k \in {j \in 1 .. Len(sms_msgq) :
                                              sms_msgq[j].type # "EXIT"}} \cup {cur.id}
    BY <1>1 DEF HandlingInv, PayloadOwned
  <2>2. payloads' = {sms_msgq[k].id : k \in {j \in 1 .. Len(sms_msgq) :
                                               sms_msgq[j].type # "EXIT"}}
    BY <1>1, <2>1 DEF Done
  <2> QED
    BY <1>0, <2>2 DEF PayloadOwned
<1> QED
  BY <1>2, <1>3, <1>4, <1>5 DEF HandlingInv

\* The task takes a request off the queue, or EXIT, which ends it.
LEMMA TaskWaitStep ==
    ASSUME HandlingInv, TaskWait
    PROVE  HandlingInv'
<1>0. /\ RequestsTypeOK /\ RequestsOnce /\ sms_pc = "wait" /\ cur = NoReq /\ NoReq.id = 0
      /\ UNCHANGED <<payloads, ctxs, pend, calls>> /\ sms_msgq # <<>>
  BY DEF HandlingInv, TaskWait, RequestsOnce, memory, NoReq
<1>1. ListingOwned'
  <2>1. \A i \in Ids : Owed(i)' = Owed(i)
    BY <1>0 DEF Owed
  <2>2. sms_pc' # "list"
    BY DEF TaskWait
  <2> QED
    BY <1>0, <2>1, <2>2, ListingsKept DEF HandlingInv
<1>2. CASE Head(sms_msgq).type = "EXIT"
  <2>1. sms_pc' = "exited" /\ sms_msgq' = <<>> /\ cur' = cur
    BY <1>2 DEF TaskWait
  <2>2. sms_msgq' \in Seq(Requests) /\ Len(sms_msgq') = 0
    BY <2>1
  <2>3. RequestsTypeOK'
    BY <1>0, <2>1, <2>2, SmsAssumption DEF RequestsTypeOK
  <2>4. RequestsOnce'
    BY <1>0, <2>1, <2>2 DEF RequestsOnce
  <2>5. ContextsPlaced' /\ PayloadOwned'
    BY <2>1 DEF ContextsPlaced, PayloadOwned
  <2> QED
    BY <1>1, <2>3, <2>4, <2>5 DEF HandlingInv
<1>3. CASE Head(sms_msgq).type # "EXIT"
  <2>1. sms_pc' = "handle" /\ sms_msgq' = Tail(sms_msgq) /\ cur' = Head(sms_msgq)
    BY <1>3 DEF TaskWait
  <2>2. PICK n \in Nat : n = Len(sms_msgq)
    BY <1>0, QueueTyped
  <2>3. /\ n # 0 /\ cur' = sms_msgq[1] /\ sms_msgq' \in Seq(Requests)
        /\ Len(sms_msgq') = n - 1 /\ \A k \in 1 .. n - 1 : sms_msgq'[k] = sms_msgq[k + 1]
        /\ 1 \in 1 .. n
    <3>1. sms_msgq \in Seq(Requests)
      BY <1>0 DEF RequestsTypeOK
    <3> QED
      BY <1>0, <2>1, <2>2, <3>1
  <2>4. /\ cur' \in Requests /\ cur'.id \in Ids /\ cur'.id \in Nat /\ cur'.id # 0
        /\ cur'.type # "EXIT" /\ cur' # NoReq /\ cur'.id <= calls
        /\ ctxs[cur'.id].st = "none"
    <3>1. sms_msgq[1] \in Requests
      BY <1>0, <2>2, <2>3, QueueTyped
    <3>2. sms_msgq[1].id \in Nat /\ sms_msgq[1].id # 0 /\ sms_msgq[1].id \in Ids
      BY <3>1, SmsAssumption DEF Requests, Ids
    <3> QED
      BY <1>0, <1>3, <2>1, <2>2, <2>3, <3>1, <3>2 DEF RequestsOnce
  <2>5. \A k \in 1 .. n - 1 : k + 1 \in 1 .. n /\ k + 1 # 1
    OBVIOUS
  <2>6. RequestsTypeOK'
    <3>1. Len(sms_msgq') <= SmsQueueLen
      BY <1>0, <2>2, <2>3, SmsAssumption DEF RequestsTypeOK
    <3> QED
      BY <1>0, <2>1, <2>3, <2>4, <3>1 DEF RequestsTypeOK
  <2>7. RequestsOnce'
    <3>1. ASSUME NEW k \in 1 .. n - 1
          PROVE  /\ sms_msgq'[k].id <= calls /\ sms_msgq'[k].id # cur'.id
                 /\ ctxs[sms_msgq'[k].id].st = "none"
                 /\ \A j \in 1 .. n - 1 : sms_msgq'[j].id = sms_msgq'[k].id => j = k
      <4>1. k + 1 \in 1 .. n /\ k + 1 # 1 /\ sms_msgq'[k] = sms_msgq[k + 1]
        BY <2>3, <2>5
      <4>2. ASSUME NEW j \in 1 .. n - 1, sms_msgq'[j].id = sms_msgq'[k].id PROVE j = k
        <5>1. j + 1 \in 1 .. n /\ sms_msgq[j + 1].id = sms_msgq[k + 1].id
          BY <2>3, <2>5, <4>1, <4>2
        <5>2. j + 1 = k + 1
          BY <1>0, <2>2, <4>1, <5>1 DEF RequestsOnce
        <5> QED
          BY <5>2
      <4> QED
        BY <1>0, <2>2, <2>3, <4>1, <4>2 DEF RequestsOnce
    <3> QED
      BY <1>0, <2>1, <2>3, <2>4, <3>1 DEF RequestsOnce
  <2>8. ContextsPlaced'
    BY <1>0, <2>1, <2>4 DEF ContextsPlaced
  <2>9. PayloadOwned'
    <3>1. {sms_msgq[k].id : k \in {j \in 1 .. n : sms_msgq[j].type # "EXIT"}}
          = {sms_msgq'[k].id : k \in {j \in 1 .. n - 1 : sms_msgq'[j].type # "EXIT"}}
            \cup {cur'.id}
      <4>1. \A j \in 1 .. n : j = 1 \/ (j - 1 \in 1 .. n - 1 /\ sms_msgq'[j - 1] = sms_msgq[j])
        BY <2>3
      <4>2. \A j \in 1 .. n - 1 : j + 1 \in 1 .. n /\ sms_msgq'[j] = sms_msgq[j + 1]
        BY <2>3, <2>5
      <4>3. sms_msgq[1].type # "EXIT"
        BY <2>3, <2>4
      <4> DEFINE old == {sms_msgq[k].id : k \in {j \in 1 .. n : sms_msgq[j].type # "EXIT"}}
                 new == {sms_msgq'[k].id : k \in {j \in 1 .. n - 1 :
                                                     sms_msgq'[j].type # "EXIT"}}
      <4>4. ASSUME NEW k \in 1 .. n, sms_msgq[k].type # "EXIT"
            PROVE  sms_msgq[k].id \in new \cup {cur'.id}
        <5>1. CASE k = 1
          BY <2>3, <5>1
        <5>2. CASE k # 1
          <6>1. k - 1 \in 1 .. n - 1 /\ sms_msgq'[k - 1] = sms_msgq[k]
            BY <4>1, <5>2
          <6> QED
            BY <4>4, <6>1
        <5> QED
          BY <5>1, <5>2
      <4>5. ASSUME NEW k \in 1 .. n - 1, sms_msgq'[k].type # "EXIT"
            PROVE  sms_msgq'[k].id \in old
        BY <4>2, <4>5
      <4>6. cur'.id \in old
        BY <2>3, <4>3
      <4> QED
        BY <4>4, <4>5, <4>6
    <3>2. payloads = {sms_msgq[k].id : k \in {j \in 1 .. n : sms_msgq[j].type # "EXIT"}}
      BY <1>0, <2>2 DEF HandlingInv, PayloadOwned
    <3> QED
      BY <1>0, <2>3, <2>4, <3>1, <3>2 DEF PayloadOwned
  <2> QED
    BY <1>1, <2>6, <2>7, <2>8, <2>9 DEF HandlingInv
<1> QED
  BY <1>2, <1>3

\* qosa_sms_demo_handle_send_sms and the reads and deletions: at most a request that
\* is no listing is left with the modem.
LEMMA AskedStep ==
    ASSUME HandlingInv, qosa_sms_simid \in Sims, qosa_sms_demo_handle_send_sms \/ AskRecord
    PROVE  HandlingInv'
<1>0. /\ sms_pc \in {"handle", "request"} /\ Done /\ UNCHANGED <<sms_msgq, ctxs, calls>>
      /\ RequestsTypeOK
  BY DEF qosa_sms_demo_handle_send_sms, AskRecord, HandlingInv
<1>1. cur \in Requests /\ cur.id \in Ids /\ cur.stor \in Stores
  BY <1>0, InHand DEF Requests
<1>2. 0 \in 0 .. MaxList /\ "ME" \in Stores
  BY SmsAssumption DEF Stores
<1>3. pend' = pend \/ \E q \in Asked : q.type # "LIST" /\ pend' = pend \cup {q}
  <2>1. CASE qosa_sms_demo_handle_send_sms
    <3>1. Ask("SEND", cur.id, "ME", 0) \in Asked /\ Ask("SEND", cur.id, "ME", 0).type = "SEND"
      BY <1>1, <1>2 DEF Ask, Asked, Types
    <3> QED
      BY <2>1, <3>1 DEF qosa_sms_demo_handle_send_sms
  <2>2. CASE AskRecord
    <3>1. cur.type \in {"READ", "DELETE"}
      BY <2>2 DEF AskRecord
    <3>2. /\ Ask(cur.type, cur.id, cur.stor, 0) \in Asked
          /\ Ask(cur.type, cur.id, cur.stor, 0).type = cur.type
      BY <1>1, <1>2, <3>1 DEF Ask, Asked, Types
    <3> QED
      BY <2>2, <3>1, <3>2 DEF AskRecord
  <2> QED
    BY <2>1, <2>2
<1>4. pend' \subseteq Asked
  BY <1>0, <1>3 DEF RequestsTypeOK
<1>5. \A i \in Ids : Owed(i)' = Owed(i)
  BY <1>3 DEF Owed
<1>6. ListingOwned'
  BY <1>0, <1>5, ListingsKept DEF HandlingInv, Done
<1>7. ctxs' \in [Ids -> Contexts] /\ \A j \in Ids : ctxs'[j] = ctxs[j]
  BY <1>0 DEF RequestsTypeOK
<1> QED
  BY <1>0, <1>4, <1>6, <1>7, RequestDone

\* qosa_sms_demo_get_mem: the request gets the storage of the selected SIM, or ends.
LEMMA GetMemStep ==
    ASSUME HandlingInv, SettingsTypeOK, qosa_sms_demo_get_mem
    PROVE  HandlingInv'
<1>0. /\ sms_pc = "handle" /\ UNCHANGED <<sms_msgq, ctxs, pend, calls>>
      /\ RequestsTypeOK /\ RequestsOnce
  BY DEF qosa_sms_demo_get_mem, HandlingInv
<1>1. \A i \in Ids : Owed(i)' = Owed(i)
  BY <1>0 DEF Owed
<1>2. CASE Done
  <2>1. ListingOwned'
    BY <1>0, <1>1, <1>2, ListingsKept DEF HandlingInv, Done
  <2>2. /\ pend' \subseteq Asked
        /\ ctxs' \in [Ids -> Contexts] /\ \A j \in Ids : ctxs'[j] = ctxs[j]
    BY <1>0 DEF RequestsTypeOK
  <2> QED
    BY <1>0, <1>2, <2>1, <2>2, RequestDone
<1>3. CASE /\ sms_pc' = "request" /\ UNCHANGED payloads
           /\ cur' = [cur EXCEPT !.stor = mem1[qosa_sms_simid]]
  <2>1. cur \in Requests /\ cur.type # "EXIT" /\ cur.id # 0
    BY <1>0, InHand
  <2>2. mem1[qosa_sms_simid] \in Stores
    BY DEF SettingsTypeOK
  <2>3. /\ cur' \in Requests /\ cur'.type = cur.type /\ cur'.id = cur.id /\ cur' # NoReq
    <3>1. cur' \in Requests /\ cur'.type = cur.type /\ cur'.id = cur.id
      BY <1>3, <2>1, <2>2 DEF Requests
    <3> QED
      BY <2>1, <3>1 DEF NoReq
  <2>4. RequestsTypeOK'
    BY <1>0, <1>3, <2>1, <2>3 DEF RequestsTypeOK
  <2>5. RequestsOnce'
    BY <1>0, <1>3, <2>3 DEF RequestsOnce
  <2>6. ContextsPlaced' /\ PayloadOwned'
    BY <1>0, <1>3, <2>3 DEF HandlingInv, ContextsPlaced, PayloadOwned
  <2>7. ListingOwned'
    BY <1>0, <1>1, <1>3, ListingsKept DEF HandlingInv
  <2> QED
    BY <2>4, <2>5, <2>6, <2>7 DEF HandlingInv
<1> QED
  BY <1>2, <1>3 DEF qosa_sms_demo_get_mem

\* qosa_sms_demo_list_sms_init: a context is created for a request that had none.
LEMMA ListInitStep ==
    ASSUME HandlingInv, qosa_sms_demo_list_sms_init
    PROVE  HandlingInv'
<1>0. /\ sms_pc = "request" /\ UNCHANGED <<sms_msgq, pend, calls>>
      /\ RequestsTypeOK /\ RequestsOnce
  BY DEF qosa_sms_demo_list_sms_init, HandlingInv
<1>1. \A i \in Ids : Owed(i)' = Owed(i)
  BY <1>0 DEF Owed
<1>2. CASE Done /\ UNCHANGED ctxs
  <2>1. ListingOwned'
    BY <1>0, <1>1, <1>2, ListingsKept DEF HandlingInv, Done
  <2>2. /\ pend' \subseteq Asked
        /\ ctxs' \in [Ids -> Contexts] /\ \A j \in Ids : ctxs'[j] = ctxs[j]
    BY <1>0, <1>2 DEF RequestsTypeOK
  <2> QED
    BY <1>0, <1>2, <2>1, <2>2, RequestDone
<1>3. ASSUME NEW l \in Lists, sms_pc' = "list", UNCHANGED <<payloads, cur>>,
             ctxs' = [ctxs EXCEPT ![cur.id] =
                        [NoCtx EXCEPT !.st = "live", !.stor = cur.stor, !.list = l]]
      PROVE  HandlingInv'
  <2>1. PICK d : d = [NoCtx EXCEPT !.st = "live", !.stor = cur.stor, !.list = l]
    OBVIOUS
  <2>2. /\ cur \in Requests /\ cur.id \in Ids /\ cur.stor \in Stores /\ cur.id <= calls
        /\ cur.id \in Nat /\ ctxs[cur.id].st = "none"
        /\ \A k \in 1 .. Len(sms_msgq) : sms_msgq[k].id # cur.id
    BY <1>0, InHand DEF Requests, HandlingInv, ContextsPlaced
  <2>3. /\ d = [st |-> "live", stor |-> cur.stor, list |-> l, cur_pos |-> 0, shown |-> <<>>]
    BY <2>1 DEF NoCtx
  <2>4. d \in Contexts
    <3>1. 0 \in 0 .. MaxList /\ <<>> \in Seq(1 .. MaxList)
      BY SmsAssumption
    <3> QED
      BY <2>2, <2>3, <3>1 DEF Contexts
  <2>5. /\ ctxs \in [Ids -> Contexts] /\ ctxs' \in [Ids -> Contexts] /\ ctxs'[cur.id] = d
        /\ \A j \in Ids : j # cur.id => ctxs'[j] = ctxs[j]
    BY <1>0, <1>3, <2>1, <2>2, <2>4 DEF RequestsTypeOK
  <2>6. RequestsTypeOK'
    BY <1>0, <1>3, <2>5 DEF RequestsTypeOK
  <2>7. RequestsOnce'
    <3>1. \A k \in 1 .. Len(sms_msgq) : ctxs'[sms_msgq[k].id] = ctxs[sms_msgq[k].id]
      BY <1>0, <2>2, <2>5, QueueTyped
    <3>2. \A i \in Ids : i > calls => ctxs'[i] = ctxs[i]
      BY <1>0, <2>2, <2>5, QueueTyped DEF Ids
    <3>3. cur # NoReq
      BY <1>0, InHand
    <3>4. \A k \in 1 .. Len(sms_msgq) :
             /\ sms_msgq[k].id <= calls /\ ctxs'[sms_msgq[k].id].st = "none"
             /\ \A j \in 1 .. Len(sms_msgq) : sms_msgq[j].id = sms_msgq[k].id => j = k
      BY <1>0, <3>1 DEF RequestsOnce
    <3>5. \A i \in Ids : i > calls => ctxs'[i].st = "none"
      BY <1>0, <3>2 DEF RequestsOnce
    <3> QED
      BY <1>0, <1>3, <2>2, <3>3, <3>4, <3>5 DEF RequestsOnce
  <2>8. ContextsPlaced' /\ PayloadOwned'
    BY <1>0, <1>3, <2>3, <2>5 DEF HandlingInv, ContextsPlaced, PayloadOwned
  <2>9. ListingOwned'
    <3> SUFFICES ASSUME NEW i \in Ids PROVE OwnedListing(i)'
      BY DEF ListingOwned
    <3>1. CASE i # cur.id
      <4>1. Starting(i)' <=> Starting(i)
        BY <1>0, <1>3, <3>1 DEF Starting
      <4> QED
        BY <1>1, <2>5, <3>1, <4>1, OwnedKept DEF HandlingInv, ListingOwned
    <3>2. CASE i = cur.id
      <4>1. Owed(i)' = {}
        BY <1>1, <2>2, <3>2 DEF HandlingInv, ListingOwned, OwnedListing
      <4>2. Starting(i)' /\ ctxs'[i] = d
        BY <1>3, <2>5, <3>2 DEF Starting
      <4>3. Begins(<<>>, l)
        BY ListTyped DEF Begins
      <4> QED
        BY <2>3, <4>1, <4>2, <4>3 DEF OwnedListing
    <3> QED
      BY <3>1, <3>2
  <2> QED
    BY <2>6, <2>7, <2>8, <2>9 DEF HandlingInv
<1> QED
  BY <1>2, <1>3 DEF qosa_sms_demo_list_sms_init

\* qosa_sms_demo_list_sms: the context passes from the task to the modem's answer, or
\* is freed.
LEMMA ListSmsStep ==
    ASSUME HandlingInv, qosa_sms_simid \in Sims, qosa_sms_demo_list_sms
    PROVE  HandlingInv'
<1>0. /\ sms_pc = "list" /\ Done /\ UNCHANGED <<sms_msgq, calls>>
      /\ RequestsTypeOK /\ pend \subseteq Asked /\ ctxs \in [Ids -> Contexts]
  BY DEF qosa_sms_demo_list_sms, HandlingInv, RequestsTypeOK
<1>1. PICK i \in Ids : i = cur.id
  BY <1>0, InHand
<1>2. PICK c \in Contexts : c = ctxs[i]
  BY <1>0
<1>3. PICK rest \in SUBSET Asked : rest = pend
  BY <1>0
<1>4. /\ c.st = "live" /\ Begins(c.shown, c.list) /\ Owed(i) = {}
      /\ c.cur_pos = 0 /\ Len(c.shown) = c.cur_pos
  <2>1. ctxs[i].st = "live" /\ Starting(i) /\ OwnedListing(i)
    BY <1>0, <1>1 DEF HandlingInv, ContextsPlaced, Starting, ListingOwned
  <2>2. c.cur_pos = 0 /\ c.shown = <<>> /\ Begins(c.shown, c.list) /\ Owed(i) = {}
    BY <1>2, <2>1 DEF OwnedListing
  <2>3. Len(<<>>) = 0
    OBVIOUS
  <2> QED
    BY <1>2, <2>1, <2>2, <2>3
<1>5. \A p \in rest : p.type = "LIST" => p.id # i
  BY <1>3, <1>4 DEF Owed
<1>6. ReadNext(i, c, rest)
  BY <1>1, <1>2, <1>3 DEF qosa_sms_demo_list_sms
<1>7. sms_pc' # "list" /\ ~Starting(i)'
  BY <1>0 DEF Done, Starting
<1>8. /\ pend' \subseteq Asked
      /\ \E d \in Contexts : ctxs' = [ctxs EXCEPT ![i] = d] /\ d.st # "none"
      /\ OwnedListing(i)'
      /\ \A j \in Ids \ {i} : Owed(j)' = {p \in rest : p.type = "LIST" /\ p.id = j}
  BY <1>0, <1>4, <1>5, <1>6, <1>7, GoesOn
<1>9. ctxs' \in [Ids -> Contexts] /\ \A j \in Ids : j # i => ctxs'[j] = ctxs[j]
  BY <1>0, <1>8
<1>10. ListingOwned'
  <2> SUFFICES ASSUME NEW j \in Ids PROVE OwnedListing(j)'
    BY DEF ListingOwned
  <2>1. CASE j # i
    <3>1. Owed(j)' = Owed(j)
      BY <1>3, <1>8, <2>1 DEF Owed
    <3>2. OwnedListing(j) /\ ctxs'[j] = ctxs[j] /\ (Starting(j)' <=> Starting(j))
      BY <1>1, <1>7, <1>9, <2>1 DEF HandlingInv, ListingOwned, Starting
    <3> QED
      BY <3>1, <3>2, OwnedKept
  <2> QED
    BY <1>8, <2>1
<1> QED
  BY <1>0, <1>1, <1>8, <1>9, <1>10, RequestDone

\* Every step of the demo keeps the invariant.
LEMMA SmsStep == SmsInv /\ [SmsNext]_smsVars => SmsInv'
<1> SUFFICES ASSUME SmsInv, [SmsNext]_smsVars PROVE SmsInv'
  OBVIOUS
<1>0. SettingsTypeOK /\ HandlingInv /\ qosa_sms_simid \in Sims
  BY DEF SmsInv, SmsTypeOK, HandlingInv, SettingsTypeOK
<1>1. SettingsTypeOK'
  BY <1>0, SettingsStep
<1>2. HandlingInv'
  <2>1. calls \in calls .. MaxCalls
    BY <1>0, QueueTyped, SmsAssumption DEF HandlingInv
  <2>2. CASE UNCHANGED smsVars \/ quecos_modem_sms_status_event_cb \/ Center
    BY <1>0, <2>1, <2>2, SettingsOnly DEF smsVars, quecos_modem_sms_status_event_cb, Center,
       qosa_sms_demo_sms_indicate_hdlr, qosa_sms_demo_sms_status_handler, handling
  <2>3. CASE TaskStart
    <3>1. /\ sms_pc = "start" /\ sms_pc' \in {"wait", "exited"}
          /\ UNCHANGED <<sms_msgq, cur, payloads, ctxs, pend, calls>>
      BY <2>3 DEF TaskStart, memory
    <3>2. RequestsTypeOK' /\ RequestsOnce' /\ ContextsPlaced' /\ PayloadOwned'
      BY <1>0, <3>1
      DEF HandlingInv, RequestsTypeOK, RequestsOnce, ContextsPlaced, PayloadOwned
    <3>3. ListingOwned'
      <4>1. \A i \in Ids : Owed(i)' = Owed(i)
        BY <3>1 DEF Owed
      <4> QED
        BY <1>0, <3>1, <4>1, ListingsKept DEF HandlingInv
    <3> QED
      BY <3>2, <3>3 DEF HandlingInv
  <2> QED
    BY <1>0, <2>2, <2>3, AppStep, ModemStep, TaskWaitStep, AskedStep, GetMemStep, ListInitStep,
       ListSmsStep DEF SmsNext, qosa_sms_demo_task
<1> QED
  BY <1>1, <1>2 DEF SmsInv, SmsTypeOK, HandlingInv

\* SmsInv holds whatever the applications call, the modem answers and refuses and the
\* indications select.
THEOREM SmsInvariant == SmsSpec => []SmsInv
BY SmsStart, SmsStep, PTL DEF SmsSpec

\* For every number of SIMs, of calls and of records, and every capacity of the queue: a
\* listing's context is owned by the task or by exactly one answer of the modem, which
\* is about the first record not shown yet, and payloads live as long as their requests.
THEOREM SmsMemory == SmsSpec => []SmsMemoryOwned
<1>1. SmsInv => SmsMemoryOwned
  BY DEF SmsInv, SmsMemoryOwned
<1> QED
  BY <1>1, SmsInvariant, PTL

\* The types of the SMS demo.
THEOREM SmsTypeCorrect == SmsSpec => []SmsTypeOK
<1>1. SmsInv => SmsTypeOK
  BY DEF SmsInv
<1> QED
  BY <1>1, SmsInvariant, PTL

-----------------------------------------------------------------------------
(* All of them together, as TLC runs them.                                 *)

\* Whichever demo runs, the composed specification is one of each of them: what is
\* proved of one holds of the whole.
THEOREM SyncRunsEach ==
    SyncSpec => Spec /\ PoolSpec /\ MutexSpec /\ SemSpec /\ CellSpec /\ SmsSpec /\ CallSpec
<1>1. SyncInit => /\ Init /\ PoolInit /\ MutexInit /\ SemInit /\ CellInit /\ SmsInit
                  /\ CallInit
  BY DEF SyncInit
<1>2. [SyncNext]_syncVars =>
         /\ [Next]_vars /\ [PoolNext]_poolVars /\ [MutexNext]_mutexVars /\ [SemNext]_semVars
         /\ [CellNext]_cellVars /\ [SmsNext]_smsVars /\ [CallNext]_callVars
  BY DEF SyncNext, syncVars, InRing, InPool, InMutex, InSem, InCell, InSms, InCall
<1> QED
  BY <1>1, <1>2, PTL
  DEF SyncSpec, Spec, PoolSpec, MutexSpec, SemSpec, CellSpec, SmsSpec, CallSpec

\* For all values of the constants: the variables of all seven programs keep their
\* types, and no queue, ring or semaphore exceeds its capacity.
THEOREM SyncTypesCorrect == SyncSpec => []AllTypesOK
<1>1. /\ TypeOK /\ PoolTypeOK /\ MutexTypeOK /\ SemTypeOK /\ CellTypeOK /\ SmsTypeOK
      /\ CallTypeOK
      => AllTypesOK
  BY DEF AllTypesOK
<1> QED
  BY <1>1, SyncRunsEach, RingTypeCorrect, PoolTypeCorrect, MutexTypeCorrect,
     SemTypeCorrect, CellTypeCorrect, SmsTypeCorrect, CallTypeCorrect, PTL

\* For all values of the constants: every safety property TLC checks of the composed
\* specification holds, whichever of the programs runs, and so does the refinement of
\* the channel by the ring.
THEOREM SyncSafe ==
    SyncSpec =>
        /\ [](/\ ScanNeverFails /\ PoolRestored /\ NoLostCount /\ SemCounts
              /\ CfunPaired /\ SmsMemoryOwned /\ LossNoticed)
        /\ ImplementsChannel
BY SyncRunsEach, PoolScanNeverFails, PoolIsRestored, MutexNoLostCount, SemCountsKept,
   CellularPaired, SmsMemory, CallLossNoticed, RingImplementsChannel, PTL
=============================================================================
