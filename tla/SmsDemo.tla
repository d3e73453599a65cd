------------------------------ MODULE SmsDemo ------------------------------
(***************************************************************************)
(* The SMS demo (network/sms/demo/sms_demo.c).                             *)
(*                                                                         *)
(* Four actors share its global variables without a lock.  Applications    *)
(* call the API, which puts requests on a bounded queue; the demo's task   *)
(* takes them and asks the modem; the modem answers by callbacks, of which *)
(* the one of a listing asks for the next record itself; the center task   *)
(* handles status indications, which select the SIM (qosa_sms_simid) and   *)
(* its storage.  Every function reads the selected SIM again each time it  *)
(* needs it, which the steps of the model keep apart.                      *)
(*                                                                         *)
(* The modem and the platform's configuration are external.  The text of a *)
(* message, its format (text or PDU), the service centre's number and the  *)
(* memories mem2 and mem3, which no operation uses, are left out.  The     *)
(* records of a list are named by their places in it.                      *)
(***************************************************************************)
EXTENDS Integers, Sequences

CONSTANTS
    Sims,        \* 0 .. CONFIG_QOSA_SIM_HAL_SLOT_NUM - 1
    SmsQueueLen, \* capacity of the queue (20)
    MaxList,     \* bound: records of one listing
    MaxCalls,    \* bound: calls of the API
    MaxInd       \* bound: status indications

ASSUME SmsAssumption ==
    /\ 0 \in Sims
    /\ SmsQueueLen \in Nat /\ MaxList \in Nat /\ MaxCalls \in Nat /\ MaxInd \in Nat

VARIABLES
    qosa_sms_simid, \* the selected SIM
    mem1,           \* qosa_sms_cfg.mem[].mem1: the storage read and deleted from
    mem_ready,      \* qosa_sms_cfg.mem_ready[]
    conf,           \* platform: the configured mem1 of each SIM
    inds,           \* indications on their way to the center task
    center,         \* the indication the center task is handling
    sms_conf,       \* its copy of the platform's configuration: not read yet, read, or stored
    app,            \* a qosa_sms_set_memory_config under way
    sms_pc,         \* the demo's task
    sms_msgq,       \* its queue
    cur,            \* the request it is handling
    payloads,       \* allocated payloads, by the number of their call
    ctxs,           \* contexts of listings, by the number of their call
    pend,           \* requests the modem has not answered yet
    unfreed,        \* text buffers of failed reads, which nobody frees
    calls, ninds    \* number of calls and of indications so far

settings == <<qosa_sms_simid, mem1, mem_ready, conf>>
events   == <<inds, center, sms_conf, ninds>>
memory   == <<payloads, ctxs>>
smsVars  == <<settings, events, app, unfreed, sms_pc, sms_msgq, cur, memory, pend, calls>>

Stores   == {"ME", "SM"}
Ids      == 1 .. MaxCalls
Lists    == {[k \in 1 .. n |-> k] : n \in 0 .. MaxList}
NoReq    == [type |-> "none", id |-> 0, stor |-> "ME"]
Req(t)   == [type |-> t, id |-> calls + 1, stor |-> "ME"]
NoCtx    == [st |-> "none", stor |-> "ME", list |-> <<>>, cur_pos |-> 0, shown |-> <<>>]
Contexts == [st : {"none", "live", "freed"}, stor : Stores, list : Lists,
             cur_pos : 0 .. MaxList, shown : Seq(1 .. MaxList)]
NoInd    == [simid |-> -1, ready |-> FALSE]
Inds     == [simid : Sims, ready : BOOLEAN]
Types    == {"SEND", "READ", "DELETE", "LIST"}
Requests == [type : Types \cup {"EXIT"}, id : Ids, stor : Stores]
Asked    == [type : Types, id : Ids, sim : Sims, stor : Stores, index : 0 .. MaxList]

\* quec_sms_demo_init and qosa_sms_demo_init_config: the defaults are in place
\* and the callbacks registered before the task starts.  The platform may have been
\* configured otherwise.
SmsInit ==
    /\ qosa_sms_simid = 0 /\ mem1 = [s \in Sims |-> "ME"]
    /\ mem_ready = [s \in Sims |-> FALSE] /\ conf = [s \in Sims |-> "SM"]
    /\ inds = <<>> /\ center = NoInd /\ sms_conf = "none" /\ ninds = 0
    /\ app = "none" /\ sms_pc = "start" /\ sms_msgq = <<>> /\ cur = NoReq
    /\ payloads = {} /\ ctxs = [i \in Ids |-> NoCtx]
    /\ pend = {} /\ unfreed = 0 /\ calls = 0

-----------------------------------------------------------------------------
(* Applications.                                                           *)

Queue   == sms_pc \notin {"start", "exited"}  \* qosa_sms_demo_msgq is not null
NewCall == calls < MaxCalls /\ calls' = calls + 1

\* Mutant: a request the queue refuses keeps its payload.
Post_keeps(t) ==
    /\ payloads' = payloads \cup {calls + 1}
    /\ sms_msgq' = IF Queue /\ Len(sms_msgq) < SmsQueueLen
                   THEN Append(sms_msgq, Req(t)) ELSE sms_msgq

\* The payload of a request is allocated, posted, and freed when the queue is
\* full or does not exist.
Post(t) ==
    IF Queue /\ Len(sms_msgq) < SmsQueueLen
    THEN sms_msgq' = Append(sms_msgq, Req(t)) /\ payloads' = payloads \cup {calls + 1}
    ELSE UNCHANGED <<sms_msgq, payloads>>

Request(t) ==
    NewCall /\ Post(t) /\ UNCHANGED <<settings, events, app, unfreed, sms_pc, cur, ctxs, pend>>

qosa_sms_send_message   == Request("SEND")
qosa_sms_read_message   == Request("READ")
qosa_sms_delete_message == Request("DELETE")
qosa_sms_list_messages  == Request("LIST")

\* The EXIT message has no payload; a full queue loses it.
qosa_sms_stop ==
    /\ NewCall
    /\ sms_msgq' = IF Queue /\ Len(sms_msgq) < SmsQueueLen
                   THEN Append(sms_msgq, Req("EXIT")) ELSE sms_msgq
    /\ UNCHANGED <<settings, events, app, unfreed, sms_pc, cur, memory, pend>>

qosa_sms_set_sim_id ==
    /\ NewCall
    /\ qosa_sms_simid' \in Sims
    /\ UNCHANGED <<mem1, mem_ready, conf, events, app, unfreed, sms_pc, sms_msgq, cur, memory,
                   pend>>

\* The demo's copy first, then the platform's, each for the SIM selected then.
qosa_sms_set_memory_config ==
    \/ /\ NewCall /\ app = "none"
       /\ \E m \in Stores :
             /\ mem1' = [mem1 EXCEPT ![qosa_sms_simid] = m]
             /\ app' = m
       /\ UNCHANGED <<qosa_sms_simid, mem_ready, conf, events, unfreed, sms_pc, sms_msgq, cur,
                      memory, pend>>
    \/ /\ app # "none"
       /\ conf' = [conf EXCEPT ![qosa_sms_simid] = app]
       /\ app' = "none"
       /\ UNCHANGED <<qosa_sms_simid, mem1, mem_ready, events, unfreed, sms_pc, sms_msgq, cur,
                      memory, pend, calls>>

App ==
    \/ qosa_sms_send_message \/ qosa_sms_read_message \/ qosa_sms_delete_message
    \/ qosa_sms_list_messages \/ qosa_sms_stop \/ qosa_sms_set_sim_id
    \/ qosa_sms_set_memory_config

-----------------------------------------------------------------------------
(* Status indications.                                                     *)

\* A SIM becomes ready or goes away: the modem's thread hands a copy of the
\* event to the center task.
quecos_modem_sms_status_event_cb ==
    /\ ninds < MaxInd /\ ninds' = ninds + 1
    /\ \E e \in Inds : inds' = Append(inds, e)
    /\ UNCHANGED <<settings, center, sms_conf, app, unfreed, sms_pc, sms_msgq, cur, memory, pend,
                   calls>>

\* The center task takes the event and selects its SIM.
qosa_sms_demo_sms_indicate_hdlr ==
    /\ center = NoInd /\ inds # <<>>
    /\ center' = Head(inds) /\ inds' = Tail(inds)
    /\ qosa_sms_simid' = Head(inds).simid
    /\ UNCHANGED <<mem1, mem_ready, conf, sms_conf, ninds, app, unfreed, sms_pc, sms_msgq, cur,
                   memory, pend, calls>>

\* The rest of the handler reads the configured storage, stores it and says that it is
\* ready, each for the SIM that is selected by then.
qosa_sms_demo_sms_status_handler ==
    /\ center # NoInd
    /\ \/ /\ ~center.ready
          /\ mem_ready' = [mem_ready EXCEPT ![qosa_sms_simid] = FALSE]
          /\ center' = NoInd
          /\ UNCHANGED <<mem1, sms_conf>>
       \/ /\ center.ready /\ sms_conf = "none"
          /\ sms_conf' = conf[qosa_sms_simid]
          /\ UNCHANGED <<mem1, mem_ready, center>>
       \/ /\ sms_conf \in Stores
          /\ mem1' = [mem1 EXCEPT ![qosa_sms_simid] = sms_conf]
          /\ sms_conf' = "stored"
          /\ UNCHANGED <<mem_ready, center>>
       \/ /\ sms_conf = "stored"
          /\ mem_ready' = [mem_ready EXCEPT ![qosa_sms_simid] = TRUE]
          /\ center' = NoInd /\ sms_conf' = "none"
          /\ UNCHANGED mem1
    /\ UNCHANGED <<qosa_sms_simid, conf, inds, ninds, app, unfreed, sms_pc, sms_msgq, cur, memory,
                   pend, calls>>

-----------------------------------------------------------------------------
(* The modem's interface.                                                  *)

\* An asynchronous request on the SIM selected now.
Ask(type, id, stor, index) ==
    [type |-> type, id |-> id, sim |-> qosa_sms_simid, stor |-> stor, index |-> index]

\* Mutant: the position only moves to the first record.
fetch_next_ex_stuck(c) == [c EXCEPT !.cur_pos = 1]

\* The context after its next record was fetched; the record is the one at the
\* new position.  Only called while there is a record left.
qosa_sms_demo_list_sms_fetch_next_ex(c) == [c EXCEPT !.cur_pos = @ + 1]

\* Mutant: a listing whose next read is refused is forgotten.
deinit_ex_keeps(i, c) == ctxs' = [ctxs EXCEPT ![i] = c]

\* The list and the context of call i are freed; what it was is kept as history.
qosa_sms_demo_delete_sms_deinit_ex(i, c) == ctxs' = [ctxs EXCEPT ![i] = [c EXCEPT !.st = "freed"]]

\* The listing of call i goes on with the next record of its context c, on the
\* SIM selected now, or ends: no record is left, or the modem refuses.  rest are
\* the requests under way apart from it.
ReadNext(i, c, rest) ==
    \/ /\ c.cur_pos < Len(c.list)
       /\ LET n == qosa_sms_demo_list_sms_fetch_next_ex(c) IN
             /\ ctxs' = [ctxs EXCEPT ![i] = n]
             /\ pend' = rest \cup {Ask("LIST", i, n.stor, n.list[n.cur_pos])}
    \/ /\ qosa_sms_demo_delete_sms_deinit_ex(i, c)
       /\ pend' = rest

\* The answer to a send, a read or a deletion is only reported.  The buffer for the
\* text of a record is lost when the read failed.
qosa_sms_demo_read_msg_rsp(p) ==
    /\ p.type # "LIST"
    /\ pend' = pend \ {p}
    /\ unfreed' \in IF p.type = "READ" THEN {unfreed, unfreed + 1} ELSE {unfreed}
    /\ UNCHANGED <<settings, events, app, sms_pc, sms_msgq, cur, memory, calls>>

\* qosa_sms_demo_list_msg_rsp: the record is shown and the next one read.  Any
\* error, that the record does not exist among them, ends the listing.
qosa_sms_demo_list_msg_rsp(p) ==
    /\ p.type = "LIST"
    /\ LET c == ctxs[p.id] IN
          \/ ReadNext(p.id, [c EXCEPT !.shown = Append(@, p.index)], pend \ {p})
          \/ qosa_sms_demo_delete_sms_deinit_ex(p.id, c) /\ pend' = pend \ {p}
    /\ UNCHANGED <<settings, events, app, unfreed, sms_pc, sms_msgq, cur, payloads, calls>>

\* The modem answers its requests in any order.
Modem ==
    \E p \in pend : qosa_sms_demo_read_msg_rsp(p) \/ qosa_sms_demo_list_msg_rsp(p)

-----------------------------------------------------------------------------
(* The task.                                                               *)

\* The queue is created, or the task ends.
TaskStart ==
    /\ sms_pc = "start"
    /\ sms_pc' \in {"wait", "exited"}
    /\ UNCHANGED <<settings, events, app, unfreed, sms_msgq, cur, memory, pend, calls>>

\* The next request; EXIT deletes the queue with what is still in it.
TaskWait ==
    /\ sms_pc = "wait" /\ sms_msgq # <<>>
    /\ IF Head(sms_msgq).type = "EXIT"
       THEN sms_pc' = "exited" /\ sms_msgq' = <<>> /\ UNCHANGED cur
       ELSE sms_pc' = "handle" /\ sms_msgq' = Tail(sms_msgq) /\ cur' = Head(sms_msgq)
    /\ UNCHANGED <<settings, events, app, unfreed, memory, pend, calls>>

\* The handler is done with the request and frees its payload.
Done == sms_pc' = "wait" /\ payloads' = payloads \ {cur.id} /\ cur' = NoReq

\* qosa_sms_demo_send_sms: after the wait for the network the message is encoded
\* and sent; any of these may fail.
qosa_sms_demo_handle_send_sms ==
    /\ sms_pc = "handle" /\ cur.type = "SEND"
    /\ pend' = pend \/ pend' = pend \cup {Ask("SEND", cur.id, "ME", 0)}
    /\ Done
    /\ UNCHANGED <<settings, events, app, unfreed, sms_msgq, ctxs, calls>>

\* qosa_sms_demo_get_mem: the storage of the selected SIM, once it is ready.  An
\* unknown status of a listing fails before.
qosa_sms_demo_get_mem ==
    /\ sms_pc = "handle" /\ cur.type # "SEND"
    /\ \/ /\ mem_ready[qosa_sms_simid]
          /\ sms_pc' = "request"
          /\ cur' = [cur EXCEPT !.stor = mem1[qosa_sms_simid]]
          /\ UNCHANGED payloads
       \/ /\ ~mem_ready[qosa_sms_simid] \/ cur.type = "LIST"
          /\ Done
    /\ UNCHANGED <<settings, events, app, unfreed, sms_msgq, ctxs, pend, calls>>

\* qosa_sms_demo_read_sms and qosa_sms_demo_delete_sms: the size of the storage
\* cannot be read, the index is out of range, the modem refuses, or it is asked.
AskRecord ==
    /\ sms_pc = "request" /\ cur.type \in {"READ", "DELETE"}
    /\ \/ pend' = pend
       \/ pend' = pend \cup {Ask(cur.type, cur.id, cur.stor, 0)}
    /\ Done
    /\ UNCHANGED <<settings, events, app, unfreed, sms_msgq, ctxs, calls>>

\* The numbers of the records that match, of the SIM selected now.
qosa_sms_demo_list_sms_init ==
    /\ sms_pc = "request" /\ cur.type = "LIST"
    /\ \/ \E l \in Lists :
             /\ ctxs' = [ctxs EXCEPT ![cur.id] =
                           [NoCtx EXCEPT !.st = "live", !.stor = cur.stor, !.list = l]]
             /\ sms_pc' = "list"
             /\ UNCHANGED <<payloads, cur>>
       \/ Done /\ UNCHANGED ctxs
    /\ UNCHANGED <<settings, events, app, unfreed, sms_msgq, pend, calls>>

\* The first record of the listing is read.
qosa_sms_demo_list_sms ==
    /\ sms_pc = "list"
    /\ ReadNext(cur.id, ctxs[cur.id], pend)
    /\ Done
    /\ UNCHANGED <<settings, events, app, unfreed, sms_msgq, calls>>

qosa_sms_demo_task ==
    \/ TaskStart \/ TaskWait \/ qosa_sms_demo_handle_send_sms \/ qosa_sms_demo_get_mem
    \/ AskRecord \/ qosa_sms_demo_list_sms_init \/ qosa_sms_demo_list_sms

-----------------------------------------------------------------------------
Center == qosa_sms_demo_sms_indicate_hdlr \/ qosa_sms_demo_sms_status_handler

SmsNext == App \/ quecos_modem_sms_status_event_cb \/ Center \/ Modem \/ qosa_sms_demo_task

SmsSpec == SmsInit /\ [][SmsNext]_smsVars

\* The task is scheduled and the modem answers every request it accepted, of which
\* there are finitely many.
SmsFairSpec == SmsSpec /\ WF_smsVars(qosa_sms_demo_task) /\ WF_smsVars(Modem)

-----------------------------------------------------------------------------
(* Properties.                                                             *)

SettingsTypeOK ==
    /\ qosa_sms_simid \in Sims
    /\ mem1 \in [Sims -> Stores] /\ conf \in [Sims -> Stores]
    /\ mem_ready \in [Sims -> BOOLEAN]
    /\ inds \in Seq(Inds) /\ center \in Inds \cup {NoInd}
    /\ sms_conf \in Stores \cup {"none", "stored"} /\ ninds \in 0 .. MaxInd /\ unfreed \in Nat
    /\ app \in Stores \cup {"none"}

RequestsTypeOK ==
    /\ sms_pc \in {"start", "wait", "handle", "request", "list", "exited"}
    /\ sms_msgq \in Seq(Requests) /\ Len(sms_msgq) <= SmsQueueLen
    /\ cur \in {r \in Requests : r.type # "EXIT"} \cup {NoReq}
    /\ payloads \subseteq Ids
    /\ ctxs \in [Ids -> Contexts]
    /\ pend \subseteq Asked
    /\ calls \in 0 .. MaxCalls

\* Every variable has its type and the queue never exceeds its capacity.
SmsTypeOK == SettingsTypeOK /\ RequestsTypeOK

\* s is the beginning of list l.
Begins(s, l) == s = SubSeq(l, 1, Len(s))

\* The answers to the listing of call i that are still to come, and whether the task
\* is about to ask for the first of them.
Owed(i)     == {p \in pend : p.type = "LIST" /\ p.id = i}
Starting(i) == sms_pc = "list" /\ cur.id = i

\* A listing's context lives exactly as long as somebody will free it: the task,
\* while it starts the listing, or the one answer of the modem that is still to
\* come.  No answer comes to a freed context and none is left over; the record
\* asked for is the context's current one in the context's storage, whatever SIM
\* and storage are selected by now; and the records before it, no other and each
\* once, have been shown.
OwnedListing(i) ==
    LET c == ctxs[i] IN
    /\ Begins(c.shown, c.list)
    /\ c.st # "live" => Owed(i) = {}
    /\ c.st = "live" /\ Starting(i) => Owed(i) = {} /\ c.cur_pos = 0 /\ c.shown = <<>>
    /\ c.st = "live" /\ ~Starting(i) =>
          /\ c.cur_pos \in 1 .. Len(c.list) /\ Len(c.shown) = c.cur_pos - 1
          /\ \E s \in Sims : Owed(i) = {[type |-> "LIST", id |-> i, sim |-> s,
                                         stor |-> c.stor, index |-> c.list[c.cur_pos]]}

ListingOwned == \A i \in Ids : OwnedListing(i)

\* A payload is allocated exactly while its request is in the queue or with the
\* task: refused requests leave none behind.  (The queue that EXIT deletes may
\* still hold some, which are lost.)
PayloadOwned ==
    sms_pc # "exited" =>
        payloads = {sms_msgq[k].id : k \in {j \in 1 .. Len(sms_msgq) :
                                                sms_msgq[j].type # "EXIT"}}
                   \cup ({cur.id} \ {0})

\* Both, and so all the memory that passes from one actor to another.
SmsMemoryOwned == ListingOwned /\ PayloadOwned

\* Every listing ends and frees its context.  As the calls are bounded, that is to
\* say that in the end none is left.
ListingsEnd == (\E i \in Ids : ctxs[i].st = "live") ~> \A i \in Ids : ctxs[i].st # "live"

-----------------------------------------------------------------------------
(* What makes SmsMemoryOwned inductive.                                    *)

\* Every call has a number of its own, so that a request is in one place, and a
\* request that has not been handled yet has no context.
RequestsOnce ==
    /\ cur = NoReq <=> sms_pc \in {"start", "wait", "exited"}
    /\ cur.id <= calls
    /\ \A k \in 1 .. Len(sms_msgq) :
          /\ sms_msgq[k].id <= calls /\ sms_msgq[k].id # cur.id
          /\ ctxs[sms_msgq[k].id].st = "none"
          /\ \A j \in 1 .. Len(sms_msgq) : sms_msgq[j].id = sms_msgq[k].id => j = k
    /\ \A i \in Ids : i > calls => ctxs[i].st = "none"

\* The context of the request with the task is created by the task.
ContextsPlaced ==
    /\ sms_pc \in {"handle", "request"} => ctxs[cur.id].st = "none"
    /\ sms_pc = "list" => ctxs[cur.id].st = "live"

SmsInv == SmsTypeOK /\ RequestsOnce /\ ContextsPlaced /\ ListingOwned /\ PayloadOwned
=============================================================================
