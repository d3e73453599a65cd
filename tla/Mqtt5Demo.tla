----------------------------- MODULE Mqtt5Demo -----------------------------
(***************************************************************************)
(* The MQTT 5 client (network/network_protocol/mqtt/mqtt5/mqtt5_demo.c).   *)
(*                                                                         *)
(* It is the client of MqttDemo with the properties of version 5 added to  *)
(* its packets, and with a second way to get at received messages: the     *)
(* library keeps every message until it is read, and after each reading    *)
(* the task looks whether more are waiting and, if so, posts an event to   *)
(* its own queue.  That event reads some message that is left, whatever    *)
(* message the library's events announce.                                  *)
(*                                                                         *)
(* Properties of packets are built and freed around each request and never *)
(* looked at by the demo: they are left out.  The library's store is       *)
(* external.                                                               *)
(***************************************************************************)
EXTENDS MqttDemo

VARIABLES
    msg,        \* the event whose message the task is reading
    store,      \* library: the messages that were not read yet
    stored,     \* library: number of messages stored so far
    refused     \* history: an event of the task's own was lost

readVars == <<msg, store, stored, refused>>
fiveVars == <<vars, readVars>>

\* A message and the event that announces it; the demo's own event announces none.
Stored(n, t)       == [store_id |-> n, topic |-> t]
Announcement(n, t) == [id |-> "NEW_MESSAGE", ok |-> TRUE, topic |-> t, store_id |-> n]
CacheEvent         == Event("CACHE", TRUE)
FiveMsgs == Msgs \cup {CacheEvent}
            \cup {Announcement(n, t) : n \in 1 .. MaxForeign + 1, t \in Topics}

FiveInit == Init /\ msg = CacheEvent /\ store = {} /\ stored = 0 /\ refused = FALSE

-----------------------------------------------------------------------------
(* The library.                                                            *)

\* A message is stored and announced; a full queue loses the announcement.
Deliver(t) ==
    /\ stored' = stored + 1
    /\ store' = store \cup {Stored(stored + 1, t)}
    /\ Tell(Announcement(stored + 1, t))

\* The broker delivers the client's own message.
StoreEcho ==
    /\ Online /\ report = {} /\ Settle("ECHO")
    /\ IF "TOPIC1" \in subs THEN Deliver("TOPIC1")
                            ELSE UNCHANGED <<msgq, late, report, store, stored>>
    /\ UNCHANGED <<task, state, subs, foreign, unsubbed, msg, refused>>

\* The broker delivers a message of another client.
StoreForeign ==
    /\ Online /\ foreign < MaxForeign
    /\ foreign' = foreign + 1
    /\ \E t \in subs : Deliver(t)
    /\ UNCHANGED <<task, state, due, subs, unsubbed, msg, refused>>

LibOther ==
    /\ \/ LibOpen \/ LibConnect \/ LibSent \/ LibSuback \/ LibUnsuback
       \/ LibState \/ LibDisconnect \/ LibClose \/ LibReport
    /\ UNCHANGED readVars

-----------------------------------------------------------------------------
(* The task.  All but the two readers are those of MqttDemo.               *)

FiveOpen    == unir_mqtt_demo_open     /\ UNCHANGED readVars
FiveCtxFree == unir_mqtt_demo_ctx_free /\ UNCHANGED readVars

\* unir_mqtt_demo_event_handle: an opened connection leads to connect, an accepted
\* connect to subscribe, a subscription to publish, the end of one to disconnect.
FiveOnOpened   == OnOpened   /\ UNCHANGED readVars
FiveOnConnect  == OnConnect  /\ UNCHANGED readVars
FiveOnSuback   == OnSuback   /\ UNCHANGED readVars
FiveOnUnsuback == OnUnsuback /\ UNCHANGED readVars
FiveOnOther    == OnOther    /\ UNCHANGED readVars
FiveCheckState == CheckState /\ UNCHANGED readVars

\* The messages left when message n was read.
Without(n) == {m \in store : m.store_id # n}

\* The library may post events while the task reads a message.
TakeMessage ==
    /\ pc = "wait" /\ msgq # <<>> /\ Head(msgq).id \in {"NEW_MESSAGE", "CACHE"}
    /\ pc' = "read" /\ msg' = Head(msgq) /\ msgq' = Tail(msgq)
    /\ UNCHANGED <<g_mqtt_ctx, ret, libVars, store, stored, refused>>

\* Mutant: nobody looks for further messages.
check_cache_cnt_never(rest) == UNCHANGED <<msgq, refused>>

\* unir_mqtt_demo_check_cache_cnt: while messages are left the task posts itself an
\* event, which is lost when the queue is full or memory for it is not.
unir_mqtt_demo_check_cache_cnt(rest) ==
    \/ /\ rest # {} /\ Len(msgq) < MqttMaxCnt
       /\ msgq' = Append(msgq, CacheEvent) /\ UNCHANGED refused
    \/ /\ refused' = (refused \/ rest # {})
       /\ UNCHANGED msgq

\* unir_mqtt_demo_recv_new_message: the message that was announced is read, unless an
\* earlier event read it: a message of TOPIC1 ends the subscription.
ReadAnnounced ==
    /\ pc = "read" /\ msg.id = "NEW_MESSAGE"
    /\ pc' = "check" /\ msg' = CacheEvent
    /\ store' = Without(msg.store_id)
    /\ unir_mqtt_demo_check_cache_cnt(store')
    /\ IF store' # store /\ msg.topic = "TOPIC1"
       THEN unir_mqtt_demo_unsubscribe ELSE UNCHANGED <<due, unsubbed>>
    /\ UNCHANGED <<g_mqtt_ctx, ret, state, subs, foreign, late, report, stored>>

\* A message is read, if one is left, and only shown; which one is the library's
\* choice.  The event's parameter comes from malloc and its data pointer was never
\* set, yet it is freed when it is not null: the program may not survive that.
unir_mqtt_demo_recv_cache_message ==
    /\ pc = "read" /\ msg.id = "CACHE"
    /\ pc' \in {"check", "crashed"}
    /\ \/ \E m \in store : store' = store \ {m}
       \/ store = {} /\ UNCHANGED store
    /\ unir_mqtt_demo_check_cache_cnt(store')
    /\ UNCHANGED <<g_mqtt_ctx, ret, libVars, msg, stored>>

FiveTask ==
    \/ FiveOpen \/ FiveOnOpened \/ FiveOnConnect \/ FiveOnSuback \/ FiveOnUnsuback
    \/ FiveOnOther \/ TakeMessage \/ ReadAnnounced \/ unir_mqtt_demo_recv_cache_message
    \/ FiveCheckState \/ FiveCtxFree

-----------------------------------------------------------------------------
FiveNext == (FiveTask \/ StoreEcho \/ StoreForeign \/ LibOther) /\ UNCHANGED env

FiveSpec == FiveInit /\ [][FiveNext]_fiveVars

-----------------------------------------------------------------------------
(* Properties.                                                             *)

\* Every variable has its type; the client's own message is stored at most once
\* besides those of other clients, and no two messages have the same number.
FiveTypeOK ==
    /\ ClientTypeOK
    /\ pc \in {"start", "wait", "read", "check", "free", "exited", "crashed"}
    /\ msgq \in Seq(FiveMsgs) /\ msg \in FiveMsgs
    /\ stored \in 0 .. MaxForeign + 1 /\ refused \in BOOLEAN
    /\ store \subseteq [store_id : 1 .. stored, topic : Topics]
    /\ \A m, n \in store : m.store_id = n.store_id => m = n

\* Some message is announced or being read.
Reading ==
    \/ pc = "read"
    \/ \E k \in 1 .. Len(msgq) : msgq[k].id \in {"NEW_MESSAGE", "CACHE"}

\* While messages are left the task goes on reading: no step takes the last event
\* that leads to a reading away, unless it leaves no message, ends the task or loses
\* the task's own event.
GoesOnReading ==
    [][Reading /\ store' # {} =>
           Reading' \/ refused' \/ pc' \in {"exited", "crashed"}]_fiveVars

\* While some message is announced or being read, every message in the library's
\* store is going to be read, those included whose own announcement the queue lost:
\* each reading looks for the others.  Only the end of the task or the loss of the
\* task's own event stops that.
IsRead(n) ==
    Reading /\ (\E m \in store : m.store_id = n)
        ~> (\A m \in store : m.store_id # n) \/ pc \in {"exited", "crashed"} \/ refused

-----------------------------------------------------------------------------
(* What makes FiveTypeOK inductive.                                        *)

\* The events that lead to the next request on the way to the one publication.
StepEvents == {"OPEN", "CONNECT", "SUBACK"}

\* How many times the task is on its way to publish or has published.
Publications ==
    due["OPEN"] + due["CONNECT"] + due["SUBACK"] + due["ECHO"] + (stored - foreign)

\* The task publishes once: the way there is taken once, and at each moment it is
\* an event being reported or in the queue, a response that is due or a message that
\* arrived.
PublishesOnce ==
    /\ foreign <= stored /\ Publications <= 1
    /\ pc = "start" => stored = foreign
    /\ \A j \in 1 .. Len(msgq) : msgq[j].id \in StepEvents =>
          /\ Publications = 0
          /\ \A k \in 1 .. Len(msgq) : msgq[k].id \in StepEvents => j = k
    /\ \A m \in report : m.id \in StepEvents =>
          /\ Publications = 0
          /\ \A k \in 1 .. Len(msgq) : msgq[k].id \notin StepEvents

FiveInv == FiveTypeOK /\ ClientInv /\ PublishesOnce
=============================================================================
