------------------------------ MODULE MqttDemo ------------------------------
(***************************************************************************)
(* The MQTT client (network/network_protocol/mqtt/demo/mqtt_demo.c).       *)
(*                                                                         *)
(* The task walks through open, connect, subscribe, publish, receive,      *)
(* unsubscribe, disconnect and close; each step is taken when the event    *)
(* that reports the previous one comes out of a bounded queue.  The        *)
(* library thread puts the events there without waiting, and changes the   *)
(* client's state while the task handles older events.                     *)
(*                                                                         *)
(* The library (qcm_mqtt) and the broker are external: a request makes     *)
(* responses due, which the library delivers one at a time and in any      *)
(* order, except that an acknowledgement needs a connection.  The library  *)
(* has one thread, and nothing is locked: it changes client_state in one   *)
(* step and runs the callback that reports the change in a later one, and  *)
(* the task may read the new state in between.  Payloads, packet           *)
(* identifiers and the reports on the serial line are left out.            *)
(***************************************************************************)
EXTENDS Integers, Sequences

CONSTANTS
    MqttMaxCnts,    \* values of MQTT_DEMO_MSG_MAX_CNT, the capacity of the queue
    Foreigns        \* bounds on the messages other clients publish

ASSUME MqttAssumption == MqttMaxCnts \subseteq Nat /\ Foreigns \subseteq Nat

VARIABLES
    env,            \* what the program runs in, which never changes
    pc,             \* the task
    g_mqtt_ctx,     \* the context: "null", "live" or "freed"
    msgq,           \* its message queue
    ret,            \* whether the last handler failed
    state,          \* library: client_state
    due,            \* library: number of responses of each kind still to come
    subs,           \* broker: topics the client is subscribed to
    foreign,        \* number of messages other clients published
    report,         \* library: the change of state being reported, a set of at
                    \* most one event
    unsubbed,       \* history: topics the client asked to unsubscribe from
    late            \* history: an event was reported after the context was freed

task == <<pc, g_mqtt_ctx, ret>>
libVars  == <<state, due, subs, foreign, report, unsubbed, late>>
vars == <<env, task, msgq, libVars>>

\* The queue's capacity, the messages of other clients, and what may go wrong.
Envs == [queue : MqttMaxCnts, foreign : Foreigns, setup : BOOLEAN, connect : BOOLEAN,
         acks : BOOLEAN, closes : BOOLEAN]

MqttMaxCnt   == env.queue
MaxForeign   == env.foreign
SetupFails   == env.setup       \* configuration, memory, queue or open may fail
ConnectFails == env.connect     \* qcm_mqtt_client_connect may return an error
AcksFail     == env.acks        \* requests may be refused or reported as failed
BrokerCloses == env.closes      \* the broker or the network may end the connection

Topics == {"TOPIC1", "TOPIC2", "TOPIC3"}
Kinds  == {"OPEN", "CONNECT", "PUBLISH", "SUBSCRIBE", "SUBACK", "UNSUBSCRIBE",
           "UNSUBACK", "DISCONNECT", "CLOSE", "ECHO"}

\* A message: the event, its result, and the topic of a NEW_MESSAGE.
Event(k, ok)   == [id |-> k, ok |-> ok, topic |-> "none"]
NewMessage(t)  == [id |-> "NEW_MESSAGE", ok |-> TRUE, topic |-> t]
Msgs == {Event(k, ok) : k \in (Kinds \ {"ECHO"}) \cup {"STATE"}, ok \in BOOLEAN}
        \cup {NewMessage(t) : t \in Topics}

Init ==
    /\ env \in Envs
    /\ pc = "start" /\ g_mqtt_ctx = "null" /\ ret = TRUE
    /\ msgq = <<>>
    /\ state = "INIT" /\ due = [k \in Kinds |-> 0]
    /\ subs = {} /\ foreign = 0 /\ report = {}
    /\ unsubbed = {} /\ late = FALSE

-----------------------------------------------------------------------------
(* The library thread.                                                     *)

\* Mutant: the capacity of the queue is not looked at.
event_cb_unbounded(m) ==
    /\ late' = (late \/ g_mqtt_ctx = "freed")
    /\ IF g_mqtt_ctx = "live" THEN msgq' = Append(msgq, m) ELSE UNCHANGED msgq

\* unir_mqtt_demo_event_cb: the event is lost when the queue is full.  The
\* callback goes through g_mqtt_ctx, which nobody resets when it is freed.
unir_mqtt_demo_event_cb(m) ==
    /\ late' = (late \/ g_mqtt_ctx = "freed")
    /\ IF g_mqtt_ctx = "live" /\ Len(msgq) < MqttMaxCnt
       THEN msgq' = Append(msgq, m) ELSE UNCHANGED msgq

Settle(k) == due[k] > 0 /\ due' = [due EXCEPT ![k] = @ - 1]
Results   == IF AcksFail THEN BOOLEAN ELSE {TRUE}
Online    == state \in {"MQTT_CONNECTED", "MQTT_DISCONNECTING"}

\* The library's thread has changed the state and goes on to report it.
Changed(m) == report = {} /\ report' = {m} /\ UNCHANGED <<msgq, late>>

\* An event without a change of state.  The task ends only on a change of state or
\* on a failure of its own, so that nothing depends on when the callback runs.
Tell(m) == report = {} /\ UNCHANGED report /\ unir_mqtt_demo_event_cb(m)

\* The callback that reports a change of state.
LibReport ==
    /\ \E m \in report : unir_mqtt_demo_event_cb(m)
    /\ report' = {}
    /\ UNCHANGED <<task, state, due, subs, foreign, unsubbed>>

\* The end of the opening.  Until it is reported the task has nothing in its queue
\* and does not look at the state: change and report are one step.
LibOpen ==
    /\ Settle("OPEN")
    /\ \E ok \in Results :
          /\ state' = IF ok THEN "TCP_OPENED" ELSE "TCP_CLOSED"
          /\ Tell(Event("OPEN", ok))
    /\ UNCHANGED <<task, subs, foreign, unsubbed>>

\* A refused connection may or may not take the TCP connection with it.
LibConnect ==
    /\ state = "MQTT_CONNECTING" /\ Settle("CONNECT")
    /\ \E ok \in Results :
          /\ state' \in IF ok THEN {"MQTT_CONNECTED"}
                        ELSE {"TCP_OPENED", "TCP_CLOSING", "TCP_CLOSED"}
          /\ Changed(Event("CONNECT", ok))
    /\ UNCHANGED <<task, subs, foreign, unsubbed>>

\* The packet of a subscribe, publish or unsubscribe was sent.
LibSent ==
    /\ Online
    /\ \E k \in {"SUBSCRIBE", "PUBLISH", "UNSUBSCRIBE"}, ok \in Results :
          Settle(k) /\ Tell(Event(k, ok))
    /\ UNCHANGED <<task, state, subs, foreign, unsubbed>>

LibSuback ==
    /\ Online /\ Settle("SUBACK")
    /\ \E ok \in Results :
          /\ subs' = IF ok THEN Topics ELSE subs
          /\ Tell(Event("SUBACK", ok))
    /\ UNCHANGED <<task, state, foreign, unsubbed>>

LibUnsuback ==
    /\ Online /\ Settle("UNSUBACK")
    /\ \E ok \in Results :
          /\ subs' = IF ok THEN subs \ unsubbed ELSE subs
          /\ Tell(Event("UNSUBACK", ok))
    /\ UNCHANGED <<task, state, foreign, unsubbed>>

\* The broker delivers the client's own message.
LibEcho ==
    /\ Online /\ report = {} /\ Settle("ECHO")
    /\ IF "TOPIC1" \in subs THEN Tell(NewMessage("TOPIC1"))
                            ELSE UNCHANGED <<msgq, late, report>>
    /\ UNCHANGED <<task, state, subs, foreign, unsubbed>>

\* The broker delivers a message of another client.
LibForeign ==
    /\ Online /\ foreign < MaxForeign
    /\ foreign' = foreign + 1
    /\ \E t \in subs : Tell(NewMessage(t))
    /\ UNCHANGED <<task, state, due, subs, unsubbed>>

\* The connection is lost.
LibState ==
    /\ BrokerCloses
    /\ state \in {"TCP_OPENED", "MQTT_CONNECTING", "MQTT_CONNECTED", "MQTT_DISCONNECTING"}
    /\ state' \in {"TCP_CLOSING", "TCP_CLOSED"}
    /\ Changed(Event("STATE", TRUE))
    /\ UNCHANGED <<task, due, subs, foreign, unsubbed>>

LibDisconnect ==
    /\ state = "MQTT_DISCONNECTING" /\ Settle("DISCONNECT")
    /\ state' = "TCP_CLOSING"
    /\ Changed(Event("DISCONNECT", TRUE))
    /\ UNCHANGED <<task, subs, foreign, unsubbed>>

LibClose ==
    /\ state \notin {"INIT", "TCP_CLOSED"} /\ Settle("CLOSE")
    /\ state' = "TCP_CLOSED"
    /\ \E ok \in Results : Changed(Event("CLOSE", ok))
    /\ UNCHANGED <<task, subs, foreign, unsubbed>>

Library ==
    \/ LibOpen \/ LibConnect \/ LibSent \/ LibSuback \/ LibUnsuback \/ LibEcho
    \/ LibForeign \/ LibState \/ LibDisconnect \/ LibClose \/ LibReport

-----------------------------------------------------------------------------
(* The requests of the task.  A request the library refuses is only        *)
(* logged, except for connect.                                             *)

Request(ks) ==
    \/ due' = [k \in Kinds |-> due[k] + (IF k \in ks THEN 1 ELSE 0)]
    \/ AcksFail /\ UNCHANGED due

\* unir_mqtt_demo_open: without configuration or memory there is no context;
\* any later failure leaves one.
unir_mqtt_demo_open ==
    /\ pc = "start"
    /\ \/ /\ g_mqtt_ctx' = "live"
          /\ state' = "TCP_OPENING"
          /\ due' = [due EXCEPT !["OPEN"] = @ + 1]
          /\ pc' = "wait"
       \/ /\ SetupFails
          /\ g_mqtt_ctx' \in {"null", "live"}
          /\ pc' = "free"
          /\ UNCHANGED <<state, due>>
    /\ UNCHANGED <<ret, msgq, subs, foreign, unsubbed, late, report>>

unir_mqtt_demo_connect ==
    \/ /\ state' = IF state = "TCP_OPENED" THEN "MQTT_CONNECTING" ELSE state
       /\ due' = [due EXCEPT !["CONNECT"] = @ + 1]
       /\ ret' = TRUE
    \/ /\ ConnectFails
       /\ ret' = FALSE
       /\ UNCHANGED <<state, due>>

\* Nothing is requested unless the client is connected by now.
unir_mqtt_demo_subscribe ==
    IF state = "MQTT_CONNECTED" THEN Request({"SUBSCRIBE", "SUBACK"})
                                ELSE UNCHANGED due

unir_mqtt_demo_publish == Request({"PUBLISH", "ECHO"})

\* topic_cnt is the index of the last topic, not their number: only the first
\* of the two topics is passed on.
unir_mqtt_demo_unsubscribe ==
    /\ unsubbed' = unsubbed \cup {"TOPIC1"}
    /\ Request({"UNSUBSCRIBE", "UNSUBACK"})

unir_mqtt_demo_disconnect ==
    \/ /\ state' = IF state = "MQTT_CONNECTED" THEN "MQTT_DISCONNECTING" ELSE state
       /\ due' = [due EXCEPT !["DISCONNECT"] = @ + 1]
    \/ AcksFail /\ UNCHANGED <<state, due>>

-----------------------------------------------------------------------------
(* The task.                                                               *)

TakeEvent(k) ==
    /\ pc = "wait" /\ msgq # <<>> /\ Head(msgq).id \in k
    /\ msgq' = Tail(msgq)
    /\ pc' = "check"

\* unir_mqtt_demo_event_handle, one action for each event that leads to a
\* request and one for the others.  Each handler sets ret.
OnOpened ==
    /\ TakeEvent({"OPEN"})
    /\ IF Head(msgq).ok THEN unir_mqtt_demo_connect
       ELSE ret' = TRUE /\ UNCHANGED <<state, due>>
    /\ UNCHANGED <<g_mqtt_ctx, subs, foreign, unsubbed, late, report>>

OnConnect ==
    /\ TakeEvent({"CONNECT"})
    /\ IF Head(msgq).ok THEN unir_mqtt_demo_subscribe ELSE UNCHANGED due
    /\ ret' = TRUE
    /\ UNCHANGED <<g_mqtt_ctx, state, subs, foreign, unsubbed, late, report>>

\* Mutant: nothing is published once the subscription stands.
OnSuback_silent ==
    /\ TakeEvent({"SUBACK"})
    /\ ret' = TRUE
    /\ UNCHANGED <<g_mqtt_ctx, libVars>>

OnSuback ==
    /\ TakeEvent({"SUBACK"})
    /\ IF Head(msgq).ok THEN unir_mqtt_demo_publish ELSE UNCHANGED due
    /\ ret' = TRUE
    /\ UNCHANGED <<g_mqtt_ctx, state, subs, foreign, unsubbed, late, report>>

OnUnsuback ==
    /\ TakeEvent({"UNSUBACK"})
    /\ IF Head(msgq).ok THEN unir_mqtt_demo_disconnect ELSE UNCHANGED <<state, due>>
    /\ ret' = TRUE
    /\ UNCHANGED <<g_mqtt_ctx, subs, foreign, unsubbed, late, report>>

OnOther ==
    /\ TakeEvent({"PUBLISH", "SUBSCRIBE", "UNSUBSCRIBE", "STATE", "DISCONNECT", "CLOSE"})
    /\ ret' = TRUE
    /\ UNCHANGED <<g_mqtt_ctx, libVars>>

\* The message may be gone when it is read.
unir_mqtt_demo_recv_new_message ==
    /\ TakeEvent({"NEW_MESSAGE"})
    /\ \/ Head(msgq).topic = "TOPIC1" /\ unir_mqtt_demo_unsubscribe
       \/ /\ AcksFail \/ Head(msgq).topic # "TOPIC1"
          /\ UNCHANGED <<due, unsubbed>>
    /\ UNCHANGED <<g_mqtt_ctx, ret, state, subs, foreign, late, report>>

\* Mutant: a connection that is being closed counts as closed.
Ended_while_closing == state \in {"TCP_CLOSED", "INIT", "TCP_CLOSING"}

\* Mutant: a closed connection does not end the task.
Ended_initial_only == state = "INIT"

\* The states in which the task ends.
Ended == state \in {"TCP_CLOSED", "INIT"}

\* After every event the task looks at the client's present state, which may be
\* ahead of the events: it closes a connection that is going down and leaves
\* when it is closed or a handler failed.
CheckState ==
    /\ pc = "check"
    /\ IF state \in {"TCP_CLOSING", "MQTT_DISCONNECTING"}
       THEN Request({"CLOSE"}) ELSE UNCHANGED due
    /\ pc' = IF Ended \/ ~ret THEN "free" ELSE "wait"
    /\ UNCHANGED <<g_mqtt_ctx, ret, msgq, state, subs, foreign, unsubbed, late, report>>

\* The context is dereferenced without a look at the pointer.
unir_mqtt_demo_ctx_free ==
    /\ pc = "free"
    /\ \/ g_mqtt_ctx = "live" /\ pc' = "exited" /\ g_mqtt_ctx' = "freed"
       \/ g_mqtt_ctx = "null" /\ pc' = "crashed" /\ UNCHANGED g_mqtt_ctx
    /\ msgq' = <<>>
    /\ UNCHANGED <<ret, libVars>>

unir_mqtt_demo_event_handle ==
    OnOpened \/ OnConnect \/ OnSuback \/ OnUnsuback \/ OnOther

unir_mqtt_demo_task ==
    \/ unir_mqtt_demo_open \/ unir_mqtt_demo_event_handle
    \/ unir_mqtt_demo_recv_new_message \/ CheckState \/ unir_mqtt_demo_ctx_free

-----------------------------------------------------------------------------
Next == (unir_mqtt_demo_task \/ Library) /\ UNCHANGED env

Spec == Init /\ [][Next]_vars

-----------------------------------------------------------------------------
(* Properties.                                                             *)

\* The types of what the MQTT 5 client has as well; the queue never exceeds its
\* capacity.
ClientTypeOK ==
    /\ env \in Envs
    /\ g_mqtt_ctx \in {"null", "live", "freed"} /\ ret \in BOOLEAN
    /\ Len(msgq) <= MqttMaxCnt
    /\ state \in {"INIT", "TCP_OPENING", "TCP_OPENED", "MQTT_CONNECTING",
                  "MQTT_CONNECTED", "MQTT_DISCONNECTING", "TCP_CLOSING", "TCP_CLOSED"}
    /\ due \in [Kinds -> Nat]
    /\ subs \in SUBSET Topics /\ unsubbed \in SUBSET Topics
    /\ foreign \in 0 .. MaxForeign /\ late \in BOOLEAN
    /\ report \in SUBSET Msgs

\* Every variable has its type.
TypeOK ==
    /\ ClientTypeOK
    /\ pc \in {"start", "wait", "check", "free", "exited", "crashed"}
    /\ msgq \in Seq(Msgs)

\* A task that ends although no handler failed frees its context only when the library
\* has begun its last report, although the state that ends the task runs ahead of the
\* events: on a freed context no report begins and no callback runs but the one that
\* was already under way.
NoReportAfterFree ==
    [][g_mqtt_ctx = "freed" /\ ret =>
           /\ report' \subseteq report
           /\ late' => late \/ report # {}]_vars

\* A task that waits when the connection is down is not forgotten: an event is in its
\* queue or being reported, or the end of the closing is still to come, however many
\* events a full queue has lost.  Only a refused request to close strands it.  It is the safety part
\* of the promise that the task ends.
NeverStranded ==
    MqttMaxCnt > 0 /\ pc = "wait" =>
        /\ state = "TCP_CLOSED" => msgq # <<>> \/ report # {}
        /\ state = "TCP_CLOSING" =>
              msgq # <<>> \/ report # {} \/ due["CLOSE"] > 0 \/ AcksFail

\* "If error occurs during processing, also exit task" and "Free resources"
\* (mqtt_demo.c:796 and 805): after a handler's error nothing uses what was freed.
FreedIsUnused == ~ret => ~late

-----------------------------------------------------------------------------
(* What NoReportAfterFree follows from.                                    *)

\* While the connection is being opened nothing else is due and the task waits.
OpenAlone ==
    due["OPEN"] > 0 =>
        /\ due["OPEN"] = 1 /\ due["CLOSE"] = 0
        /\ pc = "wait" /\ state = "TCP_OPENING" /\ msgq = <<>> /\ report = {}

\* A task that leaves after no failure leaves a closed connection, which brings no
\* events any more; a failure is not forgotten.
LeavesClosed ==
    /\ pc = "start" =>
          /\ state = "INIT" /\ msgq = <<>> /\ report = {}
          /\ \A k \in Kinds : due[k] = 0
    /\ g_mqtt_ctx = "freed" => pc = "exited"
    /\ ret /\ pc \in {"free", "exited"} =>
          state \in {"INIT", "TCP_CLOSED"} /\ due["OPEN"] = 0
    /\ ~ret => pc \in {"check", "free", "exited", "crashed"}

ClientInv == ClientTypeOK /\ OpenAlone /\ LeavesClosed

MqttInv == TypeOK /\ ClientInv
=============================================================================
