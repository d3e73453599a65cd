----------------------------- MODULE MCMessaging -----------------------------
(***************************************************************************)
(* The WebSocket and the MQTT demos for TLC.  They are programs of their   *)
(* own that share nothing, so that it is enough to run one at a time: demo *)
(* says which, and the variables of the others keep their first values.    *)
(* The MQTT demo is run in three environments, one without failures other  *)
(* than a lost connection; the MQTT 5 demo uses the same variables.        *)
(***************************************************************************)
EXTENDS WebSocketDemo, Mqtt5Demo

CONSTANTS
    FailQueueLen,               \* of the MQTT queue when requests may fail
    LossQueueLen,               \* of the MQTT queue when events are to be lost
    PlainQueueLen,              \* of the MQTT queue when no request fails
    FailForeign, LossForeign    \* messages of other MQTT clients

VARIABLE demo

allVars == <<demo, webVars, fiveVars>>

\* Requests may fail or be refused.
FailEnv == [queue |-> FailQueueLen, foreign |-> FailForeign, setup |-> TRUE,
            connect |-> TRUE, acks |-> TRUE, closes |-> TRUE]

\* The queue is so short that most events are lost.
LossEnv == [queue |-> LossQueueLen, foreign |-> LossForeign, setup |-> FALSE,
            connect |-> TRUE, acks |-> FALSE, closes |-> TRUE]

\* Only the connection may be lost.
PlainEnv == [queue |-> PlainQueueLen, foreign |-> FailForeign, setup |-> FALSE,
             connect |-> FALSE, acks |-> FALSE, closes |-> TRUE]

\* The queue is short enough to lose announcements of messages.
FiveEnv == [PlainEnv EXCEPT !.queue = LossQueueLen]

ASSUME EnvAssumption == {FailEnv, LossEnv, PlainEnv, FiveEnv} \subseteq Envs

Programs == {<<"web", PlainEnv>>, <<"mqtt", FailEnv>>, <<"mqtt", LossEnv>>,
             <<"mqtt", PlainEnv>>, <<"five", FiveEnv>>}

MsgInit ==
    /\ \E p \in Programs : demo = p[1] /\ env = p[2]
    /\ WebInit /\ FiveInit

\* Which demo takes a step; the others stand still.
InWeb  == demo = "web"  /\ UNCHANGED <<demo, fiveVars>>
InMqtt == demo = "mqtt" /\ UNCHANGED <<demo, webVars, readVars, env>>
InFive == demo = "five" /\ UNCHANGED <<demo, webVars, env>>

MsgNext ==
    \/ InWeb /\ WebNext
    \/ InMqtt /\ Next
    \/ InFive /\ FiveNext

\* The fairness of each demo: its task is scheduled, and the library delivers every
\* response that is due.  As demo never changes, weak fairness of a disjunction over
\* it is the weak fairness of the running demo's disjunct: one condition stands for
\* one of each demo.
MsgFairness ==
    /\ WF_allVars(\/ InWeb /\ Task
                  \/ InMqtt /\ unir_mqtt_demo_task
                  \/ InFive /\ FiveTask)
    /\ WF_allVars(\/ InWeb /\ CbOpen
                  \/ InMqtt /\ LibOpen)
    /\ WF_allVars(\/ InWeb /\ CbClose /\ conn = "closing"
                  \/ InMqtt /\ LibConnect)
    /\ WF_allVars(\/ InWeb /\ CbWrite
                  \/ InMqtt /\ LibSent)
    /\ WF_allVars(InMqtt /\ LibSuback)
    /\ WF_allVars(InMqtt /\ LibUnsuback)
    /\ WF_allVars(InMqtt /\ LibEcho)
    /\ WF_allVars(InMqtt /\ LibDisconnect)
    /\ WF_allVars(InMqtt /\ LibClose)
    /\ WF_allVars(InMqtt /\ LibReport)

MsgSpec == MsgInit /\ [][MsgNext]_allVars /\ MsgFairness

-----------------------------------------------------------------------------
\* Every variable of every demo keeps its type, and no queue exceeds its
\* capacity.
AllTypesOK == WebTypeOK /\ IF demo = "mqtt" THEN TypeOK ELSE FiveTypeOK

\* MQTT: the task ends when the connection goes down, whatever the queue lost.
DownEndsTask ==
    demo = "mqtt" /\ ~AcksFail /\ state \in {"TCP_CLOSING", "TCP_CLOSED"}
        /\ g_mqtt_ctx = "live" ~> pc \in {"exited", "crashed"}

\* MQTT: when nothing fails the demo runs to its end.
DemoRunsToEnd == demo = "mqtt" /\ env = PlainEnv /\ state = "TCP_OPENED" ~> pc = "exited"

\* MQTT 5: messages whose announcement was lost are read with the others.
StoredIsRead == \A n \in 1 .. FailForeign + 1 : IsRead(n)
=============================================================================
