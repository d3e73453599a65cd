------------------------------ MODULE TcpClient ------------------------------
(***************************************************************************)
(* The non-blocking TCP client                                             *)
(* (network/network_protocol/socket/noblock_client/tcp_noblock_client.c).  *)
(*                                                                         *)
(* Three threads share g_socket_context: the socket task, which takes      *)
(* messages from a bounded queue and does all socket work; the socket      *)
(* library, whose callbacks post events on that queue; and the             *)
(* application, which puts data into the send watermark and asks for the   *)
(* connection to be closed.  Nobody waits for room in the queue, and       *)
(* nothing is locked: soc_write and the application's push are split where *)
(* the other threads can run, and send_release_count++ and -- each into a  *)
(* load and a store.                                                       *)
(*                                                                         *)
(* A block handed to the watermark is one number; the n-th accepted block  *)
(* is n.  Lengths and water levels count blocks.  The socket library       *)
(* (qcm_socket) and the watermark buffers (qosa_buffer) are external.      *)
(***************************************************************************)
EXTENDS Integers, Sequences

CONSTANTS
    MaxMsgs,        \* capacity of g_socket_msgq
    SingleSend,     \* SOCKET_APP_SINGLE_SEND_LEN, in blocks
    Limit,          \* SOCKET_APP_WATERMARK_LIMIT
    HighLimit,      \* SOCKET_APP_WATERMARK_HIGH_LIMIT
    LowLimit,       \* SOCKET_APP_WATERMARK_LOW_LIMIT
    NAddrs,         \* addresses the host name resolves to
    MaxItems,       \* bound: blocks the application sends
    MaxZeros,       \* bound: sends the socket answers with 0
    UserCloses,     \* whether the application calls qcm_socket_app_close
    SendFails       \* whether send may block, fail or take only a part, and
                    \* memory run out

ASSUME ClientAssumption ==
    /\ MaxMsgs \in Nat \ {0} /\ SingleSend \in Nat \ {0}
    /\ Limit \in Nat \ {0} /\ HighLimit \in Nat \ {0}
    /\ LowLimit \in Nat /\ NAddrs \in Nat /\ MaxItems \in Nat /\ MaxZeros \in Nat
    /\ UserCloses \in BOOLEAN /\ SendFails \in BOOLEAN

VARIABLES
    pc,                 \* the socket task
    addr,               \* addresses tried by qcm_socket_app_socket_create
    msgq,               \* g_socket_msgq
    connect_state, send_release_count,
    loaded,             \* send_release_count as the task's -- loaded it
    write_len,          \* soc_write: blocks still to be taken
    write_buff,         \* soc_write: blocks taken and not handed over
    app,                \* the application inside qcm_socket_app_send_data
    app_loaded,         \* send_release_count as the application's ++ loaded it
    rx_tx_ready, send_wm_high, recv_wm_high,
    send_wm,            \* blocks in the send watermark
    current_send,       \* current_send_data_ptr: taken out and not sent
    recv_wm,            \* number of blocks in the receive watermark
    sock,               \* library: "none", "connecting", "up", "down", "closed"
    armed,              \* library: a send would have blocked and no WRITE event
                        \* was reported since
    zeros,              \* number of sends answered with 0
    accepted,           \* history: number of blocks the send watermark took
    wire,               \* history: blocks the socket took
    lost                \* history: a message soc_write would have run on, or the
                        \* memory for its copy, was missing

session == <<rx_tx_ready, send_wm_high, recv_wm_high, send_wm, current_send, recv_wm>>
local   == <<addr, loaded, write_len, write_buff>>
appVars == <<app, app_loaded>>
library == <<sock, armed, zeros>>
history == <<accepted, wire, lost>>
vars    == <<pc, local, msgq, connect_state, send_release_count, appVars, session,
             library, history>>

Event(m, r) == [type |-> "EVENT_IND", mask |-> m, ok |-> r]
SendInd     == [type |-> "SEND_IND", mask |-> "none", ok |-> TRUE]
\* ok says whether argv is the context (qcm_socket_app_soc_close) or QOSA_NULL
\* (qcm_socket_app_close).
Close(ctx)  == [type |-> "CLOSE", mask |-> "none", ok |-> ctx]

Events == {Event(m, r) : m \in {"CONNECT", "READ", "WRITE", "CLOSE"}, r \in BOOLEAN}
Msgs   == Events \cup {SendInd, Close(TRUE), Close(FALSE)}

Init ==
    /\ pc = "start" /\ addr = 0
    /\ msgq = <<>>
    /\ connect_state = "IDLE" /\ send_release_count = 0
    /\ loaded = 0 /\ write_len = 0 /\ write_buff = <<>>
    /\ app = "idle" /\ app_loaded = 0
    /\ rx_tx_ready = FALSE /\ send_wm_high = FALSE /\ recv_wm_high = FALSE
    /\ send_wm = <<>> /\ current_send = <<>> /\ recv_wm = 0
    /\ sock = "none" /\ armed = FALSE /\ zeros = 0
    /\ accepted = 0 /\ wire = <<>> /\ lost = FALSE

\* A message that finds the queue full is lost.
socket_app_event_report(m) ==
    IF Len(msgq) < MaxMsgs THEN msgq' = Append(msgq, m) ELSE UNCHANGED msgq

\* The same for a message that makes the task send.
ReportSend(m) ==
    /\ socket_app_event_report(m)
    /\ lost' = (lost \/ Len(msgq) = MaxMsgs)

-----------------------------------------------------------------------------
(* The socket library's callbacks.                                         *)

\* The event is lost when its message cannot be allocated, too.
socket_app_register_event_cb(m) ==
    \/ socket_app_event_report(m)
    \/ SendFails /\ UNCHANGED msgq

\* The connection is made or fails.
ConnectEvent ==
    /\ sock = "connecting"
    /\ \E ok \in BOOLEAN :
          /\ sock' = IF ok THEN "up" ELSE "down"
          /\ socket_app_register_event_cb(Event("CONNECT", ok))
    /\ UNCHANGED <<pc, local, connect_state, send_release_count, appVars, session,
                   armed, zeros, history>>

ReadEvent ==
    /\ sock = "up"
    /\ socket_app_register_event_cb(Event("READ", TRUE))
    /\ UNCHANGED <<pc, local, connect_state, send_release_count, appVars, session,
                   library, history>>

\* The socket can be written to.  Only after a send that would have blocked does
\* anybody rely on it.
WriteEvent ==
    /\ sock = "up"
    /\ socket_app_register_event_cb(Event("WRITE", TRUE))
    /\ lost' = (lost \/ (armed /\ msgq' = msgq))
    /\ armed' = FALSE
    /\ UNCHANGED <<pc, local, connect_state, send_release_count, appVars, session,
                   sock, zeros, accepted, wire>>

\* The server or the network ends the connection.
CloseEvent ==
    /\ sock = "up"
    /\ sock' = "down"
    /\ socket_app_register_event_cb(Event("CLOSE", TRUE))
    /\ UNCHANGED <<pc, local, connect_state, send_release_count, appVars, session,
                   armed, zeros, history>>

-----------------------------------------------------------------------------
(* The application.                                                        *)

\* The flag send_wm_high after the send watermark grew to level.
socket_app_tx_wm_high_level_cb(level) == send_wm_high \/ level = HighLimit

\* The same flag after the send watermark shrank to level.
socket_app_tx_wm_low_level_cb(level) == send_wm_high /\ level # LowLimit

\* The same flag after the receive watermark grew to level.
socket_app_rx_wm_high_level_cb(level) == send_wm_high \/ level = HighLimit

\* qosa_buffer_enqueue on the send watermark.  Without a queue, or at the limit,
\* the block is refused, which nobody looks at; there may be no block at all.
qcm_socket_app_send_data ==
    /\ app = "idle" /\ accepted < MaxItems
    /\ \/ /\ rx_tx_ready /\ Len(send_wm) < Limit
          /\ accepted' = accepted + 1
          /\ send_wm' = Append(send_wm, accepted + 1)
          /\ send_wm_high' = socket_app_tx_wm_high_level_cb(Len(send_wm) + 1)
          /\ app' = IF send_wm = <<>> THEN "load" ELSE "idle"
       \/ /\ SendFails \/ ~rx_tx_ready \/ Len(send_wm) = Limit
          /\ UNCHANGED <<accepted, send_wm, send_wm_high, app>>
    /\ UNCHANGED <<pc, local, msgq, connect_state, send_release_count, app_loaded,
                   rx_tx_ready, recv_wm_high, current_send, recv_wm, library, wire,
                   lost>>

\* The send watermark is no longer empty: the count is loaded, incremented and
\* stored, then the message posted.
socket_app_tx_wm_non_empty_cb ==
    /\ \/ /\ app = "load" /\ app' = "store"
          /\ app_loaded' = send_release_count
          /\ UNCHANGED <<send_release_count, msgq, lost>>
       \/ /\ app = "store" /\ app' = "report"
          /\ send_release_count' = app_loaded + 1
          /\ app_loaded' = 0
          /\ UNCHANGED <<msgq, lost>>
       \/ /\ app = "report" /\ app' = "idle"
          /\ ReportSend(SendInd)
          /\ UNCHANGED <<send_release_count, app_loaded>>
    /\ UNCHANGED <<pc, local, connect_state, session, library, accepted, wire>>

qcm_socket_app_close ==
    /\ UserCloses
    /\ pc \notin {"start", "failed"}
    /\ socket_app_event_report(Close(FALSE))
    /\ UNCHANGED <<pc, local, connect_state, send_release_count, appVars, session,
                   library, history>>

-----------------------------------------------------------------------------
(* The socket task: start.                                                 *)

\* Queue and task are created, or nothing runs; the context is zeroed.
unir_qcm_socket_noblock_demo_init ==
    /\ pc = "start"
    /\ pc' \in {"create", "failed"}
    /\ UNCHANGED <<local, msgq, connect_state, send_release_count, appVars, session,
                   library, history>>

\* The data call, the DNS query or qcm_socket_create fails, or no address is
\* left: the task returns.
CreateFails ==
    /\ pc = "create"
    /\ pc' = "failed"
    /\ UNCHANGED <<local, msgq, connect_state, send_release_count, appVars, session,
                   library, history>>

\* Mutant: the end of the address list is not looked at.
ConnectRefused_no_end ==
    /\ pc = "create" /\ addr < NAddrs + 2
    /\ addr' = addr + 1
    /\ UNCHANGED <<pc, loaded, write_len, write_buff, msgq, connect_state,
                   send_release_count, appVars, session, library, history>>

\* An address whose connect fails at once is closed and the next one tried.  Its
\* socket was registered before: the library may have reported the failure, too.
ConnectRefused ==
    /\ pc = "create" /\ addr < NAddrs
    /\ addr' = addr + 1
    /\ \/ \E m \in {Event("CONNECT", FALSE), Event("CLOSE", TRUE)} :
             socket_app_register_event_cb(m)
       \/ UNCHANGED msgq
    /\ UNCHANGED <<pc, loaded, write_len, write_buff, connect_state,
                   send_release_count, appVars, session, library, history>>

\* The socket is registered and connecting; its events may already arrive.
qcm_socket_app_socket_create ==
    /\ pc = "create" /\ addr < NAddrs
    /\ sock' = "connecting"
    /\ addr' = 0
    /\ pc' = "created"
    /\ UNCHANGED <<loaded, write_len, write_buff, msgq, connect_state,
                   send_release_count, appVars, session, armed, zeros,
                   history>>

socket_app_rx_tx_watermark_init ==
    /\ rx_tx_ready' = TRUE
    /\ send_wm_high' = FALSE /\ recv_wm_high' = FALSE
    /\ send_wm' = <<>> /\ current_send' = <<>> /\ recv_wm' = 0

\* Everything is given back; the two flags keep their values.
socket_app_rx_tx_watermark_deinit ==
    /\ rx_tx_ready' = FALSE
    /\ send_wm' = <<>> /\ current_send' = <<>> /\ recv_wm' = 0
    /\ UNCHANGED <<send_wm_high, recv_wm_high>>

\* The state is set and the watermarks are made.
StartSession ==
    /\ pc = "created"
    /\ connect_state' = "CONNECTING"
    /\ socket_app_rx_tx_watermark_init
    /\ pc' = "wait"
    /\ UNCHANGED <<local, msgq, send_release_count, appVars, library, history>>

-----------------------------------------------------------------------------
(* The socket task: qcm_socket_app_soc_write.                              *)

\* What is to be taken out for one send.
WriteLen ==
    LET n == Len(current_send) + Len(send_wm)
    IN  IF n < SingleSend THEN n ELSE SingleSend

\* Nothing is sent before the watermarks exist or while the flag is up.
WriteAllowed ==
    /\ pc = "write"
    /\ pc' = IF rx_tx_ready /\ ~send_wm_high THEN "length" ELSE "wait"
    /\ UNCHANGED <<local, msgq, connect_state, send_release_count, appVars, session,
                   library, history>>

\* The length is fixed, unless there is no data or no memory for a copy of it.
WriteLength ==
    /\ pc = "length"
    /\ \/ /\ WriteLen > 0
          /\ write_len' = WriteLen
          /\ pc' = "take"
          /\ UNCHANGED lost
       \/ /\ SendFails \/ WriteLen = 0
          /\ lost' = (lost \/ WriteLen > 0)
          /\ pc' = "wait"
          /\ UNCHANGED write_len
    /\ UNCHANGED <<addr, loaded, write_buff, msgq, connect_state,
                   send_release_count, appVars, session, library, accepted, wire>>

\* One turn of the loop: from the current packet if there is one, otherwise
\* from the watermark.  Nobody else takes from either, so that what was counted
\* is there.
WriteTake ==
    /\ pc = "take"
    /\ \/ /\ current_send # <<>>
          /\ LET n == IF Len(current_send) < write_len THEN Len(current_send)
                                                       ELSE write_len
             IN  /\ write_buff' = write_buff \o SubSeq(current_send, 1, n)
                 /\ current_send' = SubSeq(current_send, n + 1, Len(current_send))
                 /\ write_len' = write_len - n
          /\ UNCHANGED <<send_wm, send_wm_high>>
       \/ /\ current_send = <<>> /\ send_wm # <<>>
          /\ write_buff' = Append(write_buff, Head(send_wm))
          /\ send_wm' = Tail(send_wm)
          /\ send_wm_high' = socket_app_tx_wm_low_level_cb(Len(send_wm) - 1)
          /\ write_len' = write_len - 1
          /\ UNCHANGED current_send
    /\ pc' = IF write_len' = 0 THEN "send" ELSE "take"
    /\ UNCHANGED <<addr, loaded, msgq, connect_state, send_release_count,
                   appVars, rx_tx_ready, recv_wm_high, recv_wm, library, history>>

\* What qcm_socket_send returns for n blocks: "would block" or an error (-1),
\* nothing, a part or all.
SendResults(n) ==
    IF sock # "up" THEN {-1}
    ELSE IF ~SendFails THEN {n}
    ELSE {-1} \cup {r \in 0 .. n : r > 0 \/ zeros < MaxZeros}

\* Mutant: after a partial send the whole packet is kept.
Unsent_all(batch, r) == IF r = Len(batch) THEN <<>> ELSE batch

\* The part of batch that is pushed back in front of the current packet.
Unsent(batch, r) == IF r < 0 THEN batch ELSE SubSeq(batch, r + 1, Len(batch))

\* The send.  A result that is not negative is to be followed by another send:
\* a part taken does not yet make the library wait for a WRITE event.
WriteSend ==
    /\ pc = "send"
    /\ \E r \in SendResults(Len(write_buff)) :
          /\ wire' = IF r > 0 THEN wire \o SubSeq(write_buff, 1, r) ELSE wire
          /\ current_send' = Unsent(write_buff, r) \o current_send
          /\ armed' = (armed \/ (sock \in {"connecting", "up"} /\ r < 0))
          /\ zeros' = IF r = 0 THEN zeros + 1 ELSE zeros
          /\ pc' = IF r < 0 THEN "wait" ELSE "release"
    /\ write_buff' = <<>>
    /\ UNCHANGED <<addr, loaded, write_len, msgq, connect_state,
                   send_release_count, appVars, rx_tx_ready, send_wm_high,
                   recv_wm_high, send_wm, recv_wm, sock, accepted, lost>>

\* Mutant: a send that took only a part waits for the WRITE event.
WriteRelease_part_waits ==
    /\ pc = "release"
    /\ IF send_release_count < 3 /\ current_send = <<>>
       THEN ReportSend(SendInd)
       ELSE UNCHANGED <<msgq, lost>>
    /\ pc' = "wait"
    /\ UNCHANGED <<local, connect_state, send_release_count, appVars, session,
                   library, accepted, wire>>

\* The task posts to itself, unless the count says that messages are waiting.
WriteRelease ==
    /\ pc = "release"
    /\ IF send_release_count < 3
       THEN ReportSend(SendInd)
       ELSE UNCHANGED <<msgq, lost>>
    /\ pc' = "wait"
    /\ UNCHANGED <<local, connect_state, send_release_count, appVars, session,
                   library, accepted, wire>>

qcm_socket_app_soc_write ==
    WriteAllowed \/ WriteLength \/ WriteTake \/ WriteSend \/ WriteRelease

-----------------------------------------------------------------------------
(* The socket task: its loop.                                              *)

\* A read that finds data puts it into the receive watermark.  Its high-water
\* callback sets send_wm_high; nothing sets recv_wm_high, and nobody takes data
\* out again.
qcm_socket_app_soc_read ==
    \/ /\ connect_state = "CONNECT" /\ ~recv_wm_high /\ sock = "up"
       /\ recv_wm < Limit
       /\ recv_wm' = recv_wm + 1
       /\ send_wm_high' = socket_app_rx_wm_high_level_cb(recv_wm + 1)
       /\ UNCHANGED <<rx_tx_ready, recv_wm_high, send_wm, current_send>>
    \/ UNCHANGED session

\* A WRITE event goes on to soc_write, a CLOSE event to soc_close.
qcm_socket_app_event_process(m) ==
    /\ m.type = "EVENT_IND"
    /\ \/ /\ m.mask = "CONNECT"
          /\ connect_state' = IF m.ok THEN "CONNECT" ELSE connect_state
          /\ pc' = "wait"
          /\ UNCHANGED session
       \/ /\ m.mask = "READ"
          /\ qcm_socket_app_soc_read
          /\ pc' = "wait"
          /\ UNCHANGED connect_state
       \/ /\ m.mask = "WRITE"
          /\ pc' = "write"
          /\ UNCHANGED <<connect_state, session>>
       \/ /\ m.mask = "CLOSE"
          /\ connect_state' = "CLOSING"
          /\ pc' = "close"
          /\ UNCHANGED session
    /\ UNCHANGED <<loaded, sock>>

\* soc_close posts the CLOSE message to the task itself; the queue may be full
\* again by then.
qcm_socket_app_soc_close ==
    /\ pc = "close"
    /\ socket_app_event_report(Close(TRUE))
    /\ pc' = "wait"
    /\ UNCHANGED <<local, connect_state, send_release_count, appVars, session,
                   library, history>>

\* The count is loaded; DecrementCount stores it and goes on to soc_write.
qcm_socket_app_send_process(m) ==
    /\ m.type = "SEND_IND"
    /\ loaded' = send_release_count
    /\ pc' = "count"
    /\ UNCHANGED <<connect_state, session, sock>>

DecrementCount ==
    /\ pc = "count"
    /\ send_release_count' = loaded - 1
    /\ loaded' = 0
    /\ pc' = "write"
    /\ UNCHANGED <<addr, write_len, write_buff, msgq, connect_state, appVars,
                   session, library, history>>

\* The socket is closed, the watermarks are given back and the task ends.  The
\* user's close carries no context, and the handler reads the state through it:
\* the task dies there, or goes on with what it finds and ends without having
\* closed its socket.
qcm_socket_app_close_process(m) ==
    /\ m.type = "CLOSE"
    /\ \/ /\ m.ok
          /\ sock' = IF connect_state = "IDLE" THEN sock ELSE "closed"
          /\ connect_state' = "IDLE"
          /\ socket_app_rx_tx_watermark_deinit
          /\ pc' = "exited"
       \/ /\ ~m.ok
          /\ socket_app_rx_tx_watermark_deinit
          /\ pc' = "exited"
          /\ UNCHANGED <<connect_state, sock>>
       \/ /\ ~m.ok
          /\ pc' = "crashed"
          /\ UNCHANGED <<connect_state, session, sock>>
    /\ UNCHANGED loaded

HandleMsg ==
    /\ pc = "wait" /\ msgq # <<>>
    /\ msgq' = Tail(msgq)
    /\ LET m == Head(msgq)
       IN  \/ qcm_socket_app_event_process(m)
           \/ qcm_socket_app_send_process(m)
           \/ qcm_socket_app_close_process(m)
    /\ UNCHANGED <<addr, write_len, write_buff, send_release_count, appVars, armed,
                   zeros, history>>

-----------------------------------------------------------------------------
SocketTask ==
    \/ unir_qcm_socket_noblock_demo_init \/ CreateFails \/ ConnectRefused
    \/ qcm_socket_app_socket_create \/ StartSession \/ HandleMsg
    \/ DecrementCount \/ qcm_socket_app_soc_write \/ qcm_socket_app_soc_close

Library == ConnectEvent \/ ReadEvent \/ WriteEvent \/ CloseEvent

Application ==
    \/ qcm_socket_app_send_data \/ socket_app_tx_wm_non_empty_cb
    \/ qcm_socket_app_close

\* What the others do once the task has ended reaches nobody and is left out.
Next == SocketTask \/ (pc \notin {"failed", "exited", "crashed"} /\ (Library \/ Application))

Spec == Init /\ [][Next]_vars

\* The socket task is scheduled, and the application's thread inside the push; a
\* send that would have blocked, also before the connection was made, is followed
\* by a WRITE event while the connection lasts; a socket that is asked again and
\* again takes something at last.
FairSpec ==
    /\ Spec
    /\ WF_vars(SocketTask) /\ WF_vars(socket_app_tx_wm_non_empty_cb)
    /\ WF_vars(armed /\ WriteEvent)
    /\ SF_vars(WriteSend /\ wire' # wire)

-----------------------------------------------------------------------------
(* Properties.                                                             *)

\* Every variable has the type of the C object it stands for.
TypeOK ==
    /\ pc \in {"start", "failed", "create", "created", "wait", "close", "count",
               "write", "length", "take", "send", "release", "exited", "crashed"}
    /\ addr \in 0 .. NAddrs
    /\ msgq \in Seq(Msgs) /\ Len(msgq) <= MaxMsgs
    /\ connect_state \in {"IDLE", "CONNECTING", "CONNECT", "CLOSING"}
    /\ send_release_count \in Int /\ loaded \in Int /\ app_loaded \in Int
    /\ write_len \in 0 .. SingleSend /\ write_buff \in Seq(1 .. MaxItems)
    /\ app \in {"idle", "load", "store", "report"}
    /\ rx_tx_ready \in BOOLEAN /\ send_wm_high \in BOOLEAN
    /\ recv_wm_high \in BOOLEAN
    /\ send_wm \in Seq(1 .. MaxItems) /\ current_send \in Seq(1 .. MaxItems)
    /\ recv_wm \in 0 .. Limit
    /\ sock \in {"none", "connecting", "up", "down", "closed"}
    /\ armed \in BOOLEAN /\ zeros \in Nat
    /\ accepted \in 0 .. MaxItems
    /\ wire \in Seq(1 .. MaxItems) /\ lost \in BOOLEAN

\* No block is lost, repeated or reordered on its way through the watermark,
\* the copy being sent, the current packet and sends that block, fail or take
\* nothing or a part, while the application pushes at any time: while the session
\* lasts, what the socket took, then what waits in the copy, in the current packet
\* and in the watermark is exactly what was accepted.
StreamIntact ==
    LET stream == wire \o write_buff \o current_send \o send_wm
    IN  rx_tx_ready => stream = [n \in 1 .. accepted |-> n]

\* Everything accepted is on its way, or there is no connection to send it on, or
\* a message that makes the task send, or the memory for a copy, was missing.
Settled ==
    \/ Len(wire) = accepted
    \/ sock # "up" \/ pc \in {"exited", "crashed"} \/ lost

\* Again and again everything accepted has reached the socket, whatever the socket
\* takes of each send and however pushes, events and the unlocked ++ and -- of
\* send_release_count interleave.  Data is left lying only when the sender is
\* switched off for good by one of its own two conditions: the high-water flag, or
\* a count that says that three messages are waiting.
SentUnlessStuck ==
    \/ []<>Settled
    \/ <>[]send_wm_high
    \/ <>[](send_release_count >= 3)

\* The same without the two exceptions: data handed to the watermark "will send
\* event notification to socket task for sending", also at the high level.
AcceptedIsSent == []<>Settled

-----------------------------------------------------------------------------
(* What makes StreamIntact inductive.                                      *)

\* The watermarks exist from the start of the session to its end, nothing is
\* accepted or sent before, and there is no copy of the data outside a send.
Session ==
    /\ pc \in {"start", "failed", "create", "created"} =>
          ~rx_tx_ready /\ accepted = 0 /\ wire = <<>>
    /\ pc \notin {"take", "send"} => write_buff = <<>>
    /\ pc = "take" => write_len > 0

ClientInv == TypeOK /\ Session /\ StreamIntact
=============================================================================
