------------------------------ MODULE TcpServer ------------------------------
(***************************************************************************)
(* The non-blocking TCP echo server                                        *)
(* (network/network_protocol/socket/server/tcp_server.c).                  *)
(*                                                                         *)
(* Two threads run the code.  The socket library calls                     *)
(* socket_app_register_event_cb, which posts one message per socket event  *)
(* on a bounded queue and never waits; the server task takes the messages  *)
(* one by one and runs the accept or the client handler.  A message names  *)
(* a socket handle and the slot index given when the handle was            *)
(* registered; both may be out of date when the task reads them.           *)
(*                                                                         *)
(* The echo of one message has EchoLen bytes, of which only the positions  *)
(* matter; the receive and send counters, which are only logged, are left  *)
(* out.  The socket library, qcm_socket, is external.                      *)
(***************************************************************************)
EXTENDS Integers, Sequences, FiniteSets

CONSTANTS
    MaxClients,     \* SOCKET_SERVER_MAX_CLIENTS: number of client slots
    MaxMsgs,        \* capacity of g_socket_msgq
    Backlog,        \* SOCKET_SERVER_BACKLOG
    EchoLen,        \* bytes of one echo, without the terminating zero
    Fds,            \* handles the library gives to accepted sockets
    Bufs,           \* heap blocks malloc may return for an echo
    MallocFails,    \* whether malloc may fail while the heap has room
    MaxEvents,      \* bound: how many callbacks a behaviour has
    NULL, ListenFd

ASSUME ServerAssumption ==
    /\ MaxClients \in Nat \ {0} /\ MaxMsgs \in Nat \ {0} /\ Backlog \in Nat
    /\ EchoLen \in Nat \ {0} /\ MaxEvents \in Nat
    /\ MallocFails \in BOOLEAN
    /\ NULL \notin Fds /\ NULL \notin Bufs /\ NULL \notin Int
    /\ ListenFd \notin Fds

VARIABLES
    pc,              \* progress of qcm_socket_server_main
    msgq,            \* g_socket_msgq
    active,          \* clients[i].active
    socket_fd,       \* clients[i].socket_fd, NULL for -1
    send_buffer,     \* clients[i].send_buffer
    send_buffer_len, \* clients[i].send_buffer_len
    send_offset,     \* clients[i].send_offset
    client_count,    \* g_server_ctx.client_count
    heap,            \* echo blocks malloc returned and nobody freed
    sent,            \* history: bytes of slot i's current echo on the wire
    asker,           \* history: handle whose message slot i's echo answers
    sentTo,          \* history: handles that got bytes of slot i's echo
    open,            \* library: accepted handles that are not closed
    broken,          \* library: open handles whose peer went away
    reg,             \* library: user argument registered for a handle
    listenReg,       \* library: the accept event is registered
    pending,         \* library: connections waiting to be accepted
    events           \* number of callbacks so far

slotVars == <<active, socket_fd, send_buffer, send_buffer_len, send_offset,
              client_count, heap, sent, asker, sentTo>>
libVars  == <<open, broken, reg, listenReg, pending>>
vars     == <<pc, msgq, slotVars, libVars, events>>

Slots == 0 .. (MaxClients - 1)
Bytes == 0 .. (EchoLen - 1)

AcceptMsgs == [fd : {ListenFd}, mask : {"ACCEPT"}, ok : BOOLEAN, argv : {NULL}]
ClientMsgs == [fd : Fds, mask : {"READ", "WRITE", "CLOSE"}, ok : {TRUE},
               argv : Slots]

\* socket_app_event_ind_t, wrapped in a socket_app_msg_info_t whose event
\* type says whether the handle was the listening one.
Msgs == AcceptMsgs \cup ClientMsgs

Init ==
    /\ pc = "init"
    /\ msgq = <<>>
    /\ active = [i \in Slots |-> FALSE]
    /\ socket_fd = [i \in Slots |-> NULL]
    /\ send_buffer = [i \in Slots |-> NULL]
    /\ send_buffer_len = [i \in Slots |-> 0]
    /\ send_offset = [i \in Slots |-> 0]
    /\ client_count = 0
    /\ heap = {}
    /\ sent = [i \in Slots |-> {}]
    /\ asker = [i \in Slots |-> NULL]
    /\ sentTo = [i \in Slots |-> {}]
    /\ open = {} /\ broken = {}
    /\ reg = [f \in Fds |-> NULL]
    /\ listenReg = FALSE
    /\ pending = 0
    /\ events = 0

-----------------------------------------------------------------------------
(* The callback thread.                                                    *)

\* socket_app_register_event_cb and socket_app_event_report: the event is
\* lost when its message cannot be allocated or the queue is full.
socket_app_register_event_cb(m) ==
    /\ events < MaxEvents
    /\ events' = events + 1
    /\ \/ /\ Len(msgq) < MaxMsgs
          /\ msgq' = Append(msgq, m)
       \/ /\ MallocFails \/ Len(msgq) = MaxMsgs
          /\ UNCHANGED msgq

\* A peer connects; code says whether the library reports it as a success.
PeerConnect ==
    /\ listenReg /\ pc \in {"listening", "running"}
    /\ pending < Backlog
    /\ pending' = pending + 1
    /\ \E ok \in BOOLEAN :
          socket_app_register_event_cb([fd |-> ListenFd, mask |-> "ACCEPT",
                                        ok |-> ok, argv |-> NULL])
    /\ UNCHANGED <<pc, slotVars, open, broken, reg, listenReg>>

\* The library reports that an accepted socket can be read or written.
SocketReady ==
    /\ \E f \in open, k \in {"READ", "WRITE"} :
          /\ reg[f] # NULL
          /\ socket_app_register_event_cb([fd |-> f, mask |-> k, ok |-> TRUE,
                                           argv |-> reg[f]])
    /\ UNCHANGED <<pc, slotVars, libVars>>

\* The peer closes its end: reads now return QCM_SOCK_BROKEN, and the CLOSE
\* event is reported once.
PeerClose ==
    /\ \E f \in open \ broken :
          /\ broken' = broken \cup {f}
          /\ \/ /\ reg[f] # NULL
                /\ socket_app_register_event_cb([fd |-> f, mask |-> "CLOSE",
                                                 ok |-> TRUE, argv |-> reg[f]])
             \/ /\ reg[f] = NULL
                /\ UNCHANGED <<msgq, events>>
    /\ UNCHANGED <<pc, slotVars, open, reg, listenReg, pending>>

-----------------------------------------------------------------------------
(* The server task: start-up.                                              *)

\* The queue and the task are created; when the task cannot be, the queue is
\* deleted again and nothing runs.
unir_qcm_socket_server_nonblock_demo_init ==
    /\ pc = "init"
    /\ pc' \in {"datacall", "exited"}
    /\ UNCHANGED <<msgq, slotVars, libVars, events>>

qcm_socket_server_datacall_active ==
    /\ pc = "datacall"
    /\ pc' \in {"create", "exited"}
    /\ UNCHANGED <<msgq, slotVars, libVars, events>>

\* The listening socket is created and its ACCEPT callback registered; the
\* result of the registration is overwritten before anybody looks at it.
CreateListenSocket ==
    /\ pc = "create"
    /\ \/ /\ pc' = "exited"
          /\ UNCHANGED listenReg
       \/ /\ pc' = "listen"
          /\ listenReg' \in BOOLEAN
    /\ UNCHANGED <<msgq, slotVars, open, broken, reg, pending, events>>

\* A failed listen closes the socket and leaves the task; its callback goes
\* with it.
StartListening ==
    /\ pc = "listen"
    /\ \/ pc' = "listening" /\ UNCHANGED listenReg
       \/ pc' = "exited" /\ listenReg' = FALSE
    /\ UNCHANGED <<msgq, slotVars, open, broken, reg, pending, events>>

\* The client array is initialised only after listen: accept events may
\* already be queued.
InitClients ==
    /\ pc = "listening"
    /\ pc' = "running"
    /\ active' = [i \in Slots |-> FALSE]
    /\ socket_fd' = [i \in Slots |-> NULL]
    /\ send_buffer' = [i \in Slots |-> NULL]
    /\ UNCHANGED <<msgq, send_buffer_len, send_offset, client_count, heap, sent,
                   asker, sentTo, libVars, events>>

-----------------------------------------------------------------------------
(* The server task: accepting.                                             *)

FreeSlots == {i \in Slots : ~active[i]}

\* i is the free slot of least index.
qcm_socket_server_find_available_slot(i) ==
    i \in FreeSlots /\ \A j \in FreeSlots : i <= j

\* The handles qcm_socket_accept may return: a closed one may come back while
\* events of its old connection are still queued.
AcceptableFds == Fds \ open

\* on_accept once a connection was accepted as f into slot i.  Nobody looks at
\* the result of registering f's events.
RegisterClient(i, f) ==
    /\ open' = open \cup {f}
    /\ broken' = broken \ {f}
    /\ pending' = pending - 1
    /\ \E r \in {i, NULL} : reg' = [reg EXCEPT ![f] = r]
    /\ socket_fd' = [socket_fd EXCEPT ![i] = f]
    /\ active' = [active EXCEPT ![i] = TRUE]
    /\ send_buffer' = [send_buffer EXCEPT ![i] = NULL]
    /\ send_buffer_len' = [send_buffer_len EXCEPT ![i] = 0]
    /\ send_offset' = [send_offset EXCEPT ![i] = 0]
    /\ sent' = [sent EXCEPT ![i] = {}]
    /\ asker' = [asker EXCEPT ![i] = NULL]
    /\ sentTo' = [sentTo EXCEPT ![i] = {}]
    /\ client_count' = client_count + 1
    /\ UNCHANGED <<heap, listenReg>>

\* An ACCEPT event that reports an error, finds no free slot or whose accept
\* fails changes nothing: the connection stays pending.
qcm_socket_server_on_accept(m) ==
    \/ /\ m.ok /\ pending > 0
       /\ \E i \in Slots, f \in AcceptableFds :
             qcm_socket_server_find_available_slot(i) /\ RegisterClient(i, f)
    \/ UNCHANGED <<slotVars, libVars>>

-----------------------------------------------------------------------------
(* The server task: client events.                                         *)

\* Mutant: the pointer to the freed echo is not cleared.
DropClient_pointer_kept(i, f) ==
    /\ active' = [active EXCEPT ![i] = FALSE]
    /\ heap' = heap \ {send_buffer[i]}
    /\ open' = open \ {f}
    /\ broken' = broken \ {f}
    /\ client_count' = client_count - 1
    /\ UNCHANGED <<socket_fd, send_buffer, send_buffer_len, send_offset, sent,
                   asker, sentTo, reg, listenReg, pending>>

\* The five places that give a client up do the same: they free the pending
\* echo, close the handle of the event and count the slot of the event down.
DropClient(i, f) ==
    /\ active' = [active EXCEPT ![i] = FALSE]
    /\ heap' = heap \ {send_buffer[i]}
    /\ send_buffer' = [send_buffer EXCEPT ![i] = NULL]
    /\ open' = open \ {f}
    /\ broken' = broken \ {f}
    /\ client_count' = client_count - 1
    /\ UNCHANGED <<socket_fd, send_buffer_len, send_offset, sent, asker,
                   sentTo, reg, listenReg, pending>>

\* malloc found no memory for the echo.  The old block is already freed, the
\* length still counts the terminating zero, and client_count is left alone.
EchoNoMemory(i, f) ==
    /\ heap' = heap \ {send_buffer[i]}
    /\ MallocFails \/ Bufs \subseteq heap'
    /\ send_buffer' = [send_buffer EXCEPT ![i] = NULL]
    /\ send_buffer_len' = [send_buffer_len EXCEPT ![i] = EchoLen + 1]
    /\ active' = [active EXCEPT ![i] = FALSE]
    /\ open' = open \ {f}
    /\ broken' = broken \ {f}
    /\ UNCHANGED <<socket_fd, send_offset, client_count, sent, asker,
                   sentTo, reg, listenReg, pending>>

\* Mutant: the offset of the previous echo is not reset.
EchoFirstSend_offset_kept(i, f, k) ==
    /\ \E b \in Bufs \ (heap \ {send_buffer[i]}) :
          /\ heap' = (heap \ {send_buffer[i]}) \cup {b}
          /\ send_buffer' = [send_buffer EXCEPT ![i] = b]
    /\ send_buffer_len' = [send_buffer_len EXCEPT ![i] = EchoLen - k]
    /\ send_offset' = [send_offset EXCEPT ![i] = IF k = EchoLen THEN 0 ELSE @ + k]
    /\ sent' = [sent EXCEPT ![i] = {p \in Bytes : p < k}]
    /\ asker' = [asker EXCEPT ![i] = f]
    /\ sentTo' = [sentTo EXCEPT ![i] = IF k > 0 THEN {f} ELSE {}]
    /\ UNCHANGED <<active, socket_fd, client_count, libVars>>

\* The echo replaces whatever was pending and is sent at once; k bytes of it
\* were accepted, 0 standing for "would block" and for an error.
EchoFirstSend(i, f, k) ==
    /\ \E b \in Bufs \ (heap \ {send_buffer[i]}) :
          /\ heap' = (heap \ {send_buffer[i]}) \cup {b}
          /\ send_buffer' = [send_buffer EXCEPT ![i] = b]
    /\ send_buffer_len' = [send_buffer_len EXCEPT ![i] = EchoLen - k]
    /\ send_offset' = [send_offset EXCEPT ![i] = IF k = EchoLen THEN 0 ELSE k]
    /\ sent' = [sent EXCEPT ![i] = {p \in Bytes : p < k}]
    /\ asker' = [asker EXCEPT ![i] = f]
    /\ sentTo' = [sentTo EXCEPT ![i] = IF k > 0 THEN {f} ELSE {}]
    /\ UNCHANGED <<active, socket_fd, client_count, libVars>>

\* READ event.  A handle that is closed, or reports an error, is given up
\* like one whose peer went away.
OnRead(i, f) ==
    \/ /\ f \in open \ broken
       /\ \/ EchoNoMemory(i, f)
          \/ \E k \in 0 .. EchoLen : EchoFirstSend(i, f, k)
          \/ UNCHANGED <<slotVars, libVars>>
    \/ DropClient(i, f)

\* WRITE event: k bytes of the rest of the echo, which starts at send_offset,
\* were accepted.
SendRest(i, f, k) ==
    /\ sent' = [sent EXCEPT ![i] = @ \cup
                  {p \in Bytes : send_offset[i] <= p /\ p < send_offset[i] + k}]
    /\ sentTo' = [sentTo EXCEPT ![i] = @ \cup {f}]
    /\ IF send_offset[i] + k >= send_buffer_len[i]
       THEN /\ heap' = heap \ {send_buffer[i]}
            /\ send_buffer' = [send_buffer EXCEPT ![i] = NULL]
            /\ send_buffer_len' = [send_buffer_len EXCEPT ![i] = 0]
            /\ send_offset' = [send_offset EXCEPT ![i] = 0]
       ELSE /\ send_offset' = [send_offset EXCEPT ![i] = @ + k]
            /\ UNCHANGED <<heap, send_buffer, send_buffer_len>>
    /\ UNCHANGED <<active, socket_fd, client_count, asker, libVars>>

\* How many bytes the socket may take of the rest of slot i's echo.  The count
\* handed over is send_buffer_len - send_offset; after a first send of more than
\* half of the echo it is negative.  The library may refuse such a count, or
\* read it as a large unsigned one and take bytes up to the end of the block
\* (its terminating zero included) and beyond it.
Acceptable(i) ==
    LET count == send_buffer_len[i] - send_offset[i]
    IN  IF count < 0 THEN 1 .. (EchoLen + 2) ELSE 1 .. count

\* A result that is neither positive nor "would block" gives the client up.
OnWrite(i, f) ==
    IF send_buffer[i] # NULL /\ send_buffer_len[i] > 0
    THEN \/ /\ f \in open \ broken
            /\ \E k \in Acceptable(i) : SendRest(i, f, k)
         \/ f \in open /\ UNCHANGED <<slotVars, libVars>>
         \/ DropClient(i, f)
    ELSE UNCHANGED <<slotVars, libVars>>

\* Neither the active flag nor the slot's handle is compared with the event.
qcm_socket_server_on_client_event(m) ==
    \/ m.mask = "READ"  /\ OnRead(m.argv, m.fd)
    \/ m.mask = "WRITE" /\ OnWrite(m.argv, m.fd)
    \/ m.mask = "CLOSE" /\ DropClient(m.argv, m.fd)

\* One turn of the loop of qcm_socket_server_main.
TakeMsg(kind) ==
    /\ pc = "running"
    /\ msgq # <<>>
    /\ Head(msgq) \in kind
    /\ msgq' = Tail(msgq)
    /\ UNCHANGED <<pc, events>>

HandleAccept ==
    TakeMsg(AcceptMsgs) /\ qcm_socket_server_on_accept(Head(msgq))

HandleClient ==
    TakeMsg(ClientMsgs) /\ qcm_socket_server_on_client_event(Head(msgq))

-----------------------------------------------------------------------------
Callback == PeerConnect \/ SocketReady \/ PeerClose

Startup ==
    \/ unir_qcm_socket_server_nonblock_demo_init
    \/ qcm_socket_server_datacall_active
    \/ CreateListenSocket
    \/ StartListening
    \/ InitClients

Next == Callback \/ Startup \/ HandleAccept \/ HandleClient

Spec == Init /\ [][Next]_vars

-----------------------------------------------------------------------------
(* Properties.                                                             *)

\* Every variable has the type of the C object it stands for.
TypeOK ==
    /\ pc \in {"init", "datacall", "create", "listen", "listening", "running",
               "exited"}
    /\ msgq \in Seq(Msgs)
    /\ active \in [Slots -> BOOLEAN]
    /\ socket_fd \in [Slots -> Fds \cup {NULL}]
    /\ send_buffer \in [Slots -> Bufs \cup {NULL}]
    /\ send_buffer_len \in [Slots -> 0 .. (EchoLen + 1)]
    /\ send_offset \in [Slots -> 0 .. EchoLen]
    /\ client_count \in Int
    /\ heap \in SUBSET Bufs
    /\ sent \in [Slots -> SUBSET Bytes]
    /\ asker \in [Slots -> Fds \cup {NULL}]
    /\ sentTo \in [Slots -> SUBSET Fds]
    /\ open \in SUBSET Fds /\ broken \in SUBSET open
    /\ reg \in [Fds -> Slots \cup {NULL}]
    /\ listenReg \in BOOLEAN
    /\ pending \in Int /\ events \in Int

\* The echo buffer a slot points to is allocated and belongs to that slot
\* alone, whatever stale, repeated or lost events the handlers have run on:
\* no handler frees a block twice or sends from a freed one.
BuffersOwned ==
    \A i \in Slots : send_buffer[i] # NULL =>
        /\ send_buffer[i] \in heap
        /\ \A j \in Slots : send_buffer[j] = send_buffer[i] => j = i

\* While an echo is pending, what went out of it is exactly its first send_offset
\* bytes, so that the next WRITE event repeats no byte and skips none, whatever
\* stale events wrote the slot; and the length, although a partial first send
\* reduces it, never reaches past the echo.  (It may fall below send_offset: see
\* Acceptable and AllDataSent.)
SendContinues ==
    \A i \in Slots : send_buffer[i] # NULL /\ send_buffer_len[i] > 0 =>
        /\ send_buffer_len[i] <= EchoLen
        /\ sent[i] = {p \in Bytes : p < send_offset[i]}

\* A slot whose echo was released as completely sent ("All data sent") has put
\* every byte of it on the wire.
AllDataSent ==
    \A i \in Slots :
        active[i] /\ send_buffer[i] = NULL /\ sent[i] # {} => sent[i] = Bytes

\* The echo says "Your message": every byte of it goes to the connection whose
\* message it repeats.
EchoToAsker == \A i \in Slots : sentTo[i] \subseteq {asker[i]}
=============================================================================
