--------------------------- MODULE TcpServerProofs ---------------------------
(***************************************************************************)
(* What TLAPS proves about TcpServer for every number of slots, every      *)
(* queue length and any set of handles and heap blocks.                    *)
(***************************************************************************)
EXTENDS TcpServer, SequenceTheorems, TLAPS

USE DEF slotVars, libVars

\* A callback leaves the queue a sequence of messages: it appends one or
\* loses it.
LEMMA CallbackTyped ==
    ASSUME msgq \in Seq(Msgs), events \in Int, NEW m \in Msgs,
           socket_app_register_event_cb(m)
    PROVE  msgq' \in Seq(Msgs) /\ events' \in Int
BY DEF socket_app_register_event_cb

\* The message the task takes is a message, and the rest of the queue stays a
\* queue.
LEMMA TakeTyped ==
    ASSUME msgq \in Seq(Msgs), NEW kind \in SUBSET Msgs, TakeMsg(kind)
    PROVE  Head(msgq) \in kind /\ msgq' \in Seq(Msgs)
BY DEF TakeMsg

\* The socket takes at least one byte.
LEMMA AcceptableCounts ==
    ASSUME TypeOK, NEW i \in Slots
    PROVE  Acceptable(i) \subseteq Nat \ {0}
BY ServerAssumption DEF Acceptable, TypeOK

\* Giving a client up keeps every variable in its type.
LEMMA DropClientTyped ==
    ASSUME TypeOK, NEW i \in Slots, NEW f \in Fds, DropClient(i, f),
           msgq' \in Seq(Msgs), UNCHANGED <<pc, events>>
    PROVE  TypeOK'
BY DEF TypeOK, DropClient

\* Every step keeps every variable in its type.
LEMMA TypeStep == TypeOK /\ [Next]_vars => TypeOK'
<1> USE ServerAssumption
<1> SUFFICES ASSUME TypeOK, [Next]_vars PROVE TypeOK'
  OBVIOUS
<1>1. CASE PeerConnect
  <2>1. PICK ok \in BOOLEAN :
          socket_app_register_event_cb([fd |-> ListenFd, mask |-> "ACCEPT",
                                        ok |-> ok, argv |-> NULL])
    BY <1>1 DEF PeerConnect
  <2>2. msgq' \in Seq(Msgs) /\ events' \in Int
    BY <2>1, CallbackTyped DEF TypeOK, Msgs, AcceptMsgs
  <2>3. QED BY <1>1, <2>2 DEF PeerConnect, TypeOK
<1>2. CASE SocketReady
  <2>1. PICK f \in open, k \in {"READ", "WRITE"} :
          /\ reg[f] # NULL
          /\ socket_app_register_event_cb([fd |-> f, mask |-> k, ok |-> TRUE,
                                           argv |-> reg[f]])
    BY <1>2 DEF SocketReady
  <2>2. msgq' \in Seq(Msgs) /\ events' \in Int
    BY <2>1, CallbackTyped DEF TypeOK, Msgs, ClientMsgs
  <2>3. QED BY <1>2, <2>2 DEF SocketReady, TypeOK
<1>3. CASE PeerClose
  <2>1. PICK f \in open \ broken :
          /\ broken' = broken \cup {f}
          /\ \/ /\ reg[f] # NULL
                /\ socket_app_register_event_cb([fd |-> f, mask |-> "CLOSE",
                                                 ok |-> TRUE, argv |-> reg[f]])
             \/ /\ reg[f] = NULL
                /\ UNCHANGED <<msgq, events>>
    BY <1>3 DEF PeerClose
  <2>2. msgq' \in Seq(Msgs) /\ events' \in Int
    BY <2>1, CallbackTyped DEF TypeOK, Msgs, ClientMsgs
  <2>3. QED BY <1>3, <2>1, <2>2 DEF PeerClose, TypeOK
<1>4. CASE unir_qcm_socket_server_nonblock_demo_init
  BY <1>4 DEF unir_qcm_socket_server_nonblock_demo_init, TypeOK
<1>5. CASE qcm_socket_server_datacall_active
  BY <1>5 DEF qcm_socket_server_datacall_active, TypeOK
<1>6. CASE CreateListenSocket
  BY <1>6 DEF CreateListenSocket, TypeOK
<1>7. CASE StartListening
  BY <1>7 DEF StartListening, TypeOK
<1>8. CASE InitClients
  BY <1>8 DEF InitClients, TypeOK
<1>9. CASE HandleAccept
  <2>1. msgq' \in Seq(Msgs) /\ UNCHANGED <<pc, events>>
    BY <1>9, TakeTyped DEF HandleAccept, TypeOK, Msgs, TakeMsg
  <2>2. CASE UNCHANGED <<slotVars, libVars>>
    BY <2>1, <2>2 DEF TypeOK
  <2>3. ASSUME NEW i \in Slots, NEW f \in AcceptableFds, RegisterClient(i, f)
        PROVE  TypeOK'
    <3>1. f \in Fds
      BY <2>3 DEF AcceptableFds
    <3>2. reg' \in [Fds -> Slots \cup {NULL}]
      BY <2>3, <3>1 DEF RegisterClient, TypeOK
    <3>3. open' \in SUBSET Fds /\ broken' \in SUBSET open'
      BY <2>3, <3>1 DEF RegisterClient, TypeOK
    <3>4. sent' \in [Slots -> SUBSET Bytes] /\ sentTo' \in [Slots -> SUBSET Fds]
      BY <2>3 DEF RegisterClient, TypeOK
    <3>5. active' \in [Slots -> BOOLEAN]
      BY <2>3 DEF RegisterClient, TypeOK
    <3>6. QED BY <2>1, <2>3, <3>1, <3>2, <3>3, <3>4, <3>5 DEF RegisterClient, TypeOK
  <2>4. QED
    BY <1>9, <2>2, <2>3 DEF HandleAccept, qcm_socket_server_on_accept
<1>10. CASE HandleClient
  <2> DEFINE m == Head(msgq)
  <2>1. m \in ClientMsgs /\ msgq' \in Seq(Msgs) /\ UNCHANGED <<pc, events>>
    BY <1>10, TakeTyped DEF HandleClient, TypeOK, Msgs, TakeMsg
  <2>2. m.argv \in Slots /\ m.fd \in Fds
    BY <2>1 DEF ClientMsgs
  <2> HIDE DEF m
  <2>3. CASE UNCHANGED <<slotVars, libVars>>
    BY <2>1, <2>3 DEF TypeOK
  <2>4. CASE DropClient(m.argv, m.fd)
    BY <2>1, <2>2, <2>4, DropClientTyped
  <2>5. CASE EchoNoMemory(m.argv, m.fd)
    BY <2>1, <2>2, <2>5 DEF EchoNoMemory, TypeOK
  <2>6. ASSUME NEW k \in 0 .. EchoLen, EchoFirstSend(m.argv, m.fd, k)
        PROVE  TypeOK'
    <3>1. sent' \in [Slots -> SUBSET Bytes]
      BY <2>2, <2>6 DEF EchoFirstSend, TypeOK
    <3>2. sentTo' \in [Slots -> SUBSET Fds]
      BY <2>2, <2>6 DEF EchoFirstSend, TypeOK
    <3>3. send_buffer' \in [Slots -> Bufs \cup {NULL}] /\ heap' \in SUBSET Bufs
      BY <2>2, <2>6 DEF EchoFirstSend, TypeOK
    <3>4. send_offset' \in [Slots -> 0 .. EchoLen]
      BY <2>2, <2>6 DEF EchoFirstSend, TypeOK
    <3>5. send_buffer_len' \in [Slots -> 0 .. (EchoLen + 1)]
      BY <2>2, <2>6 DEF EchoFirstSend, TypeOK
    <3>6. asker' \in [Slots -> Fds \cup {NULL}]
      BY <2>2, <2>6 DEF EchoFirstSend, TypeOK
    <3>7. UNCHANGED <<active, socket_fd, client_count, libVars>>
      BY <2>6 DEF EchoFirstSend
    <3>8. QED BY <2>1, <3>1, <3>2, <3>3, <3>4, <3>5, <3>6, <3>7 DEF TypeOK
  <2>7. ASSUME NEW k \in Acceptable(m.argv),
               send_buffer[m.argv] # NULL, send_buffer_len[m.argv] > 0,
               SendRest(m.argv, m.fd, k)
        PROVE  TypeOK'
    <3>1. sent' \in [Slots -> SUBSET Bytes]
      BY <2>2, <2>7 DEF SendRest, TypeOK
    <3>2. sentTo' \in [Slots -> SUBSET Fds]
      BY <2>2, <2>7 DEF SendRest, TypeOK
    <3>3. send_offset[m.argv] \in 0 .. EchoLen
          /\ send_buffer_len[m.argv] \in 0 .. (EchoLen + 1)
      BY <2>2 DEF TypeOK
    <3>4. send_offset' \in [Slots -> 0 .. EchoLen]
      <4>1. send_offset \in [Slots -> 0 .. EchoLen]
        BY DEF TypeOK
      <4>2. CASE send_offset[m.argv] + k >= send_buffer_len[m.argv]
        BY <2>2, <2>7, <4>1, <4>2 DEF SendRest
      <4>3. CASE ~(send_offset[m.argv] + k >= send_buffer_len[m.argv])
        <5>1. send_offset[m.argv] + k \in 0 .. EchoLen
          <6>1. k \in Nat \ {0}
            BY <2>2, <2>7, AcceptableCounts
          <6>2. QED BY <3>3, <4>3, <6>1
        <5>2. QED BY <2>2, <2>7, <4>1, <4>3, <5>1 DEF SendRest
      <4>4. QED BY <4>2, <4>3
    <3>5. /\ send_buffer' \in [Slots -> Bufs \cup {NULL}]
          /\ heap' \in SUBSET Bufs
          /\ send_buffer_len' \in [Slots -> 0 .. (EchoLen + 1)]
      <4>1. CASE send_offset[m.argv] + k >= send_buffer_len[m.argv]
        <5>1. send_buffer' \in [Slots -> Bufs \cup {NULL}]
          BY <2>2, <2>7, <4>1 DEF SendRest, TypeOK
        <5>2. heap' \in SUBSET Bufs
          BY <2>2, <2>7, <4>1 DEF SendRest, TypeOK
        <5>3. send_buffer_len' \in [Slots -> 0 .. (EchoLen + 1)]
          <6>1. send_buffer_len' = [send_buffer_len EXCEPT ![m.argv] = 0]
            BY <2>7, <4>1 DEF SendRest
          <6>2. send_buffer_len \in [Slots -> 0 .. (EchoLen + 1)]
            BY DEF TypeOK
          <6>3. 0 \in 0 .. (EchoLen + 1)
            OBVIOUS
          <6>4. QED BY <6>1, <6>2, <6>3
        <5>4. QED BY <5>1, <5>2, <5>3
      <4>2. CASE ~(send_offset[m.argv] + k >= send_buffer_len[m.argv])
        BY <2>2, <2>7, <4>2 DEF SendRest, TypeOK
      <4>3. QED BY <4>1, <4>2
    <3>6. UNCHANGED <<active, socket_fd, client_count, asker, libVars>>
      BY <2>7 DEF SendRest
    <3>7. QED BY <2>1, <3>1, <3>2, <3>4, <3>5, <3>6 DEF TypeOK
  <2>8. QED
    BY <1>10, <2>3, <2>4, <2>5, <2>6, <2>7
    DEF HandleClient, qcm_socket_server_on_client_event, OnRead, OnWrite, m
<1>11. CASE UNCHANGED vars
  BY <1>11 DEF vars, TypeOK
<1>12. QED
  BY <1>1, <1>2, <1>3, <1>4, <1>5, <1>6, <1>7, <1>8, <1>9, <1>10, <1>11
  DEF Next, Callback, Startup

\* Every reachable state of the server is well typed.
THEOREM TypeCorrect == Spec => []TypeOK
<1>1. Init => TypeOK
  <2> SUFFICES ASSUME Init PROVE TypeOK
    OBVIOUS
  <2>1. sent \in [Slots -> SUBSET Bytes] /\ sentTo \in [Slots -> SUBSET Fds]
    BY DEF Init
  <2>2. active \in [Slots -> BOOLEAN]
    BY DEF Init
  <2>3. msgq \in Seq(Msgs)
    BY DEF Init
  <2>4. /\ socket_fd \in [Slots -> Fds \cup {NULL}]
        /\ send_buffer \in [Slots -> Bufs \cup {NULL}]
        /\ asker \in [Slots -> Fds \cup {NULL}]
        /\ reg \in [Fds -> Slots \cup {NULL}]
    BY DEF Init
  <2>5. /\ send_buffer_len \in [Slots -> 0 .. (EchoLen + 1)]
        /\ send_offset \in [Slots -> 0 .. EchoLen]
    BY ServerAssumption DEF Init
  <2>6. /\ open \in SUBSET Fds /\ broken \in SUBSET open
        /\ heap \in SUBSET Bufs
    BY DEF Init
  <2>7. listenReg \in BOOLEAN
    BY DEF Init
  <2>8. pc = "init" /\ client_count = 0 /\ pending = 0 /\ events = 0
    BY DEF Init
  <2>9. QED BY <2>1, <2>2, <2>3, <2>4, <2>5, <2>6, <2>7, <2>8 DEF TypeOK
<1>2. QED BY <1>1, TypeStep, PTL DEF Spec

-----------------------------------------------------------------------------
(* The echo buffers.                                                       *)

BufferInv == BuffersOwned /\ SendContinues

\* What the handlers do to the echo buffers, action by action.  Nothing else
\* touches them.
LEMMA BufferStep == TypeOK /\ BufferInv /\ [Next]_vars => BufferInv'
<1> USE ServerAssumption
<1> SUFFICES ASSUME TypeOK, BufferInv, [Next]_vars PROVE BufferInv'
  OBVIOUS
<1> USE DEF BufferInv
<1>1. CASE UNCHANGED <<send_buffer, send_buffer_len, send_offset, heap, sent>>
  BY <1>1 DEF BuffersOwned, SendContinues
<1>2. CASE Callback
  BY <1>1, <1>2 DEF Callback, PeerConnect, SocketReady, PeerClose
<1>3. CASE InitClients
  BY <1>3 DEF InitClients, BuffersOwned, SendContinues
<1>4. CASE Startup
  BY <1>1, <1>3, <1>4
  DEF Startup, unir_qcm_socket_server_nonblock_demo_init,
      qcm_socket_server_datacall_active, CreateListenSocket, StartListening
<1>5. CASE HandleAccept
  <2>1. ASSUME NEW i \in Slots, NEW f \in AcceptableFds, RegisterClient(i, f)
        PROVE  BufferInv'
    BY <2>1 DEF RegisterClient, BuffersOwned, SendContinues, TypeOK
  <2>2. QED
    BY <1>1, <1>5, <2>1 DEF HandleAccept, qcm_socket_server_on_accept
<1>6. CASE HandleClient
  <2> DEFINE m == Head(msgq)
  <2>1. m \in ClientMsgs
    BY <1>6, TakeTyped DEF HandleClient, TypeOK, Msgs
  <2>2. m.argv \in Slots /\ m.fd \in Fds
    BY <2>1 DEF ClientMsgs
  <2> HIDE DEF m
  <2>3. CASE UNCHANGED <<slotVars, libVars>>
    BY <1>1, <2>3
  <2>4. ASSUME \/ DropClient(m.argv, m.fd)
               \/ EchoNoMemory(m.argv, m.fd)
        PROVE  BufferInv'
    <3>1. /\ heap' = heap \ {send_buffer[m.argv]}
          /\ send_buffer' = [send_buffer EXCEPT ![m.argv] = NULL]
      BY <2>4 DEF DropClient, EchoNoMemory
    <3>2. \A j \in Slots : j # m.argv =>
             /\ send_buffer'[j] = send_buffer[j]
             /\ send_buffer_len'[j] = send_buffer_len[j]
             /\ send_offset'[j] = send_offset[j]
             /\ sent'[j] = sent[j]
      BY <2>2, <2>4 DEF DropClient, EchoNoMemory, TypeOK
    <3>3. send_buffer'[m.argv] = NULL
      BY <2>2, <3>1 DEF TypeOK
    <3>4. QED BY <2>2, <3>1, <3>2, <3>3 DEF BuffersOwned, SendContinues
  <2>5. ASSUME NEW k \in 0 .. EchoLen, EchoFirstSend(m.argv, m.fd, k)
        PROVE  BufferInv'
    <3>1. PICK b \in Bufs \ (heap \ {send_buffer[m.argv]}) :
             /\ heap' = (heap \ {send_buffer[m.argv]}) \cup {b}
             /\ send_buffer' = [send_buffer EXCEPT ![m.argv] = b]
      BY <2>5 DEF EchoFirstSend
    <3>2. BuffersOwned'
      BY <2>2, <3>1 DEF BuffersOwned, TypeOK
    <3>3. \A j \in Slots : j # m.argv =>
             /\ send_buffer'[j] = send_buffer[j]
             /\ send_buffer_len'[j] = send_buffer_len[j]
             /\ send_offset'[j] = send_offset[j]
             /\ sent'[j] = sent[j]
      BY <2>2, <2>5, <3>1 DEF EchoFirstSend, TypeOK
    <3>4. /\ send_buffer_len'[m.argv] = EchoLen - k
          /\ send_offset'[m.argv] = IF k = EchoLen THEN 0 ELSE k
          /\ sent'[m.argv] = {p \in Bytes : p < k}
      BY <2>2, <2>5 DEF EchoFirstSend, TypeOK
    <3>5. send_buffer_len'[m.argv] > 0 =>
             /\ send_offset'[m.argv] = k
             /\ send_buffer_len'[m.argv] <= EchoLen
      BY <3>4
    <3>6. SendContinues'
      BY <2>2, <3>3, <3>4, <3>5 DEF SendContinues
    <3>7. QED BY <3>2, <3>6
  <2>6. ASSUME NEW k \in Acceptable(m.argv),
               send_buffer[m.argv] # NULL, send_buffer_len[m.argv] > 0,
               SendRest(m.argv, m.fd, k)
        PROVE  BufferInv'
    <3> DEFINE i == m.argv
    <3>1. \A j \in Slots : j # i =>
             /\ send_buffer'[j] = send_buffer[j]
             /\ send_buffer_len'[j] = send_buffer_len[j]
             /\ send_offset'[j] = send_offset[j]
             /\ sent'[j] = sent[j]
      BY <2>2, <2>6 DEF SendRest, TypeOK
    <3>2. CASE send_offset[i] + k >= send_buffer_len[i]
      <4>1. /\ heap' = heap \ {send_buffer[i]}
            /\ send_buffer' = [send_buffer EXCEPT ![i] = NULL]
        BY <2>6, <3>2 DEF SendRest
      <4>2. send_buffer'[i] = NULL
        BY <2>2, <4>1 DEF TypeOK
      <4>3. QED BY <2>2, <3>1, <4>1, <4>2 DEF BuffersOwned, SendContinues
    <3>3. CASE ~(send_offset[i] + k >= send_buffer_len[i])
      <4>1. UNCHANGED <<heap, send_buffer, send_buffer_len>>
        BY <2>6, <3>3 DEF SendRest
      <4>2. send_offset'[i] = send_offset[i] + k
        BY <2>2, <2>6, <3>3 DEF SendRest, TypeOK
      <4>3. sent'[i] = sent[i] \cup
               {p \in Bytes : send_offset[i] <= p /\ p < send_offset[i] + k}
        BY <2>2, <2>6 DEF SendRest, TypeOK
      <4>4. sent[i] = {p \in Bytes : p < send_offset[i]}
        BY <2>2, <2>6 DEF SendContinues
      <4>5. send_offset[i] \in Int /\ k \in Int /\ k >= 1
        <5>1. k \in Nat \ {0}
          BY <2>2, <2>6, AcceptableCounts
        <5>2. QED BY <2>2, <5>1 DEF TypeOK
      <4>6. sent'[i] = {p \in Bytes : p < send_offset'[i]}
        BY <4>2, <4>3, <4>4, <4>5 DEF Bytes
      <4>7. QED
        BY <2>2, <3>1, <4>1, <4>6 DEF BuffersOwned, SendContinues
    <3>4. QED BY <3>2, <3>3
  <2>7. QED
    BY <1>6, <2>3, <2>4, <2>5, <2>6
    DEF HandleClient, qcm_socket_server_on_client_event, OnRead, OnWrite, m
<1>7. CASE UNCHANGED vars
  BY <1>1, <1>7 DEF vars
<1>8. QED
  BY <1>2, <1>4, <1>5, <1>6, <1>7 DEF Next

\* BufferInv holds throughout the server's run.
LEMMA BufferInvariant == Spec => []BufferInv
<1>1. Init => BufferInv
  BY DEF Init, BufferInv, BuffersOwned, SendContinues
<1>2. QED BY <1>1, TypeCorrect, BufferStep, PTL DEF Spec

\* In every reachable state the echo buffers are allocated and owned by one slot
\* each, for any number of slots, handles and events.
THEOREM BuffersSafe == Spec => []BuffersOwned
<1>1. BufferInv => BuffersOwned
  BY DEF BufferInv
<1>2. QED BY <1>1, BufferInvariant, PTL

\* For any length of the echo and any counts the socket takes, what went out of a
\* pending echo is its first send_offset bytes: a WRITE event continues where the
\* last send stopped.
THEOREM SendsContinue == Spec => []SendContinues
<1>1. BufferInv => SendContinues
  BY DEF BufferInv
<1>2. QED BY <1>1, BufferInvariant, PTL

=============================================================================
