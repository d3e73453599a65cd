--------------------------- MODULE TcpClientProofs ---------------------------
(***************************************************************************)
(* The non-blocking TCP client: for all capacities, limits and numbers of  *)
(* blocks the variables keep their types and the stream of blocks is       *)
(* intact.                                                                 *)
(***************************************************************************)
EXTENDS TcpClient, SequenceTheorems, TLAPS

-----------------------------------------------------------------------------
(* Cutting sequences.                                                      *)

\* Concatenation, under a name the provers take for an operator like any other.
Cat(s, t) == s \o t

\* Cat is closed and associative.
LEMMA CatAssociative ==
    \A S : \A s, t, u \in Seq(S) :
        Cat(s, t) \in Seq(S) /\ Cat(Cat(s, t), u) = Cat(s, Cat(t, u))
BY ConcatAssociative, ConcatProperties DEF Cat

\* A sequence with the elements of s and then those of t is s \o t.
LEMMA ConcatIs ==
    ASSUME NEW S, NEW s \in Seq(S), NEW t \in Seq(S), NEW r \in Seq(S),
           Len(r) = Len(s) + Len(t),
           \A i \in 1 .. Len(r) : r[i] = IF i <= Len(s) THEN s[i] ELSE t[i - Len(s)]
    PROVE  s \o t = r
<1>1. Len(s) \in Nat /\ Len(t) \in Nat
  BY LenProperties
<1> QED
  BY <1>1

\* The two parts of a sequence that is cut make it up again.
LEMMA Cut ==
    ASSUME NEW S, NEW s \in Seq(S), NEW n \in 0 .. Len(s)
    PROVE  /\ SubSeq(s, 1, n) \in Seq(S) /\ Len(SubSeq(s, 1, n)) = n
           /\ SubSeq(s, n + 1, Len(s)) \in Seq(S)
           /\ Len(SubSeq(s, n + 1, Len(s))) = Len(s) - n
           /\ SubSeq(s, 1, n) \o SubSeq(s, n + 1, Len(s)) = s
<1>1. Len(s) \in Nat /\ n \in Nat /\ n <= Len(s)
  BY LenProperties
<1>2. \A i \in 1 .. Len(s) : s[i] \in S
  BY ElementOfSeq
<1>3. SubSeq(s, 1, n) \in Seq(S) /\ Len(SubSeq(s, 1, n)) = n
  BY <1>1, <1>2, SubSeqProperties
<1>4. SubSeq(s, n + 1, Len(s)) \in Seq(S) /\ Len(SubSeq(s, n + 1, Len(s))) = Len(s) - n
  BY <1>1, <1>2, SubSeqProperties
<1>5. 1 \in 1 .. Len(s) + 1 /\ n \in 1 - 1 .. Len(s) /\ Len(s) \in n .. Len(s)
  BY <1>1
<1>6. SubSeq(s, 1, n) \o SubSeq(s, n + 1, Len(s)) = SubSeq(s, 1, Len(s))
  BY <1>5, ConcatAdjacentSubSeq, Zenon
<1> QED
  BY <1>3, <1>4, <1>6, SubSeqFull, Zenon

\* Four sequences, from the left or from the right.
LEMMA CatFour ==
    \A S : \A s, t, u, v \in Seq(S) : Cat(Cat(Cat(s, t), u), v) = Cat(s, Cat(t, Cat(u, v)))
<1> TAKE S
<1> TAKE s, t, u, v \in Seq(S)
<1>1. Cat(s, t) \in Seq(S) /\ Cat(u, v) \in Seq(S)
  BY CatAssociative
<1>2. Cat(Cat(Cat(s, t), u), v) = Cat(Cat(s, t), Cat(u, v))
  BY <1>1, CatAssociative
<1>3. Cat(Cat(s, t), Cat(u, v)) = Cat(s, Cat(t, Cat(u, v)))
  BY <1>1, CatAssociative
<1> QED
  BY <1>2, <1>3

\* The end of s \o t is the end of t.
LEMMA AppendToLast ==
    ASSUME NEW S, NEW s \in Seq(S), NEW t \in Seq(S), NEW e \in S
    PROVE  s \o Append(t, e) = Append(s \o t, e)
OBVIOUS

\* One more number in its place.
LEMMA NextNumber ==
    ASSUME NEW S, NEW s \in Seq(S), NEW a \in Nat, s = [n \in 1 .. a |-> n]
    PROVE  Append(s, a + 1) = [n \in 1 .. a + 1 |-> n]
OBVIOUS

-----------------------------------------------------------------------------
(* The queue.                                                              *)

\* A message that is reported is queued or lost; the queue keeps its capacity.
LEMMA ReportFits ==
    ASSUME TypeOK, NEW m \in Msgs, socket_app_event_report(m) \/ UNCHANGED msgq
    PROVE  msgq' \in Seq(Msgs) /\ Len(msgq') <= MaxMsgs
<1>1. msgq \in Seq(Msgs) /\ Len(msgq) <= MaxMsgs /\ MaxMsgs \in Nat
  BY ClientAssumption DEF TypeOK
<1> HIDE DEF Msgs
<1>2. CASE msgq' = Append(msgq, m) /\ Len(msgq) < MaxMsgs
  BY <1>1, <1>2
<1> QED
  BY <1>1, <1>2 DEF socket_app_event_report

\* The messages the callbacks and the client post are messages.
LEMMA KindsOfMsg ==
    /\ \A m \in {"CONNECT", "READ", "WRITE", "CLOSE"} : \A r \in BOOLEAN : Event(m, r) \in Msgs
    /\ SendInd \in Msgs /\ Close(TRUE) \in Msgs /\ Close(FALSE) \in Msgs
<1>1. \A m \in {"CONNECT", "READ", "WRITE", "CLOSE"} : \A r \in BOOLEAN : Event(m, r) \in Events
  BY DEF Events
<1>2. SendInd \in Msgs /\ Close(TRUE) \in Msgs /\ Close(FALSE) \in Msgs
  BY DEF Msgs
<1>3. \A m \in {"CONNECT", "READ", "WRITE", "CLOSE"} : \A r \in BOOLEAN : Event(m, r) \in Msgs
  BY <1>1 DEF Msgs
<1> QED
  BY <1>2, <1>3

-----------------------------------------------------------------------------
(* The inductive invariant, one lemma for each group of steps.             *)

\* The blocks that make up the stream, in the order the socket gets them.
Stream == Cat(Cat(Cat(wire, write_buff), current_send), send_wm)

blocks == <<wire, write_buff, current_send, send_wm, rx_tx_ready, accepted>>

\* The client starts within its invariant.
LEMMA InitInv == Init => ClientInv
<1> SUFFICES ASSUME Init PROVE ClientInv
  OBVIOUS
<1>1. /\ <<>> \in Seq(Msgs) /\ Len(<<>>) <= MaxMsgs /\ <<>> \in Seq(1 .. MaxItems)
      /\ 0 \in 0 .. NAddrs /\ 0 \in 0 .. Limit /\ 0 \in 0 .. MaxItems /\ 0 \in Int
      /\ 0 \in Nat /\ 0 \in 0 .. SingleSend
  BY ClientAssumption, EmptySeq
<1>2. TypeOK
  BY <1>1, Zenon DEF Init, TypeOK
<1> QED
  BY <1>2 DEF Init, ClientInv, Session, StreamIntact

\* The library's callbacks and the application's close report, and say what they
\* know of the socket.
LEMMA ReportInv ==
    ASSUME ClientInv, Library \/ qcm_socket_app_close
    PROVE  ClientInv'
<1>1. PICK m \in Msgs : socket_app_event_report(m) \/ UNCHANGED msgq
  BY KindsOfMsg DEF Library, ConnectEvent, ReadEvent, WriteEvent, CloseEvent,
     qcm_socket_app_close, socket_app_register_event_cb
<1>2. msgq' \in Seq(Msgs) /\ Len(msgq') <= MaxMsgs
  BY <1>1, ReportFits DEF ClientInv
<1>3. /\ UNCHANGED <<pc, addr, loaded, write_len, connect_state, send_release_count,
                     app, app_loaded, send_wm_high, recv_wm_high, recv_wm, zeros, blocks>>
      /\ sock' \in {"none", "connecting", "up", "down", "closed"}
  BY DEF Library, ConnectEvent, ReadEvent, WriteEvent, CloseEvent, qcm_socket_app_close,
     local, appVars, session, library, history, blocks, ClientInv, TypeOK
<1>4. armed' \in BOOLEAN /\ lost' \in BOOLEAN
  BY DEF Library, ConnectEvent, ReadEvent, WriteEvent, CloseEvent, qcm_socket_app_close,
     library, history, ClientInv, TypeOK
<1>5. TypeOK'
  BY <1>2, <1>3, <1>4 DEF ClientInv, TypeOK, blocks
<1>6. Session' /\ StreamIntact'
  BY <1>3 DEF ClientInv, Session, StreamIntact, blocks
<1> QED
  BY <1>5, <1>6 DEF ClientInv

\* An accepted block is the next one and comes last.
LEMMA SendDataInv ==
    ASSUME ClientInv, qcm_socket_app_send_data
    PROVE  ClientInv'
<1>1. UNCHANGED <<pc, addr, loaded, write_len, write_buff, msgq, connect_state,
                  send_release_count, app_loaded, rx_tx_ready, recv_wm_high, current_send,
                  recv_wm, sock, armed, zeros, wire, lost>>
  BY DEF qcm_socket_app_send_data, local, library
<1>2. CASE UNCHANGED <<accepted, send_wm, send_wm_high, app>>
  BY <1>1, <1>2 DEF ClientInv, TypeOK, Session, StreamIntact
<1>3. CASE /\ rx_tx_ready /\ accepted < MaxItems
           /\ accepted' = accepted + 1
           /\ send_wm' = Append(send_wm, accepted + 1)
           /\ send_wm_high' = socket_app_tx_wm_high_level_cb(Len(send_wm) + 1)
           /\ app' \in {"load", "idle"}
  <2>1. /\ accepted \in Nat /\ accepted + 1 \in 1 .. MaxItems
        /\ wire \in Seq(1 .. MaxItems) /\ current_send \in Seq(1 .. MaxItems)
        /\ write_buff \in Seq(1 .. MaxItems) /\ send_wm \in Seq(1 .. MaxItems)
    BY <1>3, ClientAssumption DEF ClientInv, TypeOK
  <2>2. send_wm' \in Seq(1 .. MaxItems)
    BY <1>3, <2>1
  <2>3. send_wm_high' \in BOOLEAN
    BY <1>3 DEF socket_app_tx_wm_high_level_cb, ClientInv, TypeOK
  <2>4. accepted' \in 0 .. MaxItems
    BY <1>3, <2>1
  <2>5. TypeOK'
    BY <1>1, <1>3, <2>2, <2>3, <2>4 DEF ClientInv, TypeOK
  <2>6. StreamIntact'
    <3> DEFINE front == wire \o write_buff \o current_send
    <3>1. Stream = [n \in 1 .. accepted |-> n]
      BY <1>3 DEF ClientInv, StreamIntact, Stream, Cat
    <3>2. front \in Seq(1 .. MaxItems) /\ Stream \in Seq(1 .. MaxItems)
      BY <2>1, ConcatProperties DEF Stream, Cat
    <3>3. Stream = front \o send_wm /\ Stream' = front \o send_wm'
      BY <1>1 DEF Stream, Cat
    <3> HIDE DEF front
    <3>4. Stream' = Append(Stream, accepted + 1)
      BY <1>3, <2>1, <3>2, <3>3, AppendToLast
    <3>5. Stream' = [n \in 1 .. accepted + 1 |-> n]
      BY <2>1, <3>1, <3>2, <3>4, NextNumber
    <3> QED
      BY <1>3, <3>5 DEF StreamIntact, Stream, Cat
  <2>7. Session'
    BY <1>1, <1>3 DEF ClientInv, Session
  <2> QED
    BY <2>5, <2>6, <2>7 DEF ClientInv
<1> QED
  BY <1>2, <1>3 DEF qcm_socket_app_send_data

\* The non-empty callback counts and reports.
LEMMA NonEmptyInv ==
    ASSUME ClientInv, socket_app_tx_wm_non_empty_cb
    PROVE  ClientInv'
<1>1. UNCHANGED <<pc, addr, loaded, write_len, connect_state, send_wm_high, recv_wm_high,
                  recv_wm, sock, armed, zeros, blocks>>
  BY DEF socket_app_tx_wm_non_empty_cb, local, session, library, blocks
<1>2. /\ app' \in {"idle", "store", "report"}
      /\ send_release_count' \in Int /\ app_loaded' \in Int
  BY DEF socket_app_tx_wm_non_empty_cb, ClientInv, TypeOK
<1>3. lost' \in BOOLEAN
  BY DEF socket_app_tx_wm_non_empty_cb, ReportSend, ClientInv, TypeOK
<1>4. socket_app_event_report(SendInd) \/ UNCHANGED msgq
  BY DEF socket_app_tx_wm_non_empty_cb, ReportSend
<1>5. msgq' \in Seq(Msgs) /\ Len(msgq') <= MaxMsgs
  BY <1>4, ReportFits, KindsOfMsg DEF ClientInv
<1>6. TypeOK'
  BY <1>1, <1>2, <1>3, <1>5 DEF ClientInv, TypeOK, blocks
<1>7. Session' /\ StreamIntact'
  BY <1>1 DEF ClientInv, Session, StreamIntact, blocks
<1> QED
  BY <1>6, <1>7 DEF ClientInv

\* The way to the first message: the watermarks are made empty, before anything
\* was accepted or sent.
LEMMA StartInv ==
    ASSUME ClientInv,
           \/ unir_qcm_socket_noblock_demo_init \/ CreateFails \/ ConnectRefused
           \/ qcm_socket_app_socket_create \/ StartSession
    PROVE  ClientInv'
<1> USE DEF local, appVars, session, library, history
<1>1. CASE unir_qcm_socket_noblock_demo_init \/ CreateFails
  <2>1. /\ pc \in {"start", "create"} /\ pc' \in {"create", "failed"}
        /\ UNCHANGED <<local, msgq, connect_state, send_release_count, appVars, session,
                       library, history>>
    BY <1>1 DEF unir_qcm_socket_noblock_demo_init, CreateFails
  <2>2. TypeOK'
    BY <2>1 DEF ClientInv, TypeOK
  <2>3. Session' /\ StreamIntact'
    BY <2>1 DEF ClientInv, Session, StreamIntact
  <2> QED
    BY <2>2, <2>3 DEF ClientInv
<1>2. CASE ConnectRefused
  <2>1. addr' \in 0 .. NAddrs
    BY <1>2, ClientAssumption DEF ConnectRefused, ClientInv, TypeOK
  <2>2. PICK m \in Msgs : socket_app_event_report(m) \/ UNCHANGED msgq
    BY <1>2, KindsOfMsg DEF ConnectRefused, socket_app_register_event_cb
  <2>3. msgq' \in Seq(Msgs) /\ Len(msgq') <= MaxMsgs
    BY <2>2, ReportFits DEF ClientInv
  <2> QED
    BY <1>2, <2>1, <2>3 DEF ConnectRefused, ClientInv, TypeOK, Session, StreamIntact
<1>3. CASE qcm_socket_app_socket_create
  <2>1. addr' \in 0 .. NAddrs
    BY <1>3, ClientAssumption DEF qcm_socket_app_socket_create
  <2> QED
    BY <1>3, <2>1 DEF qcm_socket_app_socket_create, ClientInv, TypeOK, Session, StreamIntact
<1>4. CASE StartSession
  <2>1. /\ wire' = <<>> /\ current_send' = <<>> /\ send_wm' = <<>> /\ accepted' = 0
        /\ write_buff' = <<>>
        /\ rx_tx_ready' = TRUE /\ pc' = "wait" /\ connect_state' = "CONNECTING"
    BY <1>4 DEF StartSession, socket_app_rx_tx_watermark_init, ClientInv, Session
  <2>2. TypeOK'
    <3>1. <<>> \in Seq(1 .. MaxItems) /\ 0 \in 0 .. Limit /\ 0 \in 0 .. MaxItems
      BY ClientAssumption, EmptySeq
    <3> QED
      BY <1>4, <2>1, <3>1 DEF StartSession, socket_app_rx_tx_watermark_init,
         ClientInv, TypeOK
  <2>3. StreamIntact'
    BY <2>1 DEF StreamIntact
  <2> QED
    BY <2>1, <2>2, <2>3 DEF ClientInv, Session
<1> QED
  BY <1>1, <1>2, <1>3, <1>4

-----------------------------------------------------------------------------
(* soc_write.                                                              *)

\* The steps before and after the copy leave the blocks alone.
LEMMA WriteFrameInv ==
    ASSUME ClientInv, WriteAllowed \/ WriteLength \/ WriteRelease
    PROVE  ClientInv'
<1>1. UNCHANGED <<addr, loaded, connect_state, send_release_count, app, app_loaded,
                  send_wm_high, recv_wm_high, recv_wm, sock, armed, zeros, blocks>>
  BY DEF WriteAllowed, WriteLength, WriteRelease, local, appVars, session, library, history,
     blocks
<1>2. write_len' \in 0 .. SingleSend /\ (pc' = "take" => write_len' > 0)
  <2>1. CASE WriteLength
    <3>1. WriteLen > 0 => WriteLen \in 0 .. SingleSend
      BY ClientAssumption, LenProperties DEF WriteLen, ClientInv, TypeOK
    <3> QED
      BY <2>1, <3>1 DEF WriteLength, ClientInv, TypeOK
  <2>2. CASE WriteAllowed \/ WriteRelease
    BY <2>2 DEF WriteAllowed, WriteRelease, local, ClientInv, TypeOK
  <2> QED
    BY <2>1, <2>2
<1>3. lost' \in BOOLEAN
  BY DEF WriteAllowed, WriteLength, WriteRelease, ReportSend, history, ClientInv, TypeOK
<1>4. socket_app_event_report(SendInd) \/ UNCHANGED msgq
  BY DEF WriteAllowed, WriteLength, WriteRelease, ReportSend
<1>5. msgq' \in Seq(Msgs) /\ Len(msgq') <= MaxMsgs
  BY <1>4, ReportFits, KindsOfMsg DEF ClientInv
<1>6. pc \in {"write", "length", "release"} /\ pc' \in {"wait", "length", "take"}
  BY DEF WriteAllowed, WriteLength, WriteRelease
<1>7. TypeOK'
  BY <1>1, <1>2, <1>3, <1>5, <1>6 DEF ClientInv, TypeOK, blocks
<1>8. Session' /\ StreamIntact'
  BY <1>1, <1>2, <1>6 DEF ClientInv, Session, StreamIntact, blocks
<1> QED
  BY <1>7, <1>8 DEF ClientInv

\* A turn of the loop moves the front of the packet, or of the watermark when there
\* is no packet, to the end of the copy.
LEMMA TakeInv ==
    ASSUME ClientInv, WriteTake
    PROVE  ClientInv'
<1> DEFINE S == 1 .. MaxItems
<1>1. /\ wire \in Seq(S) /\ write_buff \in Seq(S) /\ current_send \in Seq(S)
      /\ send_wm \in Seq(S) /\ write_len \in 0 .. SingleSend /\ SingleSend \in Nat
      /\ write_len > 0
  BY ClientAssumption DEF ClientInv, TypeOK, Session, WriteTake
<1>2. /\ UNCHANGED <<addr, loaded, msgq, connect_state, send_release_count, app, app_loaded,
                     rx_tx_ready, recv_wm_high, recv_wm, sock, armed, zeros, accepted, wire,
                     lost>>
      /\ pc' = IF write_len' = 0 THEN "send" ELSE "take"
      /\ pc = "take"
  BY DEF WriteTake, appVars, library, history
<1> HIDE DEF S
<1> DEFINE Moved ==
             /\ write_buff' \in Seq(S) /\ current_send' \in Seq(S) /\ send_wm' \in Seq(S)
             /\ write_len' \in 0 .. SingleSend
             /\ Cat(write_buff', Cat(current_send', send_wm'))
                   = Cat(write_buff, Cat(current_send, send_wm))
<1>3. Moved
  <2>1. ASSUME NEW n \in 0 .. Len(current_send), n <= write_len,
               write_buff' = write_buff \o SubSeq(current_send, 1, n),
               current_send' = SubSeq(current_send, n + 1, Len(current_send)),
               write_len' = write_len - n, send_wm' = send_wm
        PROVE  Moved
    <3> DEFINE a == SubSeq(current_send, 1, n)
               b == SubSeq(current_send, n + 1, Len(current_send))
    <3>1. a \in Seq(S) /\ b \in Seq(S) /\ Cat(a, b) = current_send
      BY <1>1, <2>1, Cut DEF Cat
    <3>2. write_buff' = Cat(write_buff, a) /\ current_send' = b
      BY <2>1 DEF Cat
    <3> HIDE DEF a, b
    <3>3. write_buff' \in Seq(S)
      BY <1>1, <3>1, <3>2, CatAssociative
    <3>4. Cat(Cat(write_buff, a), Cat(b, send_wm)) = Cat(write_buff, Cat(Cat(a, b), send_wm))
      BY <1>1, <3>1, CatAssociative
    <3>5. n \in Nat
      BY <1>1, LenProperties
    <3>6. write_len' \in 0 .. SingleSend
      BY <1>1, <2>1, <3>5
    <3> QED
      BY <1>1, <2>1, <3>1, <3>2, <3>3, <3>4, <3>6
  <2>2. CASE /\ current_send = <<>> /\ send_wm # <<>>
             /\ write_buff' = Append(write_buff, Head(send_wm))
             /\ send_wm' = Tail(send_wm)
             /\ write_len' = write_len - 1 /\ current_send' = current_send
    <3>1. Head(send_wm) \in S /\ Tail(send_wm) \in Seq(S)
      BY <1>1, <2>2
    <3>2. <<Head(send_wm)>> \in Seq(S) /\ send_wm = Cat(<<Head(send_wm)>>, Tail(send_wm))
      BY <1>1, <2>2, <3>1 DEF Cat
    <3>3. write_buff' = Cat(write_buff, <<Head(send_wm)>>)
      BY <1>1, <2>2, <3>1 DEF Cat
    <3>4. /\ Cat(current_send, send_wm) = send_wm
          /\ Cat(current_send', send_wm') = send_wm'
      BY <1>1, <2>2, <3>1, ConcatEmptySeq DEF Cat
    <3>5. write_buff' \in Seq(S) /\ Cat(write_buff', send_wm') = Cat(write_buff, send_wm)
      <4> DEFINE h == <<Head(send_wm)>>
                 t == Tail(send_wm)
      <4>1. h \in Seq(S) /\ t \in Seq(S) /\ write_buff' = Cat(write_buff, h)
        BY <3>1, <3>2, <3>3
      <4>2. send_wm' = t /\ send_wm = Cat(h, t)
        BY <2>2, <3>2
      <4> HIDE DEF h, t
      <4>3. Cat(write_buff, h) \in Seq(S)
        BY <1>1, <4>1, CatAssociative
      <4>4. Cat(Cat(write_buff, h), t) = Cat(write_buff, Cat(h, t))
        BY <1>1, <4>1, CatAssociative
      <4> QED
        BY <4>1, <4>2, <4>3, <4>4, Zenon
    <3>6. write_len' \in 0 .. SingleSend
      BY <1>1, <2>2
    <3> QED
      BY <1>1, <2>2, <3>1, <3>4, <3>5, <3>6
  <2>3. CASE current_send # <<>>
    <3> DEFINE n == IF Len(current_send) < write_len THEN Len(current_send) ELSE write_len
    <3>1. n \in 0 .. Len(current_send) /\ n <= write_len
      BY <1>1, LenProperties
    <3>2. /\ write_buff' = write_buff \o SubSeq(current_send, 1, n)
          /\ current_send' = SubSeq(current_send, n + 1, Len(current_send))
          /\ write_len' = write_len - n /\ send_wm' = send_wm
      BY <2>3 DEF WriteTake
    <3> HIDE DEF n
    <3> QED
      BY <2>1, <3>1, <3>2
  <2> QED
    BY <2>2, <2>3 DEF WriteTake
<1> HIDE DEF Moved
<1>4. send_wm_high' \in BOOLEAN
  BY DEF WriteTake, socket_app_tx_wm_low_level_cb, ClientInv, TypeOK
<1>5. TypeOK'
  BY <1>2, <1>3, <1>4 DEF ClientInv, TypeOK, S, Moved
<1>6. Stream' = Stream
  <2>1. Stream = Cat(wire, Cat(write_buff, Cat(current_send, send_wm)))
    BY <1>1, CatFour DEF Stream
  <2>2. Stream' = Cat(wire, Cat(write_buff', Cat(current_send', send_wm')))
    <3>1. wire' = wire /\ write_buff' \in Seq(S) /\ current_send' \in Seq(S) /\ send_wm' \in Seq(S)
      BY <1>2, <1>3 DEF Moved
    <3> QED
      BY <1>1, <3>1, CatFour DEF Stream
  <2> QED
    BY <1>3, <2>1, <2>2 DEF Moved
<1>7. StreamIntact'
  BY <1>2, <1>6 DEF ClientInv, StreamIntact, Stream, Cat
<1>8. Session'
  <2>1. pc' = "take" => write_len' > 0
    BY <1>1, <1>2, <1>3 DEF Moved
  <2> QED
    BY <1>2, <2>1 DEF ClientInv, Session
<1> QED
  BY <1>5, <1>7, <1>8 DEF ClientInv

\* What the send leaves of the copy goes back in front of the packet and follows
\* what the socket took, whatever part of it that was.
LEMMA SendInv ==
    ASSUME ClientInv, WriteSend
    PROVE  ClientInv'
<1> DEFINE S == 1 .. MaxItems
<1>1. /\ wire \in Seq(S) /\ write_buff \in Seq(S) /\ current_send \in Seq(S)
      /\ send_wm \in Seq(S) /\ Len(write_buff) \in Nat /\ zeros \in Nat
  BY ClientAssumption, LenProperties DEF ClientInv, TypeOK
<1>2. /\ UNCHANGED <<addr, loaded, write_len, msgq, connect_state, send_release_count, app,
                     app_loaded, rx_tx_ready, send_wm_high, recv_wm_high, send_wm, recv_wm,
                     sock, accepted, lost>>
      /\ write_buff' = <<>> /\ pc = "send"
  BY DEF WriteSend, appVars
<1>3. PICK r \in SendResults(Len(write_buff)) :
         /\ wire' = IF r > 0 THEN wire \o SubSeq(write_buff, 1, r) ELSE wire
         /\ current_send' = Unsent(write_buff, r) \o current_send
         /\ armed' = (armed \/ (sock \in {"connecting", "up"} /\ r < 0))
         /\ zeros' = IF r = 0 THEN zeros + 1 ELSE zeros
         /\ pc' = IF r < 0 THEN "wait" ELSE "release"
  BY DEF WriteSend
<1>5. r = -1 \/ r \in 0 .. Len(write_buff)
  BY <1>1 DEF SendResults
<1> HIDE DEF S
<1> DEFINE taken == IF r > 0 THEN SubSeq(write_buff, 1, r) ELSE <<>>
           kept  == Unsent(write_buff, r)
<1>6. taken \in Seq(S) /\ kept \in Seq(S) /\ Cat(taken, kept) = write_buff
  <2>1. CASE r = -1
    BY <1>1, <2>1, EmptySeq, ConcatEmptySeq DEF Unsent, Cat
  <2>2. CASE r \in 0 .. Len(write_buff)
    <3>1. /\ SubSeq(write_buff, 1, r) \in Seq(S)
          /\ SubSeq(write_buff, r + 1, Len(write_buff)) \in Seq(S)
          /\ SubSeq(write_buff, 1, r) \o SubSeq(write_buff, r + 1, Len(write_buff)) = write_buff
          /\ Len(SubSeq(write_buff, 1, r)) = r
      BY <1>1, <2>2, Cut
    <3>2. kept = SubSeq(write_buff, r + 1, Len(write_buff))
      BY <1>1, <2>2 DEF Unsent
    <3>3. taken = SubSeq(write_buff, 1, r)
      <4>1. CASE r > 0
        BY <4>1
      <4>2. CASE r = 0
        BY <3>1, <4>2, EmptySeq
      <4> QED
        BY <1>1, <2>2, <4>1, <4>2
    <3> QED
      BY <3>1, <3>2, <3>3 DEF Cat
  <2> QED
    BY <1>5, <2>1, <2>2
<1>7. wire' = Cat(wire, taken)
  BY <1>1, <1>3, ConcatEmptySeq DEF Cat
<1>8. current_send' = Cat(kept, current_send)
  BY <1>3 DEF Cat
<1> HIDE DEF taken, kept
<1>9. wire' \in Seq(S) /\ current_send' \in Seq(S)
  BY <1>1, <1>6, <1>7, <1>8, CatAssociative
<1>10. Stream' = Stream
  <2>1. Stream' = Cat(wire', Cat(current_send', send_wm))
    BY <1>1, <1>2, <1>9, ConcatEmptySeq, CatAssociative DEF Cat, Stream
  <2>2. @ = Cat(Cat(wire, taken), Cat(Cat(kept, current_send), send_wm))
    BY <1>7, <1>8
  <2>3. @ = Cat(wire, Cat(Cat(taken, kept), Cat(current_send, send_wm)))
    BY <1>1, <1>6, CatAssociative
  <2>4. @ = Cat(wire, Cat(write_buff, Cat(current_send, send_wm)))
    BY <1>6
  <2>5. @ = Stream
    BY <1>1, CatFour DEF Stream
  <2> QED
    BY <2>1, <2>2, <2>3, <2>4, <2>5
<1>11. StreamIntact'
  BY <1>2, <1>10 DEF ClientInv, StreamIntact, Stream, Cat
<1>12. zeros' \in Nat /\ pc' \in {"wait", "release"}
  BY <1>1, <1>3
<1>13. armed' \in BOOLEAN
  BY <1>3 DEF ClientInv, TypeOK
<1>14. TypeOK'
  BY <1>2, <1>9, <1>12, <1>13, EmptySeq DEF ClientInv, TypeOK, S
<1>15. Session'
  BY <1>2, <1>12 DEF ClientInv, Session
<1> QED
  BY <1>11, <1>14, <1>15 DEF ClientInv

-----------------------------------------------------------------------------
(* The loop.                                                               *)

\* The end of the session empties the watermarks.
LEMMA CloseInv ==
    ASSUME ClientInv, HandleMsg, NEW m, qcm_socket_app_close_process(m),
           msgq' \in Seq(Msgs), Len(msgq') <= MaxMsgs
    PROVE  ClientInv'
<1>1. /\ UNCHANGED <<addr, loaded, write_len, write_buff, send_release_count, app, app_loaded,
                     armed, zeros, accepted, wire, lost>>
      /\ pc = "wait"
  BY DEF HandleMsg, qcm_socket_app_close_process, appVars, history
<1>2. CASE /\ socket_app_rx_tx_watermark_deinit
           /\ pc' = "exited"
           /\ connect_state' \in {"IDLE", connect_state}
           /\ sock' \in {"closed", sock}
  <2>1. <<>> \in Seq(1 .. MaxItems) /\ 0 \in 0 .. Limit
    BY ClientAssumption, EmptySeq
  <2>2. TypeOK'
    <3>1. /\ send_wm' \in Seq(1 .. MaxItems) /\ current_send' \in Seq(1 .. MaxItems)
          /\ recv_wm' \in 0 .. Limit
          /\ rx_tx_ready' = FALSE /\ UNCHANGED <<send_wm_high, recv_wm_high>>
      BY <1>2, <2>1 DEF socket_app_rx_tx_watermark_deinit
    <3>2. TypeOK
      BY DEF ClientInv
    <3>3. /\ connect_state' \in {"IDLE", "CONNECTING", "CONNECT", "CLOSING"}
          /\ sock' \in {"none", "connecting", "up", "down", "closed"}
          /\ pc' = "exited"
      BY <1>2, <3>2 DEF TypeOK
    <3>4. /\ rx_tx_ready' \in BOOLEAN /\ send_wm_high' \in BOOLEAN /\ recv_wm_high' \in BOOLEAN
          /\ armed' \in BOOLEAN /\ lost' \in BOOLEAN
      BY <1>1, <3>1, <3>2, Zenon DEF TypeOK
    <3>5. /\ addr' \in 0 .. NAddrs /\ app' \in {"idle", "load", "store", "report"}
          /\ send_release_count' \in Int /\ loaded' \in Int /\ app_loaded' \in Int
          /\ write_len' \in 0 .. SingleSend /\ write_buff' \in Seq(1 .. MaxItems)
          /\ zeros' \in Nat /\ accepted' \in 0 .. MaxItems /\ wire' \in Seq(1 .. MaxItems)
      BY <1>1, <3>2, Zenon DEF TypeOK
    <3> QED
      BY <3>1, <3>3, <3>4, <3>5, Zenon DEF TypeOK
  <2>3. StreamIntact' /\ Session'
    BY <1>1, <1>2 DEF socket_app_rx_tx_watermark_deinit, ClientInv, StreamIntact, Session
  <2> QED
    BY <2>2, <2>3 DEF ClientInv
<1>3. CASE pc' = "crashed" /\ UNCHANGED <<connect_state, session, sock>>
  BY <1>1, <1>3 DEF ClientInv, TypeOK, StreamIntact, Session, session
<1> QED
  BY <1>2, <1>3 DEF qcm_socket_app_close_process

\* A read touches the receive watermark and the flags only.
LEMMA ReadKeepsBlocks ==
    ASSUME TypeOK, qcm_socket_app_soc_read
    PROVE  /\ recv_wm' \in 0 .. Limit /\ send_wm_high' \in BOOLEAN
           /\ UNCHANGED <<rx_tx_ready, recv_wm_high, send_wm, current_send>>
<1>1. CASE UNCHANGED session
  BY <1>1 DEF session, TypeOK
<1>2. CASE /\ recv_wm < Limit /\ recv_wm' = recv_wm + 1
           /\ send_wm_high' = socket_app_rx_wm_high_level_cb(recv_wm + 1)
           /\ UNCHANGED <<rx_tx_ready, recv_wm_high, send_wm, current_send>>
  <2>1. recv_wm' \in 0 .. Limit
    BY <1>2, ClientAssumption DEF TypeOK
  <2>2. send_wm_high' \in BOOLEAN
    BY <1>2 DEF TypeOK, socket_app_rx_wm_high_level_cb
  <2> QED
    BY <1>2, <2>1, <2>2
<1> QED
  BY <1>1, <1>2 DEF qcm_socket_app_soc_read

\* A handled message, one step per kind.
LEMMA HandleInv ==
    ASSUME ClientInv, HandleMsg
    PROVE  ClientInv'
<1> DEFINE m == Head(msgq)
<1>1. /\ pc = "wait"
      /\ UNCHANGED <<addr, write_len, write_buff, send_release_count, app, app_loaded, armed,
                     zeros, accepted, wire, lost>>
      /\ \/ qcm_socket_app_event_process(m)
         \/ qcm_socket_app_send_process(m)
         \/ qcm_socket_app_close_process(m)
  BY DEF HandleMsg, appVars, history
<1>2. msgq' \in Seq(Msgs) /\ Len(msgq') <= MaxMsgs
  <2>1. msgq \in Seq(Msgs) /\ Len(msgq) <= MaxMsgs /\ msgq # <<>> /\ MaxMsgs \in Nat
    BY ClientAssumption DEF HandleMsg, ClientInv, TypeOK
  <2>2. msgq' = Tail(msgq)
    BY DEF HandleMsg
  <2> HIDE DEF Msgs
  <2> QED
    BY <2>1, <2>2
<1> HIDE DEF m
<1>3. CASE qcm_socket_app_event_process(m)
  <2>1. pc' \in {"wait", "write", "close"} /\ UNCHANGED <<loaded, sock>>
    BY <1>3 DEF qcm_socket_app_event_process
  <2>2. connect_state' \in {"IDLE", "CONNECTING", "CONNECT", "CLOSING"}
    BY <1>3 DEF qcm_socket_app_event_process, ClientInv, TypeOK
  <2>3. /\ recv_wm' \in 0 .. Limit /\ send_wm_high' \in BOOLEAN
        /\ UNCHANGED <<rx_tx_ready, recv_wm_high, send_wm, current_send>>
    <3>1. CASE UNCHANGED session
      BY <3>1 DEF session, ClientInv, TypeOK
    <3>2. CASE qcm_socket_app_soc_read
      BY <3>2, ReadKeepsBlocks DEF ClientInv
    <3> QED
      BY <1>3, <3>1, <3>2 DEF qcm_socket_app_event_process
  <2>4. TypeOK'
    BY <1>1, <1>2, <2>1, <2>2, <2>3 DEF ClientInv, TypeOK
  <2> QED
    BY <1>1, <2>1, <2>3, <2>4 DEF ClientInv, StreamIntact, Session
<1>4. CASE qcm_socket_app_send_process(m)
  <2>1. loaded' \in Int /\ pc' = "count" /\ UNCHANGED <<connect_state, session, sock>>
    BY <1>4 DEF qcm_socket_app_send_process, ClientInv, TypeOK
  <2>2. TypeOK'
    BY <1>1, <1>2, <2>1 DEF ClientInv, TypeOK, session
  <2> QED
    BY <1>1, <2>1, <2>2 DEF ClientInv, StreamIntact, Session, session
<1>5. CASE qcm_socket_app_close_process(m)
  BY <1>2, <1>5, CloseInv
<1> QED
  BY <1>1, <1>3, <1>4, <1>5

\* The rest of a handler: the count is stored, or the CLOSE message posted.
LEMMA HandlerEndInv ==
    ASSUME ClientInv, DecrementCount \/ qcm_socket_app_soc_close
    PROVE  ClientInv'
<1>1. UNCHANGED <<addr, write_len, connect_state, app, app_loaded, send_wm_high, recv_wm_high,
                  recv_wm, sock, armed, zeros, lost, blocks>>
  BY DEF DecrementCount, qcm_socket_app_soc_close, local, appVars, session, library, history,
     blocks
<1>2. send_release_count' \in Int /\ loaded' \in Int
  <2>1. CASE DecrementCount
    BY <2>1 DEF DecrementCount, ClientInv, TypeOK
  <2>2. CASE qcm_socket_app_soc_close
    BY <2>2 DEF qcm_socket_app_soc_close, local, ClientInv, TypeOK
  <2> QED
    BY <2>1, <2>2
<1>3. pc \in {"count", "close"} /\ pc' \in {"write", "wait"}
  BY DEF DecrementCount, qcm_socket_app_soc_close
<1>4. socket_app_event_report(Close(TRUE)) \/ UNCHANGED msgq
  BY DEF DecrementCount, qcm_socket_app_soc_close
<1>5. msgq' \in Seq(Msgs) /\ Len(msgq') <= MaxMsgs
  BY <1>4, ReportFits, KindsOfMsg DEF ClientInv
<1>6. TypeOK'
  BY <1>1, <1>2, <1>3, <1>5 DEF ClientInv, TypeOK, blocks
<1> QED
  BY <1>1, <1>3, <1>6 DEF ClientInv, StreamIntact, Session, blocks

\* Every step of the socket task, the library and the application keeps ClientInv.
THEOREM ClientInvariant == Spec => []ClientInv
<1>1. Init => ClientInv
  BY InitInv
<1>2. ClientInv /\ [Next]_vars => ClientInv'
  <2> SUFFICES ASSUME ClientInv, [Next]_vars
               PROVE  ClientInv'
    OBVIOUS
  <2>1. CASE SocketTask
    BY <2>1, StartInv, HandleInv, HandlerEndInv, WriteFrameInv, TakeInv, SendInv
    DEF SocketTask, qcm_socket_app_soc_write
  <2>2. CASE Library
    BY <2>2, ReportInv
  <2>3. CASE Application
    BY <2>3, ReportInv, SendDataInv, NonEmptyInv DEF Application
  <2>4. CASE UNCHANGED vars
    BY <2>4 DEF vars, local, appVars, session, library, history, ClientInv, TypeOK,
       StreamIntact, Session
  <2> QED
    BY <2>1, <2>2, <2>3, <2>4 DEF Next
<1> QED
  BY <1>1, <1>2, PTL DEF Spec

\* Every variable keeps the type of its C object and the queue its capacity, for
\* every capacity, limit and number of blocks.
THEOREM ClientTypeCorrect == Spec => []TypeOK
<1>1. ClientInv => TypeOK
  BY DEF ClientInv
<1> QED
  BY <1>1, ClientInvariant, PTL

\* However sends block, fail or take a part, whatever messages are lost and whenever
\* the application pushes, no block is lost, repeated or reordered between
\* qcm_socket_app_send_data and the socket while the session lasts.
THEOREM ClientStreamIntact == Spec => []StreamIntact
<1>1. ClientInv => StreamIntact
  BY DEF ClientInv
<1> QED
  BY <1>1, ClientInvariant, PTL
=============================================================================
